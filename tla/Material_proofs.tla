--------------------------- MODULE Material_proofs ---------------------------
(* Theorems about Distribution, ShareBatch and Original, for any number of *)
(* builds, operations, batches, permits, tasks, crashes and surprises.     *)
EXTENDS Distribution, ShareBatch, Original, FiniteSetTheorems, TLAPS

----------------------------------------------------------------------------
(* The distribution of a material.                                         *)

Sends == {"sending", "result_unknown", "verifying", "succeeded"}

OpRow    == [status : {"none", "succeeded", "failed"} \cup Unresolved,
             does : {"share", "relay", "file"}, token : BOOLEAN, live : BOOLEAN]
DistRow  == [status : {"none", "ready", "blocked"} \cup Active, op : Op \cup {None}]
AssetRow == [at : {"idle", "claimed", "armed", "posted", "answered", "looked", "failing"},
             dist : Dist \cup {None}, op : Op \cup {None}, kind : {"prepare", "verify"},
             sent : BOOLEAN, outcome : {"none", "good", "bad", "deferred"},
             before : {"none"} \cup Unresolved]
Rows     == op \in [Op -> OpRow] /\ dist \in [Dist -> DistRow] /\ assetRun \in [Task -> AssetRow]
Mail     == waiting \in [Dist -> SUBSET Message] /\ taken \in [Dist -> SUBSET Message]

\* What a run knows of the operation that it holds; only one that has not asked may say that
\* nothing was made.
RunKnows(t) ==
  LET r == assetRun[t] IN
  r.at # "idle" =>
    /\ r.dist \in Dist /\ r.op \in Op \ Source /\ opHolder[r.op] = t
    /\ op[r.op].status \in Unresolved
    /\ r.kind = "prepare" => r.before = "pending" /\ (~r.sent => Copies = {})
    /\ r.kind = "verify" => r.before \in {"result_unknown", "verifying"}
    /\ r.at = "claimed" => r.outcome = "none"
    /\ r.at = "claimed" \/ r.outcome = "deferred" => ~r.sent
    /\ r.at = "armed" => op[r.op].status = "sending"
    /\ r.at = "posted" => r.outcome = "good"
    /\ r.at = "armed" \/ (r.at = "answered" /\ r.outcome = "bad") => Copies = {}
    /\ r.at = "looked" /\ r.outcome = "good" => Copies # {}

RunsKnow == \A t \in Task : RunKnows(t)

\* A claim has not expired while its run is under way.
HeldIsLive == \A o \in Op : opHolder[o] # None => op[o].live /\ op[o].status # "none"

\* Only what was asked for can have been made; before that there is no copy at all.
CopiesWereSent ==
  /\ \A o \in Copies : op[o].status \in Sends /\ made[o] = 1
  /\ \A o, p \in Copies : o = p
  /\ \A o \in Op : op[o].status = "pending" => Copies = {}
  /\ \A o \in Source : op[o].status = "verifying" => Copies = {}

\* A copy whose operation is concluded is known.
KnownIsThere ==
  /\ mapping # "none" => Copies # {}
  /\ \A o \in Op : op[o].status = "succeeded" => mapping # "none"
  /\ \A d \in Dist : dist[d].status = "ready" => Copies # {}

\* A distribution that goes on after its operation failed is the only one that could begin
\* another, and nothing was made so far.
FailedIsAlone ==
  \A d \in Dist : dist[d].status \in Active /\ op[dist[d].op].status = "failed" =>
    Copies = {} /\ Reserved = {}

DistsHaveOps ==
  /\ \A d \in Dist : dist[d].status # "none" => dist[d].op \in Op
  /\ \A d, e \in Dist : dist[d].status \in Active /\ dist[e].status \in Active => d = e

DistributionCore ==
  /\ OneUnresolved /\ RunsKnow /\ HeldIsLive /\ CopiesWereSent
  /\ KnownIsThere /\ FailedIsAlone /\ DistsHaveOps
DistributionInv == DistributionTypeOK /\ DistributionCore

LEMMA AssetRows ==
  DistributionTypeOK <=>
    /\ Rows /\ Mail /\ opHolder \in [Op -> Task \cup {None}]
    /\ mapping \in {"none", "stale", "fresh"} /\ allowed \in BOOLEAN /\ made \in [Op -> Nat]
    /\ surprises \in 0 .. MaxSurprises /\ assetKills \in 0 .. MaxCrashes
BY DEF DistributionTypeOK, Rows, Mail, OpRow, DistRow, AssetRow

LEMMA MailTypes ==
  /\ \A m \in Message : m \in {"prepare", "verify", "observe", "old", "foreign"} \cup Recovery
  /\ {"prepare", "verify", "observe", "old", "foreign", "recover_prepare", "recover_verify"} \subseteq Message
BY DEF Message, Recovery

\* The rows that one assignment changes.
LEMMA PutOp ==
  ASSUME op \in [Op -> OpRow], NEW o \in Op, NEW row \in OpRow, op' = [op EXCEPT ![o] = row]
  PROVE  /\ op' \in [Op -> OpRow] /\ op'[o] = row
         /\ \A p \in Op \ {o} : op'[p] = op[p]
OBVIOUS

LEMMA PutDist ==
  ASSUME dist \in [Dist -> DistRow], NEW d \in Dist, NEW row \in DistRow,
         dist' = [dist EXCEPT ![d] = row]
  PROVE  /\ dist' \in [Dist -> DistRow] /\ dist'[d] = row
         /\ \A e \in Dist \ {d} : dist'[e] = dist[e]
OBVIOUS

LEMMA PutRun ==
  ASSUME assetRun \in [Task -> AssetRow], NEW t \in Task, NEW row \in AssetRow,
         assetRun' = [assetRun EXCEPT ![t] = row]
  PROVE  /\ assetRun' \in [Task -> AssetRow] /\ assetRun'[t] = row
         /\ \A u \in Task \ {t} : assetRun'[u] = assetRun[u]
OBVIOUS

\* What the invariant says of the one run that is under way.
LEMMA RunFacts ==
  ASSUME DistributionInv, NEW t \in Task, assetRun[t].at # "idle"
  PROVE  /\ assetRun[t].op \in Op \ Source /\ assetRun[t].dist \in Dist
         /\ opHolder[assetRun[t].op] = t /\ op[assetRun[t].op].status \in Unresolved
         /\ op[assetRun[t].op].live
         /\ \A p \in Op \ {assetRun[t].op} : op[p].status \notin Unresolved
         /\ \A u \in Task \ {t} : assetRun[u].at = "idle"
<1>1. \A u \in Task : assetRun[u].at # "idle" =>
        /\ assetRun[u].op \in Op \ Source /\ assetRun[u].dist \in Dist
        /\ opHolder[assetRun[u].op] = u /\ op[assetRun[u].op].status \in Unresolved
  BY DEF DistributionInv, DistributionCore, RunsKnow, RunKnows
<1>2. t # None
  BY TasksOK
<1>3. op[assetRun[t].op].live
  BY <1>1, <1>2 DEF DistributionInv, DistributionCore, HeldIsLive
<1>4. \A p \in Op \ {assetRun[t].op} : op[p].status \notin Unresolved
  BY <1>1 DEF DistributionInv, DistributionCore, OneUnresolved, Reserved
<1> QED BY <1>1, <1>3, <1>4

\* Nothing in the invariant depends on messages, permissions and counters.
LEMMA CoreStays ==
  ASSUME DistributionCore, UNCHANGED <<op, opHolder, dist, mapping, assetRun, made>>
  PROVE  DistributionCore'
BY DEF DistributionCore, OneUnresolved, RunsKnow, RunKnows, HeldIsLive, CopiesWereSent,
       KnownIsThere, FailedIsAlone, DistsHaveOps, Reserved, Copies
\* A copy that no unresolved operation made is known; an expired or absent claim means that
\* nobody works.
LEMMA CopyIsKnown ==
  ASSUME DistributionInv, Reserved = {}, Copies # {}
  PROVE  mapping # "none"
<1>1. PICK o \in Copies : TRUE
  OBVIOUS
<1>2. o \in Op /\ op[o].status = "succeeded"
  BY <1>1 DEF DistributionInv, DistributionCore, CopiesWereSent, Sends, Reserved,
     Unresolved, Copies
<1> QED BY <1>2 DEF DistributionInv, DistributionCore, KnownIsThere

LEMMA NobodyRuns ==
  ASSUME DistributionInv, Reserved = {} \/ \E o \in Reserved : ~op[o].live
  PROVE  \A t \in Task : assetRun[t].at = "idle"
<1> SUFFICES ASSUME NEW t \in Task, assetRun[t].at # "idle" PROVE FALSE
  OBVIOUS
<1> QED BY RunFacts DEF Reserved

\* A look at the target binds an operation that is there already, or begins one.
Begins(o, status) ==
  /\ o \in Op \ Source /\ status \in {"pending", "verifying"}
  /\ Reserved \subseteq {o} /\ op[o].status \in {"none", "pending"}
  /\ op[o].status = "pending" => status = "pending"
  /\ status = "verifying" => mapping # "none"
  /\ op'[o] \in OpRow /\ op'[o].status = status
  /\ op'[o].token = op[o].token /\ op'[o].live = op[o].live

LEMMA BindBegins ==
  ASSUME DistributionInv, NEW o \in Op, NEW does \in {"share", "relay", "file"},
         NEW existing \in BOOLEAN, existing => mapping # "none",
         Binds(o), op' = [op EXCEPT ![o] = Bound(o, does, existing)]
  PROVE  /\ op' \in [Op -> OpRow] /\ \A p \in Op \ {o} : op'[p] = op[p]
         /\ \/ op' = op /\ o \in Reserved
            \/ Begins(o, op'[o].status) /\ (existing => op'[o].status = "verifying")
<1>1. op \in [Op -> OpRow]
  BY AssetRows DEF DistributionInv, Rows
<1>2. PICK row : row = Bound(o, does, existing)
  OBVIOUS
<1>3. op[o] \in OpRow
  BY <1>1
<1>4. row \in OpRow /\ row.token = op[o].token /\ row.live = op[o].live
  BY <1>2, <1>3 DEF Bound, OpRow, Unresolved
<1>5. \/ row = op[o] /\ (o \in Source \/ op[o].status \notin {"none", "pending"})
      \/ /\ o \notin Source /\ op[o].status \in {"none", "pending"}
         /\ row.status = IF existing /\ mapping # "none" THEN "verifying" ELSE "pending"
  BY <1>2, <1>3 DEF Bound, OpRow
<1>6. op' \in [Op -> OpRow] /\ op'[o] = row /\ \A p \in Op \ {o} : op'[p] = op[p]
  BY <1>1, <1>2, <1>4, PutOp
<1>7. CASE row = op[o] /\ (o \in Source \/ op[o].status \notin {"none", "pending"})
  <2>1. op' = op
    BY <1>1, <1>2, <1>7
  <2>2. o \in Reserved
    BY <1>7 DEF Binds, Unused
  <2> QED BY <1>6, <2>1, <2>2
<1>8. CASE /\ o \notin Source /\ op[o].status \in {"none", "pending"}
           /\ row.status = IF existing /\ mapping # "none" THEN "verifying" ELSE "pending"
  <2>1. Reserved \subseteq {o}
    BY DEF Binds, DistributionInv, DistributionCore, OneUnresolved
  <2>2. op[o].status = "pending" => row.status = "pending"
    BY <1>8 DEF DistributionInv, DistributionCore, CopiesWereSent, KnownIsThere
  <2>3. row.status \in {"pending", "verifying"} /\ (row.status = "verifying" => mapping # "none")
    BY <1>8
  <2>4. Begins(o, row.status)
    BY <1>4, <1>6, <1>8, <2>1, <2>2, <2>3 DEF Begins
  <2> QED BY <1>6, <1>8, <2>4
<1> QED BY <1>5, <1>7, <1>8

LEMMA BeginKeeps ==
  ASSUME DistributionInv, NEW o \in Op, Begins(o, op'[o].status),
         \A p \in Op \ {o} : op'[p] = op[p],
         Copies # {} => mapping # "none" /\ op'[o].status # "pending",
         UNCHANGED <<opHolder, mapping, assetRun, made>>
  PROVE  /\ OneUnresolved' /\ RunsKnow' /\ HeldIsLive' /\ CopiesWereSent'
         /\ \A p \in Op : op'[p].status = "succeeded" => op[p].status = "succeeded"
<1>1. /\ o \in Op \ Source /\ op'[o].status \in {"pending", "verifying"}
      /\ \A p \in Op \ {o} : op[p].status \notin Unresolved
      /\ op[o].status \in {"none", "pending"}
      /\ op[o].status = "pending" => op'[o].status = "pending"
      /\ op'[o].live = op[o].live
  BY DEF Begins, Reserved
<1>2. Copies' = Copies
  BY DEF Copies
<1>3. OneUnresolved'
  BY <1>1 DEF OneUnresolved, Reserved
<1>4. RunsKnow'
  BY <1>1, <1>2 DEF DistributionInv, DistributionCore, RunsKnow, RunKnows, Unresolved
<1>5. HeldIsLive'
  BY <1>1 DEF DistributionInv, DistributionCore, HeldIsLive
<1>6. CopiesWereSent'
  <2>1. \A p \in Copies : p \in Op /\ op[p].status \in Sends /\ made[p] = 1
    BY DEF DistributionInv, DistributionCore, CopiesWereSent, Copies
  <2>2. \A p \in Copies : op'[p] = op[p]
    BY <1>1, <2>1 DEF Sends
  <2>3. \A p, q \in Copies : p = q
    BY DEF DistributionInv, DistributionCore, CopiesWereSent
  <2>4. \A p \in Op : op'[p].status = "pending" => Copies = {}
    BY <1>1 DEF DistributionInv, DistributionCore, CopiesWereSent
  <2>5. \A p \in Source : op'[p].status = "verifying" => Copies = {}
    BY <1>1, DistributionOK DEF DistributionInv, DistributionCore, CopiesWereSent
  <2> QED BY <1>2, <2>1, <2>2, <2>3, <2>4, <2>5 DEF CopiesWereSent
<1> QED BY <1>1, <1>3, <1>4, <1>5, <1>6
\* Distributions, when one of them changes.
DistPuts(d, row) ==
  /\ dist' = [dist EXCEPT ![d] = row]
  /\ row.status # "none" => row.op \in Op
  /\ row.status \in Active => \A e \in Dist \ {d} : dist[e].status \notin Active

LEMMA DistKeeps ==
  ASSUME DistributionInv, NEW d \in Dist, NEW row \in DistRow, DistPuts(d, row)
  PROVE  DistsHaveOps' /\ dist' \in [Dist -> DistRow]
<1> USE DEF DistPuts
<1>1. /\ dist' \in [Dist -> DistRow] /\ dist'[d] = row
      /\ \A e \in Dist \ {d} : dist'[e] = dist[e]
  BY PutDist, AssetRows DEF DistributionInv, Rows
<1>2. \A e \in Dist : dist'[e].status # "none" => dist'[e].op \in Op
  BY <1>1 DEF DistributionInv, DistributionCore, DistsHaveOps
<1>3. \A e, f \in Dist : dist'[e].status \in Active /\ dist'[f].status \in Active => e = f
  BY <1>1 DEF DistributionInv, DistributionCore, DistsHaveOps
<1> QED BY <1>1, <1>2, <1>3 DEF DistsHaveOps

LEMMA EnsureKeeps ==
  ASSUME DistributionInv, NEW d \in Dist, Ensure(d)
  PROVE  DistributionCore' /\ Rows'
<1>1. PICK o \in Op, path \in Paths :
        /\ Binds(o)
        /\ op' = [op EXCEPT ![o] = Bound(o, path.does, path.existing)]
        /\ dist' = [dist EXCEPT ![d] = [status |-> "queued", op |-> o]]
  BY DEF Ensure
<1>2. /\ path.does \in {"share", "relay", "file"} /\ path.existing \in BOOLEAN
      /\ (path.existing => mapping # "none") /\ (mapping # "none" => path.existing)
  <2>1. CASE mapping # "none"
    <3>1. path = [does |-> "file", existing |-> TRUE]
      BY <2>1 DEF Paths
    <3> QED BY <2>1, <3>1
  <2>2. CASE mapping = "none"
    <3>1. PICK does \in {"share", "relay", "file"} : path = [does |-> does, existing |-> FALSE]
      BY <2>2 DEF Paths
    <3> QED BY <2>2, <3>1
  <2> QED BY <2>1, <2>2
<1>3. UNCHANGED <<opHolder, mapping, assetRun, made>> /\ \A e \in Dist : dist[e].status \notin Active
  BY DEF Ensure, world
<1>4. PICK row \in DistRow : row = [status |-> "queued", op |-> o]
  BY DEF DistRow, Active
<1>5. /\ op' \in [Op -> OpRow] /\ \A p \in Op \ {o} : op'[p] = op[p]
      /\ \/ op' = op /\ o \in Reserved
         \/ Begins(o, op'[o].status) /\ (path.existing => op'[o].status = "verifying")
  BY <1>1, <1>2, BindBegins
<1>6. /\ DistsHaveOps' /\ dist' \in [Dist -> DistRow] /\ dist'[d] = row
      /\ \A e \in Dist \ {d} : dist'[e] = dist[e]
  <2>1. DistPuts(d, row)
    BY <1>1, <1>3, <1>4 DEF DistPuts
  <2>2. DistsHaveOps' /\ dist' \in [Dist -> DistRow]
    BY <2>1, DistKeeps
  <2>3. dist \in [Dist -> DistRow] /\ dist' = [dist EXCEPT ![d] = row]
    BY <1>1, <1>4, AssetRows DEF DistributionInv, Rows
  <2> QED BY <2>2, <2>3, PutDist
<1>7. Copies' = Copies /\ op'[o].status \in Unresolved
  BY <1>3, <1>5 DEF Copies, Begins, Reserved, Unresolved
<1>8. /\ OneUnresolved' /\ RunsKnow' /\ HeldIsLive' /\ CopiesWereSent'
      /\ \A p \in Op : op'[p].status = "succeeded" => op[p].status = "succeeded"
  <2>1. CASE op' = op /\ o \in Reserved
    BY <1>3, <1>7, <2>1 DEF DistributionInv, DistributionCore, OneUnresolved, RunsKnow,
       RunKnows,
       HeldIsLive, CopiesWereSent, Reserved, Copies
  <2>2. CASE Begins(o, op'[o].status) /\ (path.existing => op'[o].status = "verifying")
    <3>1. Copies # {} => mapping # "none" /\ op'[o].status # "pending"
      <4> SUFFICES ASSUME Copies # {} PROVE mapping # "none" /\ op'[o].status # "pending"
        OBVIOUS
      <4>1. CASE Reserved = {}
        BY <1>2, <2>2, <4>1, CopyIsKnown
      <4>2. CASE Reserved # {}
        <5>1. op[o].status = "pending"
          BY <1>1, <2>2, <4>2 DEF Binds, Begins, Reserved, Unresolved
        <5> QED BY <5>1 DEF DistributionInv, DistributionCore, CopiesWereSent
      <4> QED BY <4>1, <4>2
    <3> QED BY <1>3, <1>5, <2>2, <3>1, BeginKeeps
  <2> QED BY <1>5, <2>1, <2>2
<1>9. KnownIsThere'
  BY <1>3, <1>4, <1>6, <1>7, <1>8 DEF DistributionInv, DistributionCore, KnownIsThere
<1>10. FailedIsAlone'
  BY <1>3, <1>4, <1>6, <1>7 DEF FailedIsAlone, Unresolved
<1>11. assetRun' \in [Task -> AssetRow]
  BY <1>3, AssetRows DEF DistributionInv, Rows
<1> QED BY <1>5, <1>6, <1>8, <1>9, <1>10, <1>11 DEF DistributionCore, Rows
\* Another operation takes the place of one that is over.
LEMMA RebindKeeps ==
  ASSUME DistributionInv, NEW d \in Dist, NEW m, NEW existing \in BOOLEAN, NEW kind,
         Rebind(d, m, existing, kind), dist[d].status \in Active, UNCHANGED quiet,
         \/ existing /\ mapping # "none"
         \/ ~existing /\ op[dist[d].op].status = "failed"
  PROVE  DistributionCore' /\ Rows'
<1>1. PICK o \in Op :
        /\ Binds(o) /\ op' = [op EXCEPT ![o] = Bound(o, "file", existing)]
        /\ dist' = [dist EXCEPT ![d].op = o] /\ UNCHANGED <<opHolder, assetRun>>
  BY Zenon DEF Rebind
<1>2. UNCHANGED <<opHolder, mapping, assetRun, made>>
  BY <1>1 DEF quiet
<1>3. /\ op' \in [Op -> OpRow] /\ \A p \in Op \ {o} : op'[p] = op[p]
      /\ \/ op' = op /\ o \in Reserved
         \/ Begins(o, op'[o].status) /\ (existing => op'[o].status = "verifying")
  BY <1>1, BindBegins
<1>4. PICK row : row = [dist[d] EXCEPT !.op = o]
  OBVIOUS
<1>5. /\ row \in DistRow /\ row.status = dist[d].status /\ row.op = o
      /\ dist' = [dist EXCEPT ![d] = row]
  BY <1>1, <1>4, AssetRows DEF DistributionInv, Rows, DistRow
<1>6. \A e \in Dist \ {d} : dist[e].status \notin Active
  BY DEF DistributionInv, DistributionCore, DistsHaveOps
<1>7. /\ DistsHaveOps' /\ dist' \in [Dist -> DistRow] /\ dist'[d] = row
      /\ \A e \in Dist \ {d} : dist'[e] = dist[e]
  <2>1. DistPuts(d, row)
    BY <1>3, <1>5, <1>6 DEF DistPuts, Begins, Reserved
  <2>2. DistsHaveOps' /\ dist' \in [Dist -> DistRow]
    BY <1>5, <2>1, DistKeeps
  <2>3. dist \in [Dist -> DistRow] /\ dist' = [dist EXCEPT ![d] = row]
    BY <1>5, AssetRows DEF DistributionInv, Rows
  <2> QED BY <2>2, <2>3, PutDist
<1>8. Copies' = Copies /\ op'[o].status \in Unresolved
  BY <1>2, <1>3 DEF Copies, Begins, Reserved, Unresolved
<1>9. Copies # {} => existing
  BY DEF DistributionInv, DistributionCore, FailedIsAlone
<1>10. /\ OneUnresolved' /\ RunsKnow' /\ HeldIsLive' /\ CopiesWereSent'
       /\ \A p \in Op : op'[p].status = "succeeded" => op[p].status = "succeeded"
  <2>1. CASE op' = op /\ o \in Reserved
    BY <1>2, <1>8, <2>1 DEF DistributionInv, DistributionCore, OneUnresolved, RunsKnow,
       RunKnows,
       HeldIsLive, CopiesWereSent, Reserved, Copies
  <2>2. CASE Begins(o, op'[o].status) /\ (existing => op'[o].status = "verifying")
    <3>1. Copies # {} => mapping # "none" /\ op'[o].status # "pending"
      BY <1>9, <2>2
    <3> QED BY <1>2, <1>3, <2>2, <3>1, BeginKeeps
  <2> QED BY SMTT(90), <1>3, <2>1, <2>2
<1>11. KnownIsThere'
  BY <1>2, <1>5, <1>7, <1>8, <1>10 DEF DistributionInv, DistributionCore, KnownIsThere
<1>12. FailedIsAlone'
  BY <1>5, <1>6, <1>7, <1>8 DEF FailedIsAlone, Unresolved
<1>13. assetRun' \in [Task -> AssetRow]
  BY <1>2, AssetRows DEF DistributionInv, Rows
<1> QED BY <1>3, <1>7, <1>10, <1>11, <1>12, <1>13 DEF DistributionCore, Rows

\* One distribution is told how things stand; the rest stays.
LEMMA EndsKeeps ==
  ASSUME DistributionInv, NEW d \in Dist, dist[d].status \in Active,
         NEW status \in {"blocked", "ready"} \cup Active,
         dist' = [dist EXCEPT ![d].status = status],
         status = "ready" => Copies # {},
         UNCHANGED <<op, opHolder, mapping, assetRun, made>>
  PROVE  DistributionCore' /\ Rows'
<1>1. PICK row : row = [dist[d] EXCEPT !.status = status]
  OBVIOUS
<1>2. /\ row \in DistRow /\ row.status = status /\ row.op = dist[d].op
      /\ dist' = [dist EXCEPT ![d] = row]
  BY <1>1, AssetRows DEF DistributionInv, Rows, DistRow
<1>3. \A e \in Dist \ {d} : dist[e].status \notin Active
  BY DEF DistributionInv, DistributionCore, DistsHaveOps
<1>4. dist[d].op \in Op
  BY DEF DistributionInv, DistributionCore, DistsHaveOps, Active
<1>5. /\ DistsHaveOps' /\ dist' \in [Dist -> DistRow] /\ dist'[d] = row
      /\ \A e \in Dist \ {d} : dist'[e] = dist[e]
  <2>1. DistPuts(d, row)
    BY <1>2, <1>3, <1>4 DEF DistPuts
  <2>2. DistsHaveOps' /\ dist' \in [Dist -> DistRow]
    BY <1>2, <2>1, DistKeeps
  <2>3. dist \in [Dist -> DistRow] /\ dist' = [dist EXCEPT ![d] = row]
    BY <1>2, <1>3, <1>4, AssetRows DEF DistributionInv, Rows
  <2> QED BY <2>2, <2>3, PutDist
<1>6. OneUnresolved' /\ RunsKnow' /\ HeldIsLive' /\ CopiesWereSent'
  BY DEF DistributionInv, DistributionCore, OneUnresolved, RunsKnow, RunKnows,
     HeldIsLive, CopiesWereSent, Reserved, Copies
<1>7. KnownIsThere' /\ FailedIsAlone'
  BY <1>2, <1>5 DEF DistributionInv, DistributionCore, KnownIsThere, FailedIsAlone, Copies,
     Reserved
<1> QED BY <1>5, <1>6, <1>7, AssetRows DEF DistributionCore, DistributionInv, Rows

\* Nobody works, and an operation that nobody holds moves on without having been sent.
LEMMA SettleKeeps ==
  ASSUME DistributionInv, NEW d \in Dist, dist[d].status \in Active, NEW o \in Op \ Source,
         dist[d].op = o, ~op[o].live, op[o].status \in Unresolved,
         NEW row \in OpRow, op' = [op EXCEPT ![o] = row], row.live = op[o].live,
         \/ row.status = op[o].status
         \/ row.status = "failed" /\ op[o].status = "pending"
         \/ row.status = "result_unknown" /\ op[o].status = "sending",
         NEW status \in {"blocked", "result_unknown"},
         dist' = [dist EXCEPT ![d].status = status], row.status = "failed" => status = "blocked",
         opHolder' = opHolder \/ opHolder' = [opHolder EXCEPT ![o] = None],
         UNCHANGED <<mapping, assetRun, made>>
  PROVE  DistributionCore' /\ Rows'
<1>1. PICK there : there = [dist[d] EXCEPT !.status = status]
  OBVIOUS
<1>2. /\ there \in DistRow /\ there.status = status /\ there.op = o
      /\ dist' = [dist EXCEPT ![d] = there]
  BY <1>1, AssetRows DEF DistributionInv, Rows, DistRow, Active
<1>3. \A e \in Dist \ {d} : dist[e].status \notin Active
  BY DEF DistributionInv, DistributionCore, DistsHaveOps
<1>4. /\ DistsHaveOps' /\ dist' \in [Dist -> DistRow] /\ dist'[d] = there
      /\ \A e \in Dist \ {d} : dist'[e] = dist[e]
  <2>1. DistsHaveOps' /\ dist' \in [Dist -> DistRow]
    <3>1. DistPuts(d, there)
      BY <1>2, <1>3 DEF DistPuts
    <3> QED BY <1>2, <3>1, DistKeeps
  <2>2. dist \in [Dist -> DistRow]
    BY AssetRows DEF DistributionInv, Rows
  <2> QED BY <1>2, <2>1, <2>2, PutDist
<1>5. op' \in [Op -> OpRow] /\ op'[o] = row /\ \A p \in Op \ {o} : op'[p] = op[p]
  BY PutOp, AssetRows DEF DistributionInv, Rows
<1>6. o \in Reserved /\ \A t \in Task : assetRun[t].at = "idle"
  BY NobodyRuns DEF Reserved
<1>7. \A p \in Op \ {o} : op[p].status \notin Unresolved
  BY <1>6 DEF DistributionInv, DistributionCore, OneUnresolved, Reserved
<1>8. Copies' = Copies
  BY DEF Copies
<1>9. OneUnresolved' /\ RunsKnow'
  BY <1>5, <1>6, <1>7 DEF OneUnresolved, Reserved, RunsKnow, RunKnows
<1>10. HeldIsLive'
  <2>1. \A p \in Op : opHolder'[p] # None => opHolder[p] # None /\ p # o
    BY AssetRows DEF DistributionInv, DistributionCore, HeldIsLive
  <2> QED BY <1>5, <2>1 DEF DistributionInv, DistributionCore, HeldIsLive
<1>11. CopiesWereSent'
  <2>1. \A p \in Copies : p \in Op /\ op[p].status \in Sends /\ made[p] = 1
    BY DEF DistributionInv, DistributionCore, CopiesWereSent, Copies
  <2>2. \A p \in Copies : op'[p].status \in Sends
    BY <1>5, <2>1 DEF Sends
  <2> QED BY <1>5, <1>8, <2>1, <2>2, DistributionOK
          DEF DistributionInv, DistributionCore, CopiesWereSent
<1>12. KnownIsThere'
  BY <1>2, <1>4, <1>5, <1>8 DEF DistributionInv, DistributionCore, KnownIsThere, Unresolved
<1>13. FailedIsAlone'
  <2> SUFFICES ASSUME NEW e \in Dist, dist'[e].status \in Active, op'[dist'[e].op].status = "failed"
               PROVE  FALSE
    BY DEF FailedIsAlone
  <2> QED BY <1>2, <1>3, <1>4, <1>5 DEF Active, Unresolved
<1> QED BY <1>4, <1>5, <1>9, <1>10, <1>11, <1>12, <1>13, AssetRows
        DEF DistributionCore, DistributionInv, Rows
\* Nobody works, and a task claims an operation: one that is looked up, one that waits to be
\* sent, or a new one in place of one that failed.
LEMMA ClaimKeeps ==
  ASSUME DistributionInv, NEW t \in Task, NEW d \in Dist, dist[d].status \in Active, NEW m,
         NEW o \in Op \ Source, NEW was \in OpRow, assetRun[t].at = "idle",
         \A p \in Op \ {o} : op[p].status \notin Unresolved,
         opHolder[o] = None,
         \/ was.status = op[o].status
         \/ op[o].status = "none" /\ was.status = "pending" /\ Copies = {},
         IF Kind(m) = "prepare" THEN was.status = "pending"
                                ELSE was.status \in {"sending", "result_unknown", "verifying"},
         Claim(t, d, m, o, was), UNCHANGED quiet
  PROVE  DistributionCore' /\ Rows' /\ opHolder' \in [Op -> Task \cup {None}]
<1>1. PICK status : status = IF was.status = "sending" THEN "result_unknown" ELSE was.status
  OBVIOUS
<1>2. PICK row : row = [was EXCEPT !.status = status, !.token = TRUE, !.live = TRUE]
  OBVIOUS
<1>3. PICK place : place = IF was.status = "sending" THEN "result_unknown" ELSE dist[d].status
  OBVIOUS
<1>4. PICK run : run = [at |-> "claimed", dist |-> d, op |-> o, kind |-> Kind(m), sent |-> FALSE,
                        outcome |-> "none", before |-> status]
  OBVIOUS
<1>5. /\ op' = [op EXCEPT ![o] = row] /\ opHolder' = [opHolder EXCEPT ![o] = t]
      /\ dist' = [dist EXCEPT ![d] = [op |-> o, status |-> place]]
      /\ assetRun' = [assetRun EXCEPT ![t] = run]
  BY <1>1, <1>2, <1>3, <1>4 DEF Claim
<1>6. Kind(m) \in {"prepare", "verify"}
  BY DEF Kind
<1>7. /\ status = IF was.status = "sending" THEN "result_unknown" ELSE was.status
      /\ status \in Unresolved /\ row \in OpRow /\ row.status = status /\ row.live
      /\ Kind(m) = "prepare" => status = "pending"
      /\ Kind(m) = "verify" => status \in {"result_unknown", "verifying"}
  BY <1>1, <1>2, <1>6 DEF OpRow, Unresolved
<1>8. /\ op' \in [Op -> OpRow] /\ op'[o] = row /\ \A p \in Op \ {o} : op'[p] = op[p]
  BY <1>5, <1>7, PutOp, AssetRows DEF DistributionInv, Rows
<1>9. run \in AssetRow
  BY <1>4, <1>6, <1>7 DEF AssetRow
<1>10. /\ assetRun' \in [Task -> AssetRow] /\ assetRun'[t] = run
       /\ \A u \in Task \ {t} : assetRun'[u] = assetRun[u]
  <2>1. assetRun \in [Task -> AssetRow]
    BY AssetRows DEF DistributionInv, Rows
  <2> QED BY <1>5, <1>9, <2>1, PutRun
<1>11. place \in Active
  BY <1>3 DEF Active
<1>12. PICK there \in DistRow : there = [op |-> o, status |-> place]
  BY <1>11 DEF DistRow
<1>13. \A e \in Dist \ {d} : dist[e].status \notin Active
  BY DEF DistributionInv, DistributionCore, DistsHaveOps
<1>14. /\ DistsHaveOps' /\ dist' \in [Dist -> DistRow] /\ dist'[d] = there
       /\ \A e \in Dist \ {d} : dist'[e] = dist[e]
  <2>1. dist' = [dist EXCEPT ![d] = there]
    BY <1>5, <1>12
  <2>2. DistsHaveOps' /\ dist' \in [Dist -> DistRow]
    <3>1. DistPuts(d, there)
      BY <1>12, <1>13, <2>1 DEF DistPuts
    <3> QED BY <1>12, <3>1, DistKeeps
  <2>3. dist \in [Dist -> DistRow]
    BY AssetRows DEF DistributionInv, Rows
  <2> QED BY <2>1, <2>2, <2>3, PutDist
<1>15. /\ opHolder' \in [Op -> Task \cup {None}] /\ opHolder'[o] = t
       /\ \A p \in Op \ {o} : opHolder'[p] = opHolder[p]
  BY <1>5, AssetRows DEF DistributionInv
<1>16. Copies' = Copies /\ mapping' = mapping /\ made' = made
  BY DEF Copies, quiet
<1>17. \A u \in Task : assetRun[u].at = "idle"
  BY TasksOK DEF DistributionInv, DistributionCore, RunsKnow, RunKnows
<1>18. status = "pending" => Copies = {}
  BY <1>7 DEF DistributionInv, DistributionCore, CopiesWereSent
<1>19. OneUnresolved'
  BY <1>8 DEF OneUnresolved, Reserved
<1>20. RunsKnow'
  <2>1. RunKnows(t)'
    BY SMTT(90), <1>4, <1>6, <1>7, <1>8, <1>10, <1>15, <1>16, <1>18 DEF RunKnows
  <2>2. \A u \in Task \ {t} : RunKnows(u)'
    BY <1>10, <1>17 DEF RunKnows
  <2> QED BY <2>1, <2>2 DEF RunsKnow
<1>21. HeldIsLive'
  BY <1>7, <1>8, <1>15 DEF DistributionInv, DistributionCore, HeldIsLive
<1>22. CopiesWereSent'
  <2>1. \A p \in Copies : p \in Op /\ op[p].status \in Sends /\ made[p] = 1
    BY DEF DistributionInv, DistributionCore, CopiesWereSent, Copies
  <2>2. \A p \in Copies : op'[p].status \in Sends
    BY <1>7, <1>8, <2>1 DEF Sends
  <2>3. \A p \in Op : op'[p].status = "pending" => Copies = {}
    BY <1>7, <1>8, <1>18 DEF DistributionInv, DistributionCore, CopiesWereSent
  <2>4. \A p \in Source : op'[p].status = "verifying" => Copies = {}
    BY <1>8, DistributionOK DEF DistributionInv, DistributionCore, CopiesWereSent
  <2> QED BY <1>16, <2>1, <2>2, <2>3, <2>4 DEF DistributionInv, DistributionCore,
    CopiesWereSent
<1>23. KnownIsThere'
  BY <1>7, <1>8, <1>11, <1>12, <1>14, <1>16 DEF DistributionInv, DistributionCore,
     KnownIsThere, Unresolved, Active
<1>24. FailedIsAlone'
  <2> SUFFICES ASSUME NEW e \in Dist, dist'[e].status \in Active, op'[dist'[e].op].status = "failed"
               PROVE  FALSE
    BY DEF FailedIsAlone
  <2> QED BY <1>7, <1>8, <1>12, <1>13, <1>14 DEF Unresolved
<1> QED BY <1>8, <1>10, <1>14, <1>15, <1>19, <1>20, <1>21, <1>22, <1>23, <1>24
        DEF DistributionCore, Rows
LEMMA QuietSteps ==
  ASSUME DistributionInv, UNCHANGED <<op, opHolder, dist, mapping, assetRun, made>>
  PROVE  DistributionCore' /\ Rows' /\ opHolder' \in [Op -> Task \cup {None}]
BY CoreStays, AssetRows DEF DistributionInv, Rows

LEMMA TakeKeeps ==
  ASSUME DistributionInv, NEW t \in Task, TakeMessage(t)
  PROVE  DistributionCore' /\ Rows' /\ opHolder' \in [Op -> Task \cup {None}]
<1>d. PICK d \in Dist : \E m \in waiting[d] :
        \/ dist[d].status \notin Active /\ UNCHANGED <<op, opHolder, dist, assetRun>>
        \/ /\ dist[d].status \in Active
           /\ \/ Blocked(d, m) \/ Foreign(d, m) \/ AlreadyThere(d, m) \/ SourceOwned(d, m)
              \/ Dropped(d, m) \/ Failed(t, d, m) \/ SendExpired(d, m)
              \/ Refused(d, m) \/ ClaimOp(t, d, m)
  BY Zenon DEF TakeMessage
<1>1. PICK m \in waiting[d] :
        \/ dist[d].status \notin Active /\ UNCHANGED <<op, opHolder, dist, assetRun>>
        \/ /\ dist[d].status \in Active
           /\ \/ Blocked(d, m) \/ Foreign(d, m) \/ AlreadyThere(d, m) \/ SourceOwned(d, m)
              \/ Dropped(d, m) \/ Failed(t, d, m) \/ SendExpired(d, m)
              \/ Refused(d, m) \/ ClaimOp(t, d, m)
  BY <1>d
<1>2. UNCHANGED quiet /\ mapping' = mapping /\ made' = made /\ assetRun[t].at = "idle"
  BY DEF TakeMessage, quiet
<1>3. opHolder \in [Op -> Task \cup {None}]
  BY AssetRows DEF DistributionInv
<1>4. CASE dist[d].status \notin Active /\ UNCHANGED <<op, opHolder, dist, assetRun>>
  BY <1>2, <1>4, QuietSteps
<1> SUFFICES ASSUME dist[d].status \in Active
             PROVE  DistributionCore' /\ Rows' /\ opHolder' \in [Op -> Task \cup {None}]
  BY <1>1, <1>4
<1> DEFINE o == dist[d].op
<1>5. o \in Op /\ op[o] \in OpRow
  BY AssetRows DEF DistributionInv, DistributionCore, DistsHaveOps, Active, Rows
<1>6. There(d) => Copies # {}
  BY DEF There, DistributionInv, DistributionCore, KnownIsThere
<1>7. ASSUME NEW status \in {"blocked", "ready"} \cup Active, status = "ready" => Copies # {},
             dist' = [dist EXCEPT ![d].status = status], UNCHANGED <<op, opHolder, assetRun>>
      PROVE  DistributionCore' /\ Rows' /\ opHolder' \in [Op -> Task \cup {None}]
  BY <1>2, <1>3, <1>7, EndsKeeps
<1>8. CASE Blocked(d, m) \/ NoUpload(d, m)
  BY <1>7, <1>8 DEF Blocked, NoUpload, Ends
<1>9. CASE Foreign(d, m) \/ Dropped(d, m)
  BY <1>2, <1>9, QuietSteps DEF Foreign, Dropped
<1>10. CASE AlreadyThere(d, m)
  BY <1>6, <1>7, <1>10 DEF AlreadyThere, Ends
<1>11. ASSUME NEW existing \in BOOLEAN, NEW kind, Rebind(d, m, existing, kind),
              \/ existing /\ mapping # "none"
              \/ ~existing /\ op[o].status = "failed"
       PROVE  DistributionCore' /\ Rows' /\ opHolder' \in [Op -> Task \cup {None}]
  <2>1. DistributionCore' /\ Rows'
    BY <1>2, <1>11, RebindKeeps
  <2>2. opHolder' = opHolder
    BY <1>11 DEF Rebind
  <2> QED BY <1>3, <2>1, <2>2
<1>12. CASE SourceOwned(d, m)
  <2>1. \/ op[o].status = "failed" /\ (Rebind(d, m, FALSE, "prepare") \/ NoUpload(d, m))
        \/ op[o].status = "succeeded" /\ Rebind(d, m, TRUE, "verify")
        \/ /\ dist' = [dist EXCEPT ![d].status = IF op[o].status = "result_unknown"
                                                  THEN "result_unknown" ELSE "verifying"]
           /\ UNCHANGED <<op, opHolder, assetRun>>
    BY <1>12, Zenon DEF SourceOwned, Ends
  <2>2. op[o].status = "succeeded" => mapping # "none"
    BY <1>5 DEF DistributionInv, DistributionCore, KnownIsThere
  <2>3. CASE op[o].status = "failed" /\ (Rebind(d, m, FALSE, "prepare") \/ NoUpload(d, m))
    BY <1>8, <1>11, <2>3
  <2>4. CASE op[o].status = "succeeded" /\ Rebind(d, m, TRUE, "verify")
    BY <1>11, <2>2, <2>4
  <2>5. CASE /\ dist' = [dist EXCEPT ![d].status = IF op[o].status = "result_unknown"
                                                   THEN "result_unknown" ELSE "verifying"]
             /\ UNCHANGED <<op, opHolder, assetRun>>
    <3>1. PICK status : status = IF op[o].status = "result_unknown"
                                 THEN "result_unknown" ELSE "verifying"
      OBVIOUS
    <3>2. status \in {"blocked", "ready"} \cup Active /\ status # "ready"
      BY <3>1 DEF Active
    <3>3. dist' = [dist EXCEPT ![d].status = status]
      BY <2>5, <3>1
    <3> QED BY <1>7, <2>5, <3>2, <3>3
  <2> QED BY <2>1, <2>3, <2>4, <2>5
<1>13. CASE SendExpired(d, m)
  <2>1. /\ o \notin Source /\ ~op[o].live /\ op[o].status = "sending"
        /\ op' = [op EXCEPT ![o].status = "result_unknown", ![o].token = FALSE]
        /\ opHolder' = [opHolder EXCEPT ![o] = None]
        /\ dist' = [dist EXCEPT ![d].status = "result_unknown"] /\ assetRun' = assetRun
    BY <1>13 DEF SendExpired, Present, Ends
  <2>2. PICK row : row = [op[o] EXCEPT !.status = "result_unknown", !.token = FALSE]
    OBVIOUS
  <2>3. row \in OpRow /\ row.live = op[o].live /\ row.status = "result_unknown"
    BY <1>5, <2>2 DEF OpRow, Unresolved
  <2>4. op' = [op EXCEPT ![o] = row]
    BY <1>5, <2>1, <2>2, AssetRows DEF DistributionInv, Rows
  <2>5. opHolder' \in [Op -> Task \cup {None}]
    BY <1>3, <2>1
  <2>6. o \in Op \ Source /\ op[o].status \in Unresolved
    BY <1>5, <2>1 DEF Unresolved
  <2> QED BY <1>2, <2>1, <2>3, <2>4, <2>5, <2>6, SettleKeeps
<1>14. CASE Refused(d, m)
  <2>1. PICK status : status = IF Kind(m) = "prepare" THEN "failed"
                               ELSE IF op[o].status = "sending" THEN "result_unknown" ELSE op[o].status
    OBVIOUS
  <2>2. /\ o \notin Source /\ ~op[o].live /\ Expects(o, Kind(m))
        /\ op' = [op EXCEPT ![o].status = status]
        /\ dist' = [dist EXCEPT ![d].status = "blocked"]
        /\ opHolder' = opHolder /\ assetRun' = assetRun
    BY <1>14, <2>1 DEF Refused, Present, Ends
  <2>3. PICK row : row = [op[o] EXCEPT !.status = status]
    OBVIOUS
  <2>4. /\ op[o].status \in Unresolved
        /\ \/ status = op[o].status
           \/ status = "failed" /\ op[o].status = "pending"
           \/ status = "result_unknown" /\ op[o].status = "sending"
    BY <2>1, <2>2 DEF Expects, Unresolved
  <2>5. row \in OpRow /\ row.live = op[o].live /\ row.status = status
    BY <1>5, <2>3, <2>4 DEF OpRow, Unresolved
  <2>6. op' = [op EXCEPT ![o] = row]
    BY <1>5, <2>2, <2>3, AssetRows DEF DistributionInv, Rows
  <2>7. o \in Op \ Source
    BY <1>5, <2>2
  <2>8. opHolder' = opHolder \/ opHolder' = [opHolder EXCEPT ![o] = None]
    BY SMTT(90), <2>2
  <2>9. DistributionCore' /\ Rows'
    <3>1. \/ row.status = op[o].status
          \/ row.status = "failed" /\ op[o].status = "pending"
          \/ row.status = "result_unknown" /\ op[o].status = "sending"
      BY <2>4, <2>5
    <3>2. PICK end \in {"blocked", "result_unknown"} : end = "blocked"
      OBVIOUS
    <3>3. dist' = [dist EXCEPT ![d].status = end] /\ (row.status = "failed" => end = "blocked")
      BY <2>2, <3>2
    <3>4. dist[d].op \in Op \ Source /\ ~op[dist[d].op].live /\ op[dist[d].op].status \in Unresolved
      BY <2>2, <2>4, <2>7
    <3>5. UNCHANGED <<mapping, assetRun, made>>
      BY <1>2, <2>2
    <3> HIDE DEF o
    <3> QED BY <2>5, <2>6, <2>8, <3>1, <3>3, <3>4, <3>5, SettleKeeps DEF o
  <2> QED BY <1>3, <2>2, <2>9
<1>15. CASE ClaimOp(t, d, m)
  <2>1. /\ o \notin Source /\ ~op[o].live /\ Expects(o, Kind(m)) /\ Claim(t, d, m, o, op[o])
    BY <1>15 DEF ClaimOp, Present
  <2>2. /\ opHolder[o] = None /\ \A p \in Op \ {o} : op[p].status \notin Unresolved
    BY <1>5, <2>1 DEF DistributionInv, DistributionCore, HeldIsLive, OneUnresolved,
       Reserved, Expects,
       Unresolved
  <2>3. IF Kind(m) = "prepare" THEN op[o].status = "pending"
                               ELSE op[o].status \in {"sending", "result_unknown", "verifying"}
    BY <2>1 DEF Expects
  <2>4. o \in Op \ Source
    BY <1>5, <2>1
  <2> QED BY <1>2, <1>5, <2>1, <2>2, <2>3, <2>4, ClaimKeeps
<1>16. CASE Failed(t, d, m)
  <2>1. /\ Present(d, m) /\ op[o].status = "failed"
        /\ \/ NoUpload(d, m)
           \/ Rebind(d, m, FALSE, "prepare")
           \/ /\ Kind(m) = "prepare"
              /\ \E p \in Op : Binds(p) /\
                   IF Bound(p, "file", FALSE).status = "pending"
                   THEN Claim(t, d, m, p, Bound(p, "file", FALSE))
                   ELSE /\ dist' = [dist EXCEPT ![d].op = p]
                        /\ UNCHANGED <<op, opHolder, assetRun>>
    BY <1>16, Zenon DEF Failed
  <2>2. CASE /\ Kind(m) = "prepare"
             /\ \E p \in Op : Binds(p) /\
                   IF Bound(p, "file", FALSE).status = "pending"
                   THEN Claim(t, d, m, p, Bound(p, "file", FALSE))
                   ELSE /\ dist' = [dist EXCEPT ![d].op = p]
                        /\ UNCHANGED <<op, opHolder, assetRun>>
    <3>1. PICK p \in Op : Binds(p) /\
                   IF Bound(p, "file", FALSE).status = "pending"
                   THEN Claim(t, d, m, p, Bound(p, "file", FALSE))
                   ELSE /\ dist' = [dist EXCEPT ![d].op = p]
                        /\ UNCHANGED <<op, opHolder, assetRun>>
      BY <2>2
    <3>2. Copies = {} /\ Reserved = {}
      BY <2>1 DEF DistributionInv, DistributionCore, FailedIsAlone
    <3>3. p \in Op \ Source /\ op[p].status = "none"
      BY <3>1, <3>2 DEF Binds, Unused
    <3>4. op[p] \in OpRow
      BY AssetRows DEF DistributionInv, Rows
    <3>5. PICK was : was = Bound(p, "file", FALSE)
      OBVIOUS
    <3>6. was \in OpRow /\ was.status = "pending"
      BY <3>3, <3>4, <3>5 DEF Bound, OpRow, Unresolved
    <3>7. Claim(t, d, m, p, was)
      BY <3>1, <3>5, <3>6
    <3>8. \A q \in Op \ {p} : op[q].status \notin Unresolved
      BY <3>2 DEF Reserved
    <3>9. opHolder[p] = None
      BY <3>3 DEF DistributionInv, DistributionCore, HeldIsLive
    <3> QED BY <1>2, <2>2, <3>2, <3>3, <3>6, <3>7, <3>8, <3>9, ClaimKeeps
  <2> QED BY <1>8, <1>11, <2>1, <2>2
<1> QED BY <1>1, <1>8, <1>9, <1>10, <1>12, <1>13, <1>14, <1>15, <1>16
\* The task t is done with its operation; nobody else is working.
LEMMA OverKeeps ==
  ASSUME DistributionInv, NEW t \in Task, assetRun[t].at # "idle", Over(t),
         \A p \in Op \ {assetRun[t].op} : op'[p] = op[p]
  PROVE  /\ RunsKnow' /\ HeldIsLive' /\ opHolder' \in [Op -> Task \cup {None}]
         /\ assetRun' \in [Task -> AssetRow]
<1> DEFINE o == assetRun[t].op
<1>1. /\ o \in Op /\ opHolder[o] = t /\ t # None
      /\ \A u \in Task \ {t} : assetRun[u].at = "idle"
  BY RunFacts, TasksOK
<1>2. /\ opHolder \in [Op -> Task \cup {None}] /\ assetRun \in [Task -> AssetRow]
      /\ NoRun \in AssetRow /\ NoRun.at = "idle"
  BY AssetRows DEF DistributionInv, Rows, NoRun, AssetRow
<1>3. /\ opHolder' \in [Op -> Task \cup {None}] /\ opHolder'[o] = None
      /\ \A p \in Op : opHolder'[p] = opHolder[p] \/ opHolder'[p] = None
  BY <1>1, <1>2 DEF Over, Forget
<1>4. /\ assetRun' \in [Task -> AssetRow] /\ \A u \in Task : assetRun'[u].at = "idle"
  BY <1>1, <1>2 DEF Over
<1>5. RunsKnow'
  BY <1>4 DEF RunsKnow, RunKnows
<1>6. HeldIsLive'
  BY <1>1, <1>3 DEF DistributionInv, DistributionCore, HeldIsLive
<1> QED BY <1>3, <1>4, <1>5, <1>6

\* A transaction of the task that works.
WorksOn(t, row, there) ==
  /\ assetRun[t].at # "idle"
  /\ row \in OpRow /\ op' = [op EXCEPT ![assetRun[t].op] = row]
  /\ row.status \in Unresolved \cup {"succeeded", "failed"}
  /\ row.status \in {"pending", "failed"} => Copies = {}
  /\ row.status = "succeeded" => mapping' # "none"
  /\ there \in DistRow /\ dist' = [dist EXCEPT ![assetRun[t].dist] = there]
  /\ there.op = assetRun[t].op
  /\ there.status \in Active => UniquelyActive(assetRun[t].dist) /\ row.status # "failed"
  /\ there.status = "ready" => Copies # {}
  /\ mapping' # "none" => mapping # "none" \/ Copies # {}
  /\ mapping # "none" => mapping' # "none"
  /\ made' = made

LEMMA WorkKeeps ==
  ASSUME DistributionInv, NEW t \in Task, NEW row, NEW there, WorksOn(t, row, there)
  PROVE  /\ OneUnresolved' /\ CopiesWereSent' /\ KnownIsThere' /\ FailedIsAlone' /\ DistsHaveOps'
         /\ op' \in [Op -> OpRow] /\ op'[assetRun[t].op] = row
         /\ \A p \in Op \ {assetRun[t].op} : op'[p] = op[p]
         /\ dist' \in [Dist -> DistRow]
<1> USE DEF WorksOn
<1>0. PICK o, d : o = assetRun[t].op /\ d = assetRun[t].dist
  BY SMTT(90)
<1>1. /\ o \in Op \ Source /\ d \in Dist /\ op[o].status \in Unresolved
      /\ \A p \in Op \ {o} : op[p].status \notin Unresolved
  BY <1>0, RunFacts
<1>2. /\ op' \in [Op -> OpRow] /\ op'[o] = row /\ \A p \in Op \ {o} : op'[p] = op[p]
  BY <1>0, <1>1, PutOp, AssetRows DEF DistributionInv, Rows
<1>3. there.status \in Active => \A e \in Dist \ {d} : dist[e].status \notin Active
  BY <1>0 DEF UniquelyActive
<1>4. /\ DistsHaveOps' /\ dist' \in [Dist -> DistRow] /\ dist'[d] = there
      /\ \A e \in Dist \ {d} : dist'[e] = dist[e]
  <2>1. DistsHaveOps' /\ dist' \in [Dist -> DistRow]
    <3>1. DistPuts(d, there)
      BY <1>0, <1>1, <1>3 DEF DistPuts
    <3> QED BY <1>1, <3>1, DistKeeps
  <2>2. dist \in [Dist -> DistRow]
    BY AssetRows DEF DistributionInv, Rows
  <2> QED BY <1>0, <1>1, <2>1, <2>2, PutDist
<1>5. Copies' = Copies
  BY DEF Copies
<1>6. OneUnresolved'
  BY <1>1, <1>2 DEF OneUnresolved, Reserved
<1>7. CopiesWereSent'
  <2>1. \A p \in Copies : p \in Op /\ op[p].status \in Sends /\ made[p] = 1
    BY DEF DistributionInv, DistributionCore, CopiesWereSent, Copies
  <2>2. \A p \in Copies : op'[p].status \in Sends
    BY <1>2, <2>1 DEF Sends, Unresolved
  <2>3. \A p \in Op : op'[p].status = "pending" => Copies = {}
    BY <1>2 DEF DistributionInv, DistributionCore, CopiesWereSent
  <2>4. \A p \in Source : op'[p].status = "verifying" => Copies = {}
    BY <1>1, <1>2, DistributionOK DEF DistributionInv, DistributionCore, CopiesWereSent
  <2> QED BY <1>5, <2>1, <2>2, <2>3, <2>4 DEF DistributionInv, DistributionCore,
    CopiesWereSent
<1>8. KnownIsThere'
  BY <1>2, <1>4, <1>5 DEF DistributionInv, DistributionCore, KnownIsThere
<1>9. FailedIsAlone'
  <2> SUFFICES ASSUME NEW e \in Dist, dist'[e].status \in Active, op'[dist'[e].op].status = "failed"
               PROVE  Copies = {} /\ Reserved' = {}
    BY <1>5 DEF FailedIsAlone
  <2>1. dist'[e].op \in Op
    BY <1>4 DEF DistsHaveOps, Active
  <2>2. CASE e = d
    BY <1>2, <1>4, <2>2
  <2>3. CASE e # d /\ dist[e].op = o
    BY <1>1, <1>2, <1>4, <2>3 DEF Reserved, Unresolved
  <2>4. CASE e # d /\ dist[e].op # o
    <3>1. op[dist[e].op].status = "failed" /\ dist[e].status \in Active
      BY <1>2, <1>4, <2>1, <2>4
    <3>2. Reserved = {}
      BY SMTT(90), <3>1 DEF DistributionInv, DistributionCore, FailedIsAlone
    <3> QED BY <1>1, <3>2 DEF Reserved
  <2> QED BY <2>2, <2>3, <2>4
<1> QED BY <1>0, <1>2, <1>4, <1>6, <1>7, <1>8, <1>9

\* The transaction that ends a claim.
LEMMA ConcludesKeeps ==
  ASSUME DistributionInv, NEW t \in Task, assetRun[t].at # "idle", Over(t), Owns(t),
         NEW status \in Unresolved \cup {"succeeded", "failed"},
         NEW distStatus \in {"ready", "blocked"} \cup Active, NEW more,
         Concludes(t, status, distStatus, more), made' = made,
         status \in {"pending", "failed"} => Copies = {},
         status = "failed" => distStatus = "blocked",
         status = "succeeded" => mapping' # "none",
         distStatus = "ready" => Copies # {},
         mapping' # "none" => mapping # "none" \/ Copies # {},
         mapping # "none" => mapping' # "none"
  PROVE  DistributionCore' /\ Rows' /\ opHolder' \in [Op -> Task \cup {None}]
<1>1. PICK o, d : o = assetRun[t].op /\ d = assetRun[t].dist
  OBVIOUS
<1>2. /\ o \in Op \ Source /\ d \in Dist /\ op[o].status \in Unresolved /\ dist[d].op = o
      /\ op[o] \in OpRow /\ dist[d] \in DistRow /\ op \in [Op -> OpRow] /\ dist \in [Dist -> DistRow]
  BY <1>1, RunFacts, AssetRows DEF DistributionInv, Rows, Owns
<1>3. CASE UNCHANGED <<op, dist>>
  <2>1. RunsKnow' /\ HeldIsLive' /\ opHolder' \in [Op -> Task \cup {None}] /\ assetRun' \in [Task -> AssetRow]
    BY <1>3, OverKeeps
  <2>2. Copies' = Copies
    BY DEF Copies
  <2>3. OneUnresolved' /\ CopiesWereSent' /\ FailedIsAlone' /\ DistsHaveOps' /\ KnownIsThere'
    BY <1>3, <2>2 DEF DistributionInv, DistributionCore, OneUnresolved, CopiesWereSent,
       FailedIsAlone,
       DistsHaveOps, KnownIsThere, Reserved, Copies
  <2> QED BY <1>2, <1>3, <2>1, <2>3 DEF DistributionCore, Rows
<1>4. CASE /\ distStatus \in Active => UniquelyActive(d)
           /\ op' = [op EXCEPT ![o].status = status, ![o].token = FALSE, ![o].live = FALSE]
           /\ dist' = [dist EXCEPT ![d].status = distStatus]
  <2>1. PICK row : row = [op[o] EXCEPT !.status = status, !.token = FALSE, !.live = FALSE]
    OBVIOUS
  <2>2. row \in OpRow /\ row.status = status /\ op' = [op EXCEPT ![o] = row]
    BY <1>2, <1>4, <2>1 DEF OpRow
  <2>3. PICK there : there = [dist[d] EXCEPT !.status = distStatus]
    OBVIOUS
  <2>4. /\ there \in DistRow /\ there.status = distStatus /\ there.op = o
        /\ dist' = [dist EXCEPT ![d] = there]
    BY <1>2, <1>4, <2>3 DEF DistRow
  <2>5. there.status \in Active => UniquelyActive(d) /\ row.status # "failed"
    BY <1>4, <2>2, <2>4 DEF Active
  <2>6. /\ OneUnresolved' /\ CopiesWereSent' /\ KnownIsThere' /\ FailedIsAlone' /\ DistsHaveOps'
        /\ op' \in [Op -> OpRow] /\ op'[o] = row /\ \A p \in Op \ {o} : op'[p] = op[p]
        /\ dist' \in [Dist -> DistRow]
    <3>1. /\ row.status \in Unresolved \cup {"succeeded", "failed"}
          /\ row.status \in {"pending", "failed"} => Copies = {}
          /\ row.status = "succeeded" => mapping' # "none"
          /\ there.status = "ready" => Copies # {}
      BY <2>2, <2>4
    <3>2. /\ op' = [op EXCEPT ![assetRun[t].op] = row] /\ row \in OpRow
      BY <1>1, <2>2
    <3>3. /\ dist' = [dist EXCEPT ![assetRun[t].dist] = there] /\ there \in DistRow
          /\ there.op = assetRun[t].op
      BY <1>1, <2>4
    <3>4. there.status \in Active => UniquelyActive(assetRun[t].dist) /\ row.status # "failed"
      BY <1>1, <2>5
    <3>5. /\ OneUnresolved' /\ CopiesWereSent' /\ KnownIsThere' /\ FailedIsAlone' /\ DistsHaveOps'
          /\ op' \in [Op -> OpRow] /\ op'[assetRun[t].op] = row
          /\ \A p \in Op \ {assetRun[t].op} : op'[p] = op[p]
          /\ dist' \in [Dist -> DistRow]
      <4>1. WorksOn(t, row, there)
        BY <1>1, <3>1, <3>2, <3>3, <3>4 DEF WorksOn
      <4> QED BY <4>1, WorkKeeps
    <3> QED BY <1>1, <3>5
  <2>7. RunsKnow' /\ HeldIsLive' /\ opHolder' \in [Op -> Task \cup {None}] /\ assetRun' \in [Task -> AssetRow]
    BY <1>1, <2>6, OverKeeps
  <2> QED BY <2>6, <2>7 DEF DistributionCore, Rows
<1> QED BY <1>1, <1>3, <1>4 DEF Concludes
\* A step that only tells where the task stands, with the copies it may have made.
LEMMA PlaceKeeps ==
  ASSUME DistributionInv, NEW t \in Task, assetRun[t].at # "idle",
         NEW run \in AssetRow, assetRun' = [assetRun EXCEPT ![t] = run], RunKnows(t)',
         \A u \in Task \ {t} : assetRun[u].at = "idle"
  PROVE  RunsKnow' /\ assetRun' \in [Task -> AssetRow]
<1>1. /\ assetRun' \in [Task -> AssetRow] /\ assetRun'[t] = run
      /\ \A u \in Task \ {t} : assetRun'[u] = assetRun[u]
  <2>1. assetRun \in [Task -> AssetRow]
    BY AssetRows DEF DistributionInv, Rows
  <2> QED BY <2>1, PutRun
<1> QED BY <1>1 DEF RunsKnow, RunKnows

\* What is known of a run that moves on; its operation keeps what it has got.
LEMMA MoveKeeps ==
  ASSUME DistributionInv, NEW t \in Task, assetRun[t].at # "idle",
         NEW run \in AssetRow, assetRun' = [assetRun EXCEPT ![t] = run], RunKnows(t)',
         UNCHANGED <<op, opHolder, dist, mapping, made>>
  PROVE  DistributionCore' /\ Rows' /\ opHolder' \in [Op -> Task \cup {None}]
<1>1. RunsKnow' /\ assetRun' \in [Task -> AssetRow]
  BY RunFacts, PlaceKeeps
<1>2. OneUnresolved' /\ HeldIsLive' /\ CopiesWereSent' /\ KnownIsThere' /\ FailedIsAlone' /\ DistsHaveOps'
  BY DEF DistributionInv, DistributionCore, OneUnresolved, HeldIsLive, CopiesWereSent,
     KnownIsThere,
     FailedIsAlone, DistsHaveOps, Reserved, Copies
<1> QED BY <1>1, <1>2, AssetRows DEF DistributionInv, DistributionCore, Rows

Moves(t, place, sent, outcome) ==
  assetRun' = [assetRun EXCEPT ![t].at = place, ![t].sent = sent, ![t].outcome = outcome]

LEMMA FailKeeps ==
  ASSUME DistributionInv, NEW t \in Task, BeforeRequest(t) \/ Look(t)
  PROVE  DistributionCore' /\ Rows' /\ opHolder' \in [Op -> Task \cup {None}]
<1>1. PICK place \in {"looked", "failing"}, outcome \in {"none", "good", "bad", "deferred"} :
        /\ assetRun' = [assetRun EXCEPT ![t].at = place, ![t].outcome = outcome]
        /\ assetRun[t].at = "claimed"
        /\ \/ place = "failing" /\ outcome \in {"none", "deferred"}
           \/ /\ place = "looked" /\ assetRun[t].kind = "verify" /\ outcome \in {"good", "bad"}
              /\ outcome = "good" => Copies # {}
  <2>1. CASE BeforeRequest(t)
    BY <2>1 DEF BeforeRequest
  <2>2. CASE Look(t)
    <3>1. PICK outcome \in (IF Copies # {} THEN {"good", "bad"} ELSE {"bad"}) :
            assetRun' = [assetRun EXCEPT ![t].at = "looked", ![t].outcome = outcome]
      BY <2>2 DEF Look
    <3>2. outcome \in {"good", "bad"} /\ (outcome = "good" => Copies # {})
      BY <3>1
    <3> QED BY <2>2, <3>1, <3>2 DEF Look
  <2> QED BY <2>1, <2>2
<1>2. UNCHANGED <<op, opHolder, dist, mapping, made>>
  BY DEF BeforeRequest, Look, quiet
<1>3. PICK run : run = [assetRun[t] EXCEPT !.at = place, !.sent = assetRun[t].sent, !.outcome = outcome]
  OBVIOUS
<1>4. assetRun[t] \in AssetRow /\ assetRun \in [Task -> AssetRow]
  BY AssetRows DEF DistributionInv, Rows
<1>5. assetRun' = [assetRun EXCEPT ![t] = run]
  BY <1>1, <1>3, <1>4 DEF AssetRow
<1>6. assetRun[t].sent \in BOOLEAN
  BY <1>4 DEF AssetRow
<1>7. /\ run \in AssetRow /\ run.at = place /\ run.sent = assetRun[t].sent /\ run.outcome = outcome
      /\ run.op = assetRun[t].op /\ run.dist = assetRun[t].dist /\ run.kind = assetRun[t].kind
      /\ run.before = assetRun[t].before /\ assetRun'[t] = run
  BY <1>3, <1>4, <1>5, <1>6 DEF AssetRow
<1>8. RunKnows(t)
  BY DEF DistributionInv, DistributionCore, RunsKnow
<1>9. Copies' = Copies
  BY <1>2 DEF Copies
<1>10. RunKnows(t)'
  BY <1>1, <1>2, <1>7, <1>8, <1>9 DEF RunKnows
<1> QED BY <1>1, <1>2, <1>5, <1>7, <1>10, MoveKeeps

LEMMA SendKeeps ==
  ASSUME DistributionInv, NEW t \in Task, SendAsset(t)
  PROVE  /\ DistributionCore' /\ Rows' /\ opHolder' \in [Op -> Task \cup {None}]
         /\ made' \in [Op -> Nat]
<1>1. PICK place \in {"answered", "posted", "failing"}, sent \in BOOLEAN,
           outcome \in {"none", "good", "bad", "deferred"} :
        /\ Moves(t, place, sent, outcome)
        /\ \/ /\ made' = Copied(assetRun[t].op) /\ sent
              /\ IF place = "failing" THEN outcome = "none" ELSE outcome = "good"
           \/ /\ made' = made /\ place # "posted"
              /\ place = "failing" => outcome \in {"none", "deferred"} /\ (outcome = "deferred" => ~sent)
              /\ place = "answered" => outcome = "bad"
  <2>1. \/ /\ made' = Copied(assetRun[t].op)
           /\ \/ Moves(t, IF op[assetRun[t].op].does = "share" THEN "answered" ELSE "posted", TRUE, "good")
              \/ Moves(t, "failing", TRUE, "none")
        \/ /\ \/ Moves(t, "failing", TRUE, "none")
              \/ \E outcome \in {"none", "deferred"} : Moves(t, "failing", FALSE, outcome)
              \/ Moves(t, "answered", TRUE, "bad")
           /\ made' = made
    BY Zenon DEF SendAsset, Moves
  <2>2. CASE /\ made' = Copied(assetRun[t].op)
             /\ \/ Moves(t, IF op[assetRun[t].op].does = "share" THEN "answered" ELSE "posted", TRUE, "good")
                \/ Moves(t, "failing", TRUE, "none")
    <3>1. CASE Moves(t, "failing", TRUE, "none")
      BY <2>2, <3>1
    <3>2. CASE Moves(t, IF op[assetRun[t].op].does = "share" THEN "answered" ELSE "posted", TRUE, "good")
      <4>1. PICK end \in {"answered", "posted"} :
              end = IF op[assetRun[t].op].does = "share" THEN "answered" ELSE "posted"
        OBVIOUS
      <4>2. Moves(t, end, TRUE, "good") /\ end # "failing"
        BY <3>2, <4>1
      <4> QED BY <2>2, <4>2
    <3> QED BY <2>2, <3>1, <3>2
  <2>3. CASE /\ \/ Moves(t, "failing", TRUE, "none")
                \/ \E outcome \in {"none", "deferred"} : Moves(t, "failing", FALSE, outcome)
                \/ Moves(t, "answered", TRUE, "bad")
             /\ made' = made
    BY <2>3
  <2> QED BY <2>1, <2>2, <2>3
<1>2. UNCHANGED <<op, opHolder, dist, mapping>> /\ assetRun[t].at = "armed"
  BY DEF SendAsset
<1>3. PICK run : run = [assetRun[t] EXCEPT !.at = place, !.sent = sent, !.outcome = outcome]
  OBVIOUS
<1>4. assetRun[t] \in AssetRow /\ assetRun \in [Task -> AssetRow] /\ made \in [Op -> Nat]
  BY AssetRows DEF DistributionInv, Rows
<1>5. assetRun' = [assetRun EXCEPT ![t] = run]
  BY <1>1, <1>3, <1>4 DEF AssetRow, Moves
<1>6. /\ run \in AssetRow /\ run.at = place /\ run.sent = sent /\ run.outcome = outcome
      /\ run.op = assetRun[t].op /\ run.dist = assetRun[t].dist /\ run.kind = assetRun[t].kind
      /\ run.before = assetRun[t].before /\ assetRun'[t] = run
  BY ZenonT(90), <1>3, <1>4, <1>5 DEF AssetRow
<1>7. RunKnows(t) /\ Copies = {} /\ op[assetRun[t].op].status = "sending"
  BY <1>2 DEF DistributionInv, DistributionCore, RunsKnow, RunKnows
<1>8. PICK o : o = assetRun[t].op
  OBVIOUS
<1>9. /\ o \in Op \ Source /\ \A p \in Op \ {o} : op[p].status \notin Unresolved
      /\ op[o].status = "sending" /\ \A u \in Task \ {t} : assetRun[u].at = "idle"
  BY <1>2, <1>7, <1>8, RunFacts
<1>10. \A p \in Op : made[p] = 0
  BY <1>4, <1>7 DEF Copies
<1>11. /\ made' \in [Op -> Nat] /\ \A p \in Op \ {o} : made'[p] = 0
       /\ made'[o] \in {0, 1} /\ (made'[o] = 1 => sent /\ outcome # "bad")
  BY <1>1, <1>4, <1>8, <1>9, <1>10 DEF Copied
<1>12. Copies' = (IF made'[o] = 1 THEN {o} ELSE {})
  BY <1>9, <1>11 DEF Copies
<1>13. RunKnows(t)'
  BY <1>1, <1>2, <1>6, <1>7, <1>11, <1>12 DEF RunKnows
<1>14. RunsKnow' /\ assetRun' \in [Task -> AssetRow]
  BY <1>2, <1>5, <1>6, <1>9, <1>13, PlaceKeeps
<1>15. CopiesWereSent'
  BY <1>2, <1>9, <1>11, <1>12, DistributionOK DEF CopiesWereSent, Sends, Unresolved
<1>16. OneUnresolved' /\ HeldIsLive' /\ DistsHaveOps'
  BY <1>2 DEF DistributionInv, DistributionCore, OneUnresolved, HeldIsLive, DistsHaveOps,
     Reserved
<1>17. KnownIsThere'
  BY <1>2, <1>7 DEF DistributionInv, DistributionCore, KnownIsThere
<1>18. FailedIsAlone'
  BY <1>2, <1>9 DEF DistributionInv, DistributionCore, FailedIsAlone, Reserved, Unresolved
<1> QED BY <1>2, <1>11, <1>14, <1>15, <1>16, <1>17, <1>18, AssetRows
        DEF DistributionInv, DistributionCore, Rows
\* The transaction before the request, and the one that stores a receipt: the operation and
\* its distribution move on together, still held by t.
HoldsOn(t, status, distStatus, run) ==
  /\ assetRun[t].at # "idle" /\ Owns(t) /\ UniquelyActive(assetRun[t].dist)
  /\ status \in {"sending", "verifying"} /\ distStatus \in {"preparing", "verifying"}
  /\ op' = [op EXCEPT ![assetRun[t].op].status = status]
  /\ dist' = [dist EXCEPT ![assetRun[t].dist].status = distStatus]
  /\ run \in AssetRow /\ assetRun' = [assetRun EXCEPT ![t] = run]
  /\ op'[assetRun[t].op].status = status => RunKnows(t)'
  /\ UNCHANGED <<opHolder, mapping, made>>

LEMMA HoldKeeps ==
  ASSUME DistributionInv, NEW t \in Task, NEW status, NEW distStatus, NEW run,
         HoldsOn(t, status, distStatus, run)
  PROVE  DistributionCore' /\ Rows' /\ opHolder' \in [Op -> Task \cup {None}]
<1> USE DEF HoldsOn
<1>1. PICK o, d : o = assetRun[t].op /\ d = assetRun[t].dist
  OBVIOUS
<1>2. /\ o \in Op \ Source /\ d \in Dist /\ op[o].status \in Unresolved /\ dist[d].op = o
      /\ op[o] \in OpRow /\ dist[d] \in DistRow /\ op \in [Op -> OpRow] /\ dist \in [Dist -> DistRow]
      /\ op[o].live
  BY <1>1, RunFacts, AssetRows DEF DistributionInv, Rows, Owns
<1>3. PICK row : row = [op[o] EXCEPT !.status = status]
  OBVIOUS
<1>4. row \in OpRow /\ row.status = status /\ op' = [op EXCEPT ![o] = row] /\ row.live
  BY <1>1, <1>2, <1>3 DEF OpRow, Unresolved
<1>5. PICK there : there = [dist[d] EXCEPT !.status = distStatus]
  OBVIOUS
<1>6. /\ there \in DistRow /\ there.status = distStatus /\ there.op = o
      /\ dist' = [dist EXCEPT ![d] = there]
  BY <1>1, <1>2, <1>5 DEF DistRow, Active
<1>7. /\ row.status \in Unresolved \cup {"succeeded", "failed"}
      /\ row.status \in {"pending", "failed"} => Copies = {}
      /\ row.status = "succeeded" => mapping' # "none"
      /\ there.status = "ready" => Copies # {}
      /\ mapping' # "none" => mapping # "none" \/ Copies # {}
      /\ mapping # "none" => mapping' # "none"
  BY SMTT(90), <1>4, <1>6 DEF Unresolved
<1>8. /\ op' = [op EXCEPT ![assetRun[t].op] = row] /\ row \in OpRow
      /\ dist' = [dist EXCEPT ![assetRun[t].dist] = there] /\ there \in DistRow
      /\ there.op = assetRun[t].op /\ made' = made
  BY <1>1, <1>4, <1>6
<1>9. there.status \in Active => UniquelyActive(assetRun[t].dist) /\ row.status # "failed"
  BY <1>4
<1>10. /\ OneUnresolved' /\ CopiesWereSent' /\ KnownIsThere' /\ FailedIsAlone' /\ DistsHaveOps'
       /\ op' \in [Op -> OpRow] /\ op'[assetRun[t].op] = row
       /\ \A p \in Op \ {assetRun[t].op} : op'[p] = op[p]
       /\ dist' \in [Dist -> DistRow]
  <2>1. WorksOn(t, row, there)
    BY <1>7, <1>8, <1>9 DEF WorksOn
  <2> QED BY SMTT(90), <2>1, WorkKeeps
<1>11. RunsKnow' /\ assetRun' \in [Task -> AssetRow]
  BY ZenonT(90), <1>4, <1>10, RunFacts, PlaceKeeps
<1>12. HeldIsLive'
  BY <1>1, <1>4, <1>10 DEF DistributionInv, DistributionCore, HeldIsLive
<1> QED BY <1>10, <1>11, <1>12, AssetRows DEF DistributionInv, DistributionCore, Rows

LEMMA DoneKeeps ==
  ASSUME DistributionInv, NEW t \in Task, assetRun[t].at # "idle", Over(t),
         UNCHANGED <<op, dist, made>>,
         mapping' # "none" => mapping # "none" \/ Copies # {},
         mapping # "none" => mapping' # "none"
  PROVE  DistributionCore' /\ Rows' /\ opHolder' \in [Op -> Task \cup {None}]
<1>1. RunsKnow' /\ HeldIsLive' /\ opHolder' \in [Op -> Task \cup {None}] /\ assetRun' \in [Task -> AssetRow]
  BY OverKeeps
<1>2. Copies' = Copies
  BY DEF Copies
<1>3. OneUnresolved' /\ CopiesWereSent' /\ FailedIsAlone' /\ DistsHaveOps' /\ KnownIsThere'
  BY <1>2 DEF DistributionInv, DistributionCore, OneUnresolved, CopiesWereSent,
     FailedIsAlone,
     DistsHaveOps, KnownIsThere, Reserved, Copies
<1> QED BY <1>1, <1>3, AssetRows DEF DistributionInv, DistributionCore, Rows

LEMMA ArmKeeps ==
  ASSUME DistributionInv, NEW t \in Task, ArmSend(t)
  PROVE  DistributionCore' /\ Rows' /\ opHolder' \in [Op -> Task \cup {None}]
<1>1. /\ assetRun[t].at = "claimed" /\ assetRun[t].kind = "prepare"
      /\ mapping' = mapping /\ made' = made
  BY DEF ArmSend, quiet
<1>2. CASE ~Owns(t) /\ Over(t) /\ UNCHANGED <<op, dist>>
  BY <1>1, <1>2, DoneKeeps
<1>3. CASE /\ Owns(t) /\ UniquelyActive(assetRun[t].dist)
           /\ op' = [op EXCEPT ![assetRun[t].op].status = "sending"]
           /\ dist' = [dist EXCEPT ![assetRun[t].dist].status = "preparing"]
           /\ assetRun' = [assetRun EXCEPT ![t].at = "armed", ![t].sent = TRUE]
           /\ UNCHANGED opHolder
  <2>1. PICK run : run = [assetRun[t] EXCEPT !.at = "armed", !.sent = TRUE]
    OBVIOUS
  <2>2. assetRun[t] \in AssetRow /\ assetRun \in [Task -> AssetRow]
    BY AssetRows DEF DistributionInv, Rows
  <2>3. /\ run \in AssetRow /\ assetRun' = [assetRun EXCEPT ![t] = run]
        /\ run.at = "armed" /\ run.sent /\ run.outcome = assetRun[t].outcome
        /\ run.op = assetRun[t].op /\ run.dist = assetRun[t].dist /\ run.kind = assetRun[t].kind
        /\ run.before = assetRun[t].before /\ assetRun'[t] = run
    BY <1>3, <2>1, <2>2 DEF AssetRow
  <2>4. RunKnows(t) /\ Copies' = Copies
    BY <1>1 DEF DistributionInv, DistributionCore, RunsKnow, Copies
  <2>5. op'[assetRun[t].op].status = "sending" => RunKnows(t)'
    BY <1>1, <1>3, <2>3, <2>4 DEF RunKnows, Unresolved
  <2>6. PICK status, distStatus : status = "sending" /\ distStatus = "preparing"
    OBVIOUS
  <2>7. /\ status \in {"sending", "verifying"} /\ distStatus \in {"preparing", "verifying"}
        /\ op' = [op EXCEPT ![assetRun[t].op].status = status]
        /\ dist' = [dist EXCEPT ![assetRun[t].dist].status = distStatus]
        /\ op'[assetRun[t].op].status = status => RunKnows(t)'
        /\ assetRun[t].at # "idle"
    BY <1>1, <1>3, <2>5, <2>6
  <2>8. UNCHANGED <<opHolder, mapping, made>>
    BY SMTT(90), <1>1, <1>3
  <2>9. HoldsOn(t, status, distStatus, run)
    BY <1>3, <2>3, <2>7, <2>8 DEF HoldsOn
  <2> QED BY <2>9, HoldKeeps
<1> QED BY <1>2, <1>3, Zenon DEF ArmSend

LEMMA ReceiptKeeps ==
  ASSUME DistributionInv, NEW t \in Task, StoreUploadReceipt(t)
  PROVE  DistributionCore' /\ Rows' /\ opHolder' \in [Op -> Task \cup {None}]
<1>1. assetRun[t].at = "posted" /\ UNCHANGED <<opHolder, mapping, made>>
  BY DEF StoreUploadReceipt, quiet
<1>2. PICK place \in {"answered", "failing"} :
        /\ At(t, place)
        /\ \/ UNCHANGED <<op, dist>>
           \/ /\ Owns(t) /\ UniquelyActive(assetRun[t].dist)
              /\ op' = [op EXCEPT ![assetRun[t].op].status = "verifying"]
              /\ dist' = [dist EXCEPT ![assetRun[t].dist].status = "verifying"]
  <2>1. CASE At(t, "failing") /\ UNCHANGED <<op, dist>>
    BY <2>1
  <2>2. CASE At(t, "answered") /\ ~Owns(t) /\ UNCHANGED <<op, dist>>
    BY <2>2
  <2>3. CASE /\ At(t, "answered") /\ Owns(t) /\ UniquelyActive(assetRun[t].dist)
             /\ op' = [op EXCEPT ![assetRun[t].op].status = "verifying"]
             /\ dist' = [dist EXCEPT ![assetRun[t].dist].status = "verifying"]
    BY <2>3
  <2> QED BY <2>1, <2>2, <2>3 DEF StoreUploadReceipt
<1>3. PICK run : run = [assetRun[t] EXCEPT !.at = place]
  OBVIOUS
<1>4. assetRun[t] \in AssetRow /\ assetRun \in [Task -> AssetRow]
  BY AssetRows DEF DistributionInv, Rows
<1>5. assetRun' = [assetRun EXCEPT ![t] = run]
  BY <1>2, <1>3, <1>4 DEF At
<1>6. /\ run \in AssetRow
      /\ run.at = place /\ run.sent = assetRun[t].sent /\ run.outcome = assetRun[t].outcome
      /\ run.op = assetRun[t].op /\ run.dist = assetRun[t].dist /\ run.kind = assetRun[t].kind
      /\ run.before = assetRun[t].before /\ assetRun'[t] = run
  BY <1>2, <1>3, <1>4, <1>5 DEF AssetRow
<1>7. RunKnows(t) /\ Copies' = Copies
  BY <1>1 DEF DistributionInv, DistributionCore, RunsKnow, Copies
<1>8. CASE UNCHANGED <<op, dist>>
  <2>1. RunKnows(t)'
    BY <1>1, <1>2, <1>6, <1>7, <1>8 DEF RunKnows
  <2>2. UNCHANGED <<op, opHolder, dist, mapping, made>> /\ assetRun[t].at # "idle"
    BY <1>1, <1>8
  <2> QED BY <1>5, <1>6, <2>1, <2>2, MoveKeeps
<1>9. CASE /\ Owns(t) /\ UniquelyActive(assetRun[t].dist)
           /\ op' = [op EXCEPT ![assetRun[t].op].status = "verifying"]
           /\ dist' = [dist EXCEPT ![assetRun[t].dist].status = "verifying"]
  <2>1. op'[assetRun[t].op].status = "verifying" => RunKnows(t)'
    BY <1>1, <1>2, <1>6, <1>7 DEF RunKnows, Unresolved
  <2>2. PICK status, distStatus : status = "verifying" /\ distStatus = "verifying"
    OBVIOUS
  <2>3. /\ status \in {"sending", "verifying"} /\ distStatus \in {"preparing", "verifying"}
        /\ op' = [op EXCEPT ![assetRun[t].op].status = status]
        /\ dist' = [dist EXCEPT ![assetRun[t].dist].status = distStatus]
        /\ op'[assetRun[t].op].status = status => RunKnows(t)'
        /\ assetRun[t].at # "idle"
    BY SMTT(90), <1>1, <1>9, <2>1, <2>2
  <2>4. HoldsOn(t, status, distStatus, run)
    BY <1>1, <1>5, <1>6, <1>9, <2>3 DEF HoldsOn
  <2> QED BY <2>4, HoldKeeps
<1> QED BY <1>2, <1>8, <1>9
LEMMA ConcludeKeeps ==
  ASSUME DistributionInv, NEW t \in Task, Conclude(t)
  PROVE  /\ DistributionCore' /\ Rows' /\ opHolder' \in [Op -> Task \cup {None}]
         /\ mapping' \in {"none", "stale", "fresh"}
<1> DEFINE found == assetRun[t].at = "looked" /\ assetRun[t].outcome = "good"
<1>1. /\ assetRun[t].at \in {"answered", "looked"} /\ assetRun[t].at # "idle" /\ Over(t) /\ made' = made
      /\ mapping' = IF found /\ Owns(t) THEN "fresh" ELSE mapping
  BY DEF Conclude
<1>2. found => Copies # {}
  BY <1>1 DEF DistributionInv, DistributionCore, RunsKnow, RunKnows
<1>3. /\ mapping' # "none" => mapping # "none" \/ Copies # {}
      /\ mapping # "none" => mapping' # "none"
      /\ mapping' \in {"none", "stale", "fresh"}
  BY <1>1, <1>2, AssetRows DEF DistributionInv
<1>4. assetRun[t].at = "answered" /\ assetRun[t].outcome = "bad" => Copies = {}
  BY <1>1 DEF DistributionInv, DistributionCore, RunsKnow, RunKnows
<1>5. \/ ~Owns(t) /\ UNCHANGED <<op, dist>>
      \/ Owns(t) /\ \E status \in Unresolved \cup {"succeeded", "failed"} :
           \E distStatus \in {"ready", "blocked"} \cup Active, more \in SUBSET Message :
             /\ Concludes(t, status, distStatus, more)
             /\ \/ status = "failed" /\ distStatus = "blocked" /\ Copies = {}
                \/ status = "succeeded" /\ distStatus = "ready" /\ mapping' # "none" /\ Copies # {}
                \/ status \in {"verifying", "result_unknown"} /\ distStatus = status
  <2>1. {} \in SUBSET Message /\ {"verify"} \in SUBSET Message
    BY MailTypes
  <2>2. CASE ~Owns(t) /\ UNCHANGED <<op, dist, messages>>
    BY <2>2
  <2>3. CASE /\ Owns(t) /\ assetRun[t].at = "answered"
             /\ IF assetRun[t].outcome = "bad" THEN Concludes(t, "failed", "blocked", {})
                ELSE Concludes(t, "verifying", "verifying", {"verify"})
    BY <1>4, <2>1, <2>3 DEF Unresolved, Active
  <2>4. CASE Owns(t) /\ found /\ Concludes(t, "succeeded", "ready", {})
    <3>1. mapping' # "none" /\ Copies # {}
      BY <1>1, <1>2, <2>4
    <3> QED BY <2>1, <2>4, <3>1
  <2>5. CASE Owns(t) /\ \E status \in {"verifying", "result_unknown"} : Concludes(t, status, status, {"verify"})
    BY <2>1, <2>5 DEF Unresolved, Active
  <2>6. \/ ~Owns(t) /\ UNCHANGED <<op, dist, messages>>
        \/ /\ Owns(t) /\ assetRun[t].at = "answered"
           /\ IF assetRun[t].outcome = "bad" THEN Concludes(t, "failed", "blocked", {})
              ELSE Concludes(t, "verifying", "verifying", {"verify"})
        \/ Owns(t) /\ found /\ Concludes(t, "succeeded", "ready", {})
        \/ Owns(t) /\ \E status \in {"verifying", "result_unknown"} : Concludes(t, status, status, {"verify"})
    BY Zenon DEF Conclude
  <2> QED BY <2>2, <2>3, <2>4, <2>5, <2>6
<1>6. CASE ~Owns(t) /\ UNCHANGED <<op, dist>>
  BY <1>1, <1>3, <1>6, DoneKeeps
<1>7. CASE Owns(t) /\ \E status \in Unresolved \cup {"succeeded", "failed"} :
           \E distStatus \in {"ready", "blocked"} \cup Active, more \in SUBSET Message :
             /\ Concludes(t, status, distStatus, more)
             /\ \/ status = "failed" /\ distStatus = "blocked" /\ Copies = {}
                \/ status = "succeeded" /\ distStatus = "ready" /\ mapping' # "none" /\ Copies # {}
                \/ status \in {"verifying", "result_unknown"} /\ distStatus = status
  <2>1. PICK status \in Unresolved \cup {"succeeded", "failed"},
             distStatus \in {"ready", "blocked"} \cup Active, more \in SUBSET Message :
             /\ Concludes(t, status, distStatus, more)
             /\ \/ status = "failed" /\ distStatus = "blocked" /\ Copies = {}
                \/ status = "succeeded" /\ distStatus = "ready" /\ mapping' # "none" /\ Copies # {}
                \/ status \in {"verifying", "result_unknown"} /\ distStatus = status
    BY <1>7
  <2>2. /\ status \in {"pending", "failed"} => Copies = {}
        /\ status = "failed" => distStatus = "blocked"
        /\ status = "succeeded" => mapping' # "none"
        /\ distStatus = "ready" => Copies # {}
    BY <2>1
  <2>3. Owns(t) /\ Concludes(t, status, distStatus, more)
    BY <1>7, <2>1
  <2> QED BY <1>1, <1>3, <2>2, <2>3, ConcludesKeeps
<1> QED BY <1>3, <1>5, <1>6, <1>7

LEMMA FailsKeeps ==
  ASSUME DistributionInv, NEW t \in Task, WorkFails(t)
  PROVE  DistributionCore' /\ Rows' /\ opHolder' \in [Op -> Task \cup {None}]
<1> DEFINE r == assetRun[t]
           deferred == r.outcome = "deferred"
           failed == ~deferred /\ ~r.sent /\ r.kind = "prepare"
<1>1. /\ r.at # "idle" /\ Over(t) /\ made' = made /\ mapping' = mapping
      /\ r.at = "failing" \/ (r.at = "looked" /\ r.outcome = "good" /\ ~allowed /\ Owns(t))
  BY DEF WorkFails, quiet
<1>2. r \in AssetRow
  BY AssetRows DEF DistributionInv, Rows
<1>3. RunKnows(t)
  BY DEF DistributionInv, DistributionCore, RunsKnow
<1>4. CASE ~Owns(t)
  <2>1. UNCHANGED <<op, dist, made>>
    BY <1>1, <1>4 DEF WorkFails
  <2> QED BY <1>1, <2>1, DoneKeeps
<1>5. CASE Owns(t)
  <2>1. \/ deferred /\ Concludes(t, r.before, "queued", {r.kind})
        \/ failed /\ Concludes(t, "failed", "blocked", {})
        \/ ~deferred /\ ~failed /\ Concludes(t, "result_unknown", "result_unknown", {"verify"})
    <3>1. CASE deferred
      BY <1>5, <3>1 DEF WorkFails
    <3>2. CASE failed
      BY <1>5, <3>2 DEF WorkFails
    <3>3. CASE ~deferred /\ ~failed
      BY <1>5, <3>3 DEF WorkFails
    <3> QED BY <3>1, <3>2, <3>3
  <2>2. deferred => r.before \in Unresolved /\ (r.before = "pending" => Copies = {})
    BY <1>1, <1>2, <1>3 DEF RunKnows, AssetRow, Unresolved
  <2>3. failed => Copies = {}
    BY <1>1, <1>3 DEF RunKnows
  <2>4. PICK status, distStatus, more :
          /\ Concludes(t, status, distStatus, more)
          /\ status \in Unresolved \cup {"failed"} /\ distStatus \in {"queued", "blocked", "result_unknown"}
          /\ status \in {"pending", "failed"} => Copies = {}
          /\ status = "failed" => distStatus = "blocked"
    BY <2>1, <2>2, <2>3 DEF Unresolved
  <2>5. /\ status \in Unresolved \cup {"succeeded", "failed"}
        /\ distStatus \in {"ready", "blocked"} \cup Active
        /\ status \in {"pending", "failed"} => Copies = {}
        /\ status = "failed" => distStatus = "blocked"
        /\ status = "succeeded" => mapping' # "none"
        /\ distStatus = "ready" => Copies # {}
        /\ mapping' # "none" => mapping # "none" \/ Copies # {}
        /\ mapping # "none" => mapping' # "none"
    BY <1>1, <2>4 DEF Unresolved, Active
  <2> QED BY <1>1, <1>5, <2>4, <2>5, ConcludesKeeps
<1> QED BY <1>4, <1>5

LEMMA KillKeeps ==
  ASSUME DistributionInv, NEW t \in Task, KillAsset(t)
  PROVE  DistributionCore' /\ Rows' /\ opHolder' \in [Op -> Task \cup {None}]
<1>1. assetRun[t].at # "idle" /\ Over(t) /\ UNCHANGED <<op, dist, made>> /\ mapping' = mapping
  BY DEF KillAsset
<1> QED BY <1>1, DoneKeeps

LEMMA LapseKeeps ==
  ASSUME DistributionInv, NEW o \in Op, OpClaimLapses(o)
  PROVE  DistributionCore' /\ Rows' /\ opHolder' \in [Op -> Task \cup {None}]
<1>1. /\ opHolder[o] = None /\ op' = [op EXCEPT ![o].live = FALSE]
      /\ UNCHANGED <<opHolder, dist, mapping, assetRun, made>>
  BY DEF OpClaimLapses, quiet
<1>2. op \in [Op -> OpRow] /\ op[o] \in OpRow
  BY AssetRows DEF DistributionInv, Rows
<1>3. PICK row : row = [op[o] EXCEPT !.live = FALSE]
  OBVIOUS
<1>4. row \in OpRow /\ row.status = op[o].status /\ op' = [op EXCEPT ![o] = row]
  BY <1>1, <1>2, <1>3 DEF OpRow
<1>5. /\ op' \in [Op -> OpRow] /\ op'[o] = row /\ \A p \in Op \ {o} : op'[p] = op[p]
  BY <1>2, <1>4, PutOp
<1>6. /\ \A p \in Op : op'[p].status = op[p].status
      /\ \A p \in Op : op'[p].live = op[p].live \/ opHolder[p] = None
  BY <1>1, <1>4, <1>5
<1>7. Copies' = Copies
  BY <1>1 DEF Copies
<1>8. OneUnresolved' /\ HeldIsLive' /\ CopiesWereSent' /\ Reserved' = Reserved /\ DistsHaveOps'
  BY <1>1, <1>6, <1>7, DistributionOK DEF DistributionInv, DistributionCore, OneUnresolved,
     HeldIsLive,
     CopiesWereSent, Reserved, Copies, DistsHaveOps
<1>9. RunsKnow'
  BY <1>1, <1>6, <1>7 DEF DistributionInv, DistributionCore, RunsKnow, RunKnows
<1>10. KnownIsThere'
  BY <1>1, <1>6, <1>7 DEF DistributionInv, DistributionCore, KnownIsThere
<1>11. FailedIsAlone'
  BY <1>1, <1>6, <1>7, <1>8 DEF DistributionInv, DistributionCore, FailedIsAlone,
     DistsHaveOps, Active
<1> QED BY <1>1, <1>5, <1>8, <1>9, <1>10, <1>11, AssetRows DEF DistributionInv,
  DistributionCore, Rows

LEMMA SourceKeeps ==
  ASSUME DistributionInv, NEW o \in Op, SourceEnds(o)
  PROVE  /\ DistributionCore' /\ Rows' /\ opHolder' \in [Op -> Task \cup {None}]
         /\ made' \in [Op -> Nat] /\ mapping' \in {"none", "stale", "fresh"}
<1>1. PICK status \in {"succeeded", "failed"} :
        /\ o \in Source /\ op[o].status = "verifying"
        /\ op' = [op EXCEPT ![o].status = status]
        /\ IF status = "succeeded" THEN mapping' = "fresh" /\ made' = Copied(o)
                                    ELSE UNCHANGED <<mapping, made>>
        /\ UNCHANGED <<opHolder, dist, assetRun>>
  BY DEF SourceEnds
<1>2. op \in [Op -> OpRow] /\ op[o] \in OpRow /\ made \in [Op -> Nat] /\ mapping \in {"none", "stale", "fresh"}
  BY AssetRows DEF DistributionInv, Rows
<1>3. PICK row : row = [op[o] EXCEPT !.status = status]
  OBVIOUS
<1>4. row \in OpRow /\ row.status = status /\ row.live = op[o].live /\ op' = [op EXCEPT ![o] = row]
  BY <1>1, <1>2, <1>3 DEF OpRow
<1>5. /\ op' \in [Op -> OpRow] /\ op'[o] = row /\ \A p \in Op \ {o} : op'[p] = op[p]
  BY <1>2, <1>4, PutOp
<1>6. Copies = {} /\ \A p \in Op \ {o} : op[p].status \notin Unresolved
  BY <1>1 DEF DistributionInv, DistributionCore, CopiesWereSent, OneUnresolved, Reserved,
     Unresolved
<1>7. \A t \in Task : assetRun[t].at = "idle"
  <2> SUFFICES ASSUME NEW t \in Task, assetRun[t].at # "idle" PROVE FALSE
    OBVIOUS
  <2> QED BY <1>1, <1>6, RunFacts
<1>8. \A p \in Op : made[p] = 0
  BY <1>2, <1>6 DEF Copies
<1>9. /\ made' \in [Op -> Nat] /\ \A p \in Op \ {o} : made'[p] = 0
      /\ made'[o] = (IF status = "succeeded" THEN 1 ELSE 0)
  BY <1>1, <1>2, <1>8 DEF Copied
<1>10. Copies' = IF status = "succeeded" THEN {o} ELSE {}
  BY <1>9 DEF Copies
<1>11. OneUnresolved' /\ Reserved' = {}
  BY SMTT(90), <1>1, <1>4, <1>5, <1>6 DEF OneUnresolved, Reserved, Unresolved
<1>12. RunsKnow' /\ HeldIsLive' /\ DistsHaveOps'
  BY <1>1, <1>4, <1>5, <1>7 DEF DistributionInv, DistributionCore, RunsKnow, RunKnows,
     HeldIsLive, DistsHaveOps
<1>13. CopiesWereSent'
  BY <1>1, <1>4, <1>5, <1>6, <1>9, <1>10, DistributionOK DEF CopiesWereSent, Sends,
     Unresolved
<1>14. KnownIsThere'
  BY <1>1, <1>4, <1>5, <1>6, <1>10 DEF DistributionInv, DistributionCore, KnownIsThere
<1>15. FailedIsAlone'
  <2>1. CASE status = "failed"
    BY <1>10, <1>11, <2>1 DEF FailedIsAlone
  <2>2. CASE status = "succeeded"
    <3> SUFFICES ASSUME NEW d \in Dist, dist'[d].status \in Active, op'[dist'[d].op].status = "failed"
                 PROVE  FALSE
      BY DEF FailedIsAlone
    <3>1. dist[d].op \in Op /\ op[dist[d].op].status = "failed"
      BY <1>1, <1>4, <1>5, <2>2 DEF DistributionInv, DistributionCore, DistsHaveOps, Active
    <3>2. Reserved = {}
      BY <1>1, <3>1 DEF DistributionInv, DistributionCore, FailedIsAlone
    <3> QED BY <1>1, <3>2 DEF Reserved, Unresolved
  <2> QED BY <2>1, <2>2
<1>16. /\ Rows' /\ opHolder' \in [Op -> Task \cup {None}] /\ mapping' \in {"none", "stale", "fresh"}
  BY <1>1, <1>2, <1>5, AssetRows DEF DistributionInv, Rows
<1> QED BY <1>9, <1>11, <1>12, <1>13, <1>14, <1>15, <1>16 DEF DistributionCore
\* The messages keep their types.
LEMMA MailIsMail ==
  ASSUME Mail, NEW d \in Dist, NEW m \in waiting[d]
  PROVE  /\ \A more \in SUBSET Message : Delivered(d, m, more) => Mail'
         /\ \A more \in SUBSET Message : Rebinds(d, m, more) => Mail'
         /\ \A o : \A recover \in Message : ClaimRaises(d, m, o, recover) => Mail'
<1>1. m \in Message
  BY DEF Mail
<1>2. ASSUME NEW ms \in SUBSET Message PROVE Aged(ms, "old") \in SUBSET Message
  BY MailTypes DEF Aged
<1>3. ASSUME NEW more \in SUBSET Message, Delivered(d, m, more) PROVE Mail'
  BY <1>1, <1>3 DEF Mail, Delivered
<1>4. ASSUME NEW more \in SUBSET Message, Rebinds(d, m, more) PROVE Mail'
  <2>1. {"foreign"} \in SUBSET Message
    BY MailTypes
  <2> QED BY <1>4, <2>1 DEF Mail, Rebinds
<1>5. ASSUME NEW o, NEW recover \in Message, ClaimRaises(d, m, o, recover) PROVE Mail'
  <2>1. \A e \in Dist : waiting[e] \in SUBSET Message /\ taken[e] \in SUBSET Message
    BY DEF Mail
  <2>2. /\ \A e \in Dist : Aged(waiting[e], "old") \in SUBSET Message
        /\ \A e \in Dist : Aged(taken[e], "old") \in SUBSET Message
        /\ Aged(waiting[d] \ {m}, "old") \in SUBSET Message
        /\ Aged(taken[d] \cup {m}, "old") \in SUBSET Message
    <3>1. waiting[d] \ {m} \in SUBSET Message /\ taken[d] \cup {m} \in SUBSET Message
      BY <1>1, <2>1
    <3> QED BY <1>2, <2>1, <3>1
  <2>3. waiting' \in [Dist -> SUBSET Message]
    BY <1>5, <2>1, <2>2 DEF ClaimRaises
  <2>4. taken' \in [Dist -> SUBSET Message]
    BY <1>5, <2>1, <2>2 DEF ClaimRaises
  <2> QED BY <2>3, <2>4 DEF Mail
<1> QED BY <1>3, <1>4, <1>5

LEMMA OverMail ==
  ASSUME Mail, NEW d, NEW o, NEW more \in SUBSET Message, ClaimOver(d, o, more)
  PROVE  Mail'
<1> DEFINE Spent(ms) == IF ms \cap Recovery = {} THEN ms ELSE (ms \ Recovery) \cup {"old"}
<1>1. ASSUME NEW ms \in SUBSET Message PROVE Spent(ms) \in SUBSET Message
  BY MailTypes
<1>2. /\ waiting' = [e \in Dist |->
           (IF dist[e].op = o THEN Spent(waiting[e]) ELSE waiting[e]) \cup (IF e = d THEN more ELSE {})]
      /\ taken' = [e \in Dist |-> IF dist[e].op = o THEN Spent(taken[e]) ELSE taken[e]]
  BY Zenon DEF ClaimOver
<1> HIDE DEF Spent
<1>3. \A e \in Dist : /\ waiting[e] \in SUBSET Message /\ taken[e] \in SUBSET Message
                       /\ Spent(waiting[e]) \in SUBSET Message /\ Spent(taken[e]) \in SUBSET Message
  BY <1>1 DEF Mail
<1> QED BY <1>2, <1>3 DEF Mail

LEMMA TakeMail ==
  ASSUME Mail, NEW t \in Task, TakeMessage(t)
  PROVE  Mail'
<1>1. PICK d \in Dist : \E m \in waiting[d] :
        \/ Delivered(d, m, {})
        \/ /\ dist[d].status \in Active
           /\ \/ Blocked(d, m) \/ Foreign(d, m) \/ AlreadyThere(d, m) \/ SourceOwned(d, m)
              \/ Dropped(d, m) \/ Failed(t, d, m) \/ SendExpired(d, m)
              \/ Refused(d, m) \/ ClaimOp(t, d, m)
  BY Zenon DEF TakeMessage
<1>2. PICK m \in waiting[d] :
        \/ Delivered(d, m, {})
        \/ \/ Blocked(d, m) \/ Foreign(d, m) \/ AlreadyThere(d, m) \/ SourceOwned(d, m)
           \/ Dropped(d, m) \/ Failed(t, d, m) \/ SendExpired(d, m)
           \/ Refused(d, m) \/ ClaimOp(t, d, m)
  BY <1>1
<1>3. /\ {} \in SUBSET Message
      /\ \A m1 \in {"prepare", "verify", "observe", "recover_prepare", "recover_verify"} :
           m1 \in Message /\ {m1} \in SUBSET Message
  BY MailTypes
<1>4. \/ \E more \in SUBSET Message : Delivered(d, m, more) \/ Rebinds(d, m, more)
      \/ \E o : \E recover \in Message : ClaimRaises(d, m, o, recover)
  <2>1. CASE Delivered(d, m, {}) \/ Blocked(d, m) \/ Foreign(d, m) \/ AlreadyThere(d, m) \/ Dropped(d, m)
    BY <1>3, <2>1 DEF Blocked, Foreign, AlreadyThere, Dropped, Ends
  <2>2. CASE SourceOwned(d, m)
    BY <1>3, <2>2 DEF SourceOwned, Rebind, NoUpload, Ends
  <2>3. CASE SendExpired(d, m) \/ Refused(d, m)
    BY <1>3, <2>3 DEF SendExpired, Refused, Ends
  <2>4. ASSUME NEW o, NEW was, Claim(t, d, m, o, was)
        PROVE  \E p : \E recover \in Message : ClaimRaises(d, m, p, recover)
    <3>1. PICK recover \in Message :
            recover = IF Kind(m) = "prepare" THEN "recover_prepare" ELSE "recover_verify"
      BY <1>3
    <3>2. ClaimRaises(d, m, o, recover)
      BY <2>4, <3>1 DEF Claim
    <3> QED BY <3>2
  <2>5. CASE ClaimOp(t, d, m)
    BY <2>4, <2>5 DEF ClaimOp
  <2>6. CASE Failed(t, d, m)
    <3>1. \/ NoUpload(d, m)
          \/ Rebind(d, m, FALSE, "prepare")
          \/ \E o \in Op : \/ Claim(t, d, m, o, Bound(o, "file", FALSE))
                           \/ Rebinds(d, m, {})
      BY <2>6, Zenon DEF Failed
    <3> QED BY <1>3, <2>4, <3>1 DEF NoUpload, Ends, Rebind
  <2> QED BY <1>2, <2>1, <2>2, <2>3, <2>5, <2>6
<1> QED BY <1>4, MailIsMail

LEMMA ConcludesMail ==
  ASSUME Mail, NEW t \in Task, NEW status, NEW distStatus, NEW more \in SUBSET Message,
         Concludes(t, status, distStatus, more)
  PROVE  Mail'
<1>1. CASE UNCHANGED messages
  BY <1>1 DEF messages, Mail
<1>2. CASE ClaimOver(assetRun[t].dist, assetRun[t].op, more)
  BY <1>2, OverMail
<1> QED BY <1>1, <1>2 DEF Concludes

LEMMA WorkMail ==
  ASSUME DistributionInv, NEW t \in Task, Conclude(t) \/ WorkFails(t)
  PROVE  Mail'
<1>1. Mail /\ assetRun[t] \in AssetRow
  BY AssetRows DEF DistributionInv, Rows
<1>2. {} \in SUBSET Message /\ {"verify"} \in SUBSET Message /\ {assetRun[t].kind} \in SUBSET Message
  BY <1>1, MailTypes DEF AssetRow
<1>3. CASE UNCHANGED messages
  BY <1>1, <1>3 DEF messages, Mail
<1>4. CASE \E status, distStatus : \E more \in SUBSET Message : Concludes(t, status, distStatus, more)
  BY <1>1, <1>4, ConcludesMail
<1>5. CASE Conclude(t)
  <2>1. \/ UNCHANGED messages
        \/ IF assetRun[t].outcome = "bad" THEN Concludes(t, "failed", "blocked", {})
           ELSE Concludes(t, "verifying", "verifying", {"verify"})
        \/ Concludes(t, "succeeded", "ready", {})
        \/ \E status \in {"verifying", "result_unknown"} : Concludes(t, status, status, {"verify"})
    BY <1>5, Zenon DEF Conclude
  <2> QED BY <1>2, <1>3, <1>4, <2>1
<1>6. CASE WorkFails(t)
  <2>1. CASE ~Owns(t)
    BY <1>3, <1>6, <2>1 DEF WorkFails
  <2>2. CASE Owns(t) /\ assetRun[t].outcome = "deferred"
    BY <1>2, <1>4, <1>6, <2>2 DEF WorkFails
  <2>3. CASE Owns(t) /\ assetRun[t].outcome # "deferred"
    BY <1>2, <1>4, <1>6, <2>3 DEF WorkFails
  <2> QED BY <2>1, <2>2, <2>3
<1> QED BY <1>5, <1>6
LEMMA DistributionInits ==
  ASSUME DistributionInit
  PROVE  DistributionInv
<1>1. DistributionTypeOK
  <2>1. NoRun \in AssetRow
    BY DEF NoRun, AssetRow
  <2>2. Rows
    BY <2>1 DEF DistributionInit, Rows, OpRow, DistRow, Unresolved, Active
  <2>3. Mail /\ opHolder \in [Op -> Task \cup {None}] /\ made \in [Op -> Nat]
    BY DEF DistributionInit, Mail
  <2>4. /\ mapping \in {"none", "stale", "fresh"} /\ allowed \in BOOLEAN
        /\ surprises \in 0 .. MaxSurprises /\ assetKills \in 0 .. MaxCrashes
    BY DistributionOK, TasksOK DEF DistributionInit
  <2> QED BY <2>2, <2>3, <2>4, AssetRows
<1>2. /\ \A o \in Op : op[o].status \in {"none", "verifying"} /\ opHolder[o] = None /\ made[o] = 0
      /\ \A o, p \in Op : op[o].status = "verifying" /\ op[p].status = "verifying" => o = p
      /\ \A d \in Dist : dist[d].status = "none" /\ mapping = "none"
      /\ \A t \in Task : assetRun[t].at = "idle"
  BY DEF DistributionInit, NoRun
<1>3. Copies = {} /\ mapping = "none"
  BY <1>2 DEF Copies, DistributionInit
<1>4. OneUnresolved /\ RunsKnow /\ HeldIsLive /\ DistsHaveOps
  BY <1>2 DEF OneUnresolved, Reserved, Unresolved, RunsKnow, RunKnows, HeldIsLive,
     DistsHaveOps, Active
<1>5. CopiesWereSent /\ KnownIsThere /\ FailedIsAlone
  BY <1>2, <1>3 DEF CopiesWereSent, KnownIsThere, FailedIsAlone, Active
<1> QED BY <1>1, <1>4, <1>5 DEF DistributionInv, DistributionCore

LEMMA DistributionStep ==
  ASSUME DistributionInv, [DistributionNext]_assetVars
  PROVE  DistributionInv'
<1> DEFINE Kept == DistributionCore' /\ Rows' /\ opHolder' \in [Op -> Task \cup {None}]
           Rest == /\ Mail' /\ mapping' \in {"none", "stale", "fresh"} /\ allowed' \in BOOLEAN
                   /\ made' \in [Op -> Nat] /\ surprises' \in 0 .. MaxSurprises
                   /\ assetKills' \in 0 .. MaxCrashes
<1>0. /\ Rows /\ Mail /\ opHolder \in [Op -> Task \cup {None}]
      /\ mapping \in {"none", "stale", "fresh"} /\ allowed \in BOOLEAN /\ made \in [Op -> Nat]
      /\ surprises \in 0 .. MaxSurprises /\ assetKills \in 0 .. MaxCrashes
      /\ MaxSurprises \in Nat /\ MaxCrashes \in Nat
  BY AssetRows, DistributionOK, TasksOK DEF DistributionInv
<1> HIDE DEF Kept, Rest
<1> SUFFICES Kept /\ Rest
  <2>1. Kept /\ Rest => DistributionTypeOK' /\ DistributionCore'
    <3>1. DistributionTypeOK' <=>
            /\ Rows' /\ Mail' /\ opHolder' \in [Op -> Task \cup {None}]
            /\ mapping' \in {"none", "stale", "fresh"} /\ allowed' \in BOOLEAN /\ made' \in [Op -> Nat]
            /\ surprises' \in 0 .. MaxSurprises /\ assetKills' \in 0 .. MaxCrashes
      BY DEF DistributionTypeOK, Rows, Mail, OpRow, DistRow, AssetRow
    <3> QED BY <3>1 DEF Kept, Rest
  <2> QED BY <2>1 DEF DistributionInv
<1> DEFINE Same == UNCHANGED <<allowed, surprises, assetKills>>
<1>1. ASSUME Mail', mapping' \in {"none", "stale", "fresh"}, made' \in [Op -> Nat], Same PROVE Rest
  BY <1>0, <1>1 DEF Rest
<1>2. messages' = messages => Mail'
  BY <1>0 DEF messages, Mail
<1>3. quiet' = quiet => UNCHANGED <<mapping, made>> /\ Same
  BY DEF quiet, world
<1>4. ASSUME NEW d \in Dist, Ensure(d) PROVE Kept /\ Rest
  <2>1. UNCHANGED <<opHolder, taken, mapping, made>> /\ Same
    BY <1>4 DEF Ensure, world
  <2>2. PICK m \in {"observe", "prepare", "verify"} : waiting' = [waiting EXCEPT ![d] = {m}]
    BY <1>4 DEF Ensure
  <2>3. Mail'
    BY <1>0, <2>1, <2>2, MailTypes DEF Mail
  <2> QED BY <1>0, <1>1, <1>4, <2>1, <2>3, EnsureKeeps DEF Kept
<1>5. ASSUME NEW d \in Dist, NEW m \in taken[d], SentAgain(d, m), surprises' \in 0 .. MaxSurprises
      PROVE  Kept /\ Rest
  <2>1. UNCHANGED <<op, opHolder, dist, mapping, assetRun, made, allowed, assetKills>>
    BY <1>5 DEF SentAgain
  <2>2. m \in Message
    BY <1>0 DEF Mail
  <2>3. Mail'
    BY <1>0, <1>5, <2>2 DEF SentAgain, Mail
  <2>4. Kept
    BY <2>1, QuietSteps DEF Kept
  <2> QED BY <1>0, <1>5, <2>1, <2>3, <2>4 DEF Rest
<1>6. Surprise => surprises' \in 0 .. MaxSurprises
  BY <1>0 DEF Surprise
<1>7. ASSUME NEW d \in Dist, RepairMaterial(d) \/ DeliveredAgain(d) PROVE Kept /\ Rest
  <2>1. PICK m \in taken[d] : SentAgain(d, m) /\ surprises' \in 0 .. MaxSurprises
    BY <1>0, <1>6, <1>7 DEF RepairMaterial, DeliveredAgain
  <2> QED BY <1>5, <2>1
<1>8. ASSUME NEW t \in Task, AssetTask(t) \/ BeforeRequest(t) \/ KillAsset(t) PROVE Kept /\ Rest
  <2>1. CASE TakeMessage(t)
    <3>1. quiet' = quiet
      BY <2>1 DEF TakeMessage
    <3> QED BY <1>0, <1>1, <1>3, <2>1, <3>1, TakeKeeps, TakeMail DEF Kept
  <2>2. CASE ArmSend(t) \/ StoreUploadReceipt(t) \/ BeforeRequest(t) \/ Look(t)
    <3>1. quiet' = quiet /\ messages' = messages
      BY <2>2 DEF ArmSend, StoreUploadReceipt, BeforeRequest, Look, quiet, messages
    <3>2. Kept
      BY <2>2, ArmKeeps, ReceiptKeeps, FailKeeps DEF Kept
    <3> QED BY SMTT(90), <1>0, <1>1, <1>2, <1>3, <3>1, <3>2
  <2>3. CASE SendAsset(t)
    <3>1. messages' = messages /\ mapping' = mapping /\ Same
      BY <2>3 DEF SendAsset, messages, world
    <3> QED BY SMTT(90), <1>0, <1>1, <1>2, <2>3, <3>1, SendKeeps DEF Kept
  <2>4. CASE Conclude(t)
    <3>1. made' = made /\ Same
      BY <2>4 DEF Conclude, world
    <3> QED BY <1>0, <1>1, <2>4, <3>1, ConcludeKeeps, WorkMail DEF Kept
  <2>5. CASE WorkFails(t)
    <3>1. quiet' = quiet
      BY <2>5 DEF WorkFails
    <3> QED BY <1>0, <1>1, <1>3, <2>5, <3>1, FailsKeeps, WorkMail DEF Kept
  <2>6. CASE KillAsset(t)
    <3>1. /\ UNCHANGED <<mapping, made, allowed, surprises>>
          /\ assetKills < MaxCrashes /\ assetKills' = assetKills + 1
      BY <2>6 DEF KillAsset, world
    <3>2. assetRun[t].at # "idle"
      BY <2>6 DEF KillAsset
    <3>3. assetRun[t].dist \in Dist
      BY <3>2, RunFacts
    <3>4. PICK m \in Message : \/ messages' = messages
                              \/ /\ waiting' = [waiting EXCEPT ![assetRun[t].dist] = @ \cup {m}]
                                 /\ taken' = taken
      <4>1. "old" \in Message /\ "foreign" \in Message
        BY MailTypes
      <4>2. \/ messages' = messages
            \/ /\ waiting' = [waiting EXCEPT ![assetRun[t].dist] =
                               @ \cup {IF dist[assetRun[t].dist].op = assetRun[t].op THEN "old" ELSE "foreign"}]
               /\ taken' = taken
        BY <2>6, Zenon DEF KillAsset
      <4>3. PICK m \in Message :
              m = IF dist[assetRun[t].dist].op = assetRun[t].op THEN "old" ELSE "foreign"
        BY <4>1
      <4> QED BY <4>2, <4>3
    <3>5. Mail'
      BY <1>0, <1>2, <3>3, <3>4 DEF Mail
    <3>6. assetKills' \in 0 .. MaxCrashes
      BY <1>0, <3>1
    <3> QED BY <1>0, <2>6, <3>1, <3>5, <3>6, KillKeeps DEF Kept, Rest
  <2> QED BY <1>8, <2>1, <2>2, <2>3, <2>4, <2>5, <2>6 DEF AssetTask
<1>9. ASSUME NEW o \in Op, OpClaimLapses(o) PROVE Kept /\ Rest
  <2>1. quiet' = quiet /\ messages' = messages
    BY <1>9 DEF OpClaimLapses, quiet, messages
  <2> QED BY <1>0, <1>1, <1>2, <1>3, <1>9, <2>1, LapseKeeps DEF Kept
<1>10. ASSUME NEW o \in Op, SourceEnds(o) PROVE Kept /\ Rest
  <2>1. messages' = messages /\ Same
    BY <1>10 DEF SourceEnds, messages, world
  <2> QED BY <1>0, <1>1, <1>2, <1>10, <2>1, SourceKeeps DEF Kept
<1>11. CASE ProofAges
  <2>1. /\ mapping = "fresh" /\ mapping' = "stale" /\ surprises' \in 0 .. MaxSurprises
        /\ UNCHANGED <<op, opHolder, dist, messages, assetRun, made, allowed, assetKills>>
    BY <1>6, <1>11 DEF ProofAges
  <2>2. Copies' = Copies /\ Reserved' = Reserved
    BY <2>1 DEF Copies, Reserved
  <2>3. OneUnresolved' /\ HeldIsLive' /\ DistsHaveOps' /\ FailedIsAlone' /\ CopiesWereSent' /\ RunsKnow'
    BY <2>1, <2>2 DEF DistributionInv, DistributionCore, OneUnresolved, RunsKnow, RunKnows,
       HeldIsLive,
       CopiesWereSent, FailedIsAlone, DistsHaveOps, Reserved, Copies
  <2>4. KnownIsThere'
    BY <2>1, <2>2 DEF DistributionInv, DistributionCore, KnownIsThere
  <2>5. Rows'
    BY <1>0, <2>1 DEF Rows
  <2> QED BY <1>0, <1>2, <2>1, <2>3, <2>4, <2>5 DEF Kept, Rest, DistributionCore
<1>12. CASE PermissionChanges
  <2>1. /\ allowed' = ~allowed /\ surprises' \in 0 .. MaxSurprises
        /\ UNCHANGED <<op, opHolder, dist, messages, mapping, assetRun, made, assetKills>>
    BY <1>0, <1>6, <1>12 DEF PermissionChanges
  <2>2. Kept
    BY <2>1, QuietSteps DEF Kept
  <2>3. allowed' \in BOOLEAN
    BY <2>1
  <2> QED BY <1>0, <1>2, <2>1, <2>2, <2>3 DEF Rest
<1>13. CASE UNCHANGED assetVars
  <2>1. UNCHANGED <<op, opHolder, dist, messages, mapping, assetRun, made, allowed, surprises, assetKills>>
    BY <1>13 DEF assetVars, world
  <2>2. Kept
    BY <2>1, QuietSteps DEF Kept
  <2> QED BY <1>0, <1>2, <2>1, <2>2 DEF Rest
<1> QED BY <1>4, <1>7, <1>8, <1>9, <1>10, <1>11, <1>12, <1>13 DEF DistributionNext

LEMMA DistributionInvIsSafe ==
  ASSUME DistributionInv
  PROVE  DistributionSafe
<1>1. OneCopy
  <2>1. \A o, p \in Copies : o = p
    BY DEF DistributionInv, DistributionCore, CopiesWereSent
  <2>2. Cardinality(Copies) <= 1
    <3>1. CASE Copies = {}
      BY <3>1, FS_EmptySet
    <3>2. CASE Copies # {}
      <4>1. PICK o \in Copies : TRUE
        BY <3>2
      <4>2. Copies = {o}
        BY <2>1, <4>1
      <4> QED BY <4>2, FS_Singleton
    <3> QED BY <3>1, <3>2
  <2>3. \A o \in Copies : made[o] = 1
    BY DEF DistributionInv, DistributionCore, CopiesWereSent
  <2> QED BY <2>2, <2>3 DEF OneCopy
<1>2. FailedMadeNothing
  BY DEF DistributionInv, DistributionCore, CopiesWereSent, FailedMadeNothing, Sends
<1>3. ReadyIsThere
  BY DEF DistributionInv, DistributionCore, KnownIsThere, ReadyIsThere
<1> QED BY <1>1, <1>2, <1>3 DEF DistributionSafe, DistributionInv, DistributionCore

\* However many builds wait for a material, whichever tasks are killed and whichever messages
\* are lost or come twice: the account gets at most one copy, a failed operation has made none,
\* at most one operation is unresolved, and what is called ready is there (run_distribution,
\* reserve_asset_operation, repair_material_dispatches).
THEOREM DistributionIsSafe == DistributionSpec => []DistributionSafe
<1>1. DistributionInit => DistributionInv
  BY DistributionInits
<1>2. DistributionInv /\ [DistributionNext]_assetVars => DistributionInv'
  BY DistributionStep
<1>3. DistributionInv => DistributionSafe
  BY DistributionInvIsSafe
<1> QED BY <1>1, <1>2, <1>3, PTL DEF DistributionSpec

----------------------------------------------------------------------------
(* Batches of shares.                                                       *)

\* Which run holds what: a claim of one operation, or the claims of a batch.
SinglePlaces == {"claimed", "armed", "receipt", "looked"}
BatchPlaces  == {"batch", "sources", "sending", "done"}
Effects      == {"ACKNOWLEDGED", "UNKNOWN", "NOT_SENT", "FAILED"}
Denials      == {"NOT_SENT", "FAILED"}

\* A claim of a batch is over before the batch is; its messages can only recover it.
TokensAreOpen ==
  /\ \A m \in Share : share[m].token \in Batch =>
       /\ batch[share[m].token].status \in BatchOpen /\ m \in batch[share[m].token].members
       /\ share[m].batch = share[m].token
       /\ shareWaiting[m] \cup shareTaken[m] \subseteq {"old", "recover_prepare"}
  /\ \A m, n \in Share : share[m].token \in Batch /\ share[n].token = share[m].token =>
       share[n].live = share[m].live
  /\ \A m \in Share : share[m].batch # None =>
       /\ m \in batch[share[m].batch].members /\ batch[share[m].batch].status # "none"
  /\ \A b \in Batch : batch[b].status # "none" => batch[b].members # {}

HoldersWork ==
  \A m \in Share : \A t \in Task : shareHolder[m] = t =>
    /\ share[m].token = "single"
    /\ shareRun[t].at \in SinglePlaces /\ shareRun[t].share = m

\* Where a run is, and what it may still assume.
WorksOnOne(t) ==
  LET r == shareRun[t] IN
  r.at \in SinglePlaces =>
    /\ r.share \in Share /\ r.batch = None
    /\ r.at = "claimed" /\ r.kind = "prepare" /\ shareHolder[r.share] = t =>
         share[r.share].status = "pending"
    /\ r.at = "receipt" => r.outcome \in Effects
    /\ r.at = "looked" => r.outcome \in {"missing", "UNKNOWN", "found"}

WorksOnBatch(t) ==
  LET r == shareRun[t] IN
  r.at \in BatchPlaces =>
    /\ r.batch \in Batch /\ batch[r.batch].status # "none"
    /\ r.at \in {"batch", "sources"} => batch[r.batch].status # "sending"
    /\ r.at = "sending" => batch[r.batch].status # "pending"
    /\ r.at = "done" => r.outcome \in Effects

RunsWork ==
  /\ \A t \in Task : WorksOnOne(t) /\ WorksOnBatch(t)
  /\ \A t \in Task : shareRun[t].at = "idle" => shareRun[t].batch = None
  /\ \A t, u \in Task : shareRun[t].batch # None /\ shareRun[t].batch = shareRun[u].batch => t = u

\* The run is about to ask for m to be shared.
IsSending(t, m) ==
  \/ shareRun[t].at = "armed" /\ shareRun[t].share = m
  \/ shareRun[t].at = "sending" /\ m \in batch[shareRun[t].batch].members

\* The run is about to say that m was not shared, and will be believed.
IsDenying(t, m) ==
  LET r == shareRun[t] IN
  \/ r.at = "receipt" /\ r.share = m /\ shareHolder[m] = t /\ r.outcome \in Denials
  \/ /\ r.at = "done" /\ batch[r.batch].status \in BatchOpen /\ m \in batch[r.batch].members
     /\ r.outcome \in Denials \/ m \in r.rejected

\* One asks at a time, only for what was not shared, and nobody denies it meanwhile.
SendersAlone ==
  /\ \A t \in Task : \A m \in Share :
       IsSending(t, m) => shared[m] = 0 /\ share[m].status \notin {"pending", "failed"}
  /\ \A t, u \in Task : \A m \in Share : IsSending(t, m) /\ IsSending(u, m) => t = u
  /\ \A t \in Task : \A m \in Share :
       IsDenying(t, m) => shared[m] = 0 /\ \A u \in Task : ~IsSending(u, m)

ShareRowType == [status : ShareStatus, token : {None, "single"} \cup Batch,
                 live : BOOLEAN, armed : BOOLEAN, batch : Batch \cup {None}]
BatchRowType == [status : BatchStatus, members : SUBSET Share, ready : SUBSET Share, receipts : Nat]
ShareRunType == [at : {"idle", "batch", "sources", "sending", "done", "claimed", "armed", "receipt",
                       "looked"},
                 batch : Batch \cup {None}, share : Share \cup {None},
                 kind : {"prepare", "verify"}, rejected : SUBSET Share,
                 outcome : {"none", "ACKNOWLEDGED", "UNKNOWN", "NOT_SENT", "FAILED", "found", "missing"}]
ShareRows == /\ share \in [Share -> ShareRowType] /\ batch \in [Batch -> BatchRowType]
             /\ shareHolder \in [Share -> Task \cup {None}] /\ shareRun \in [Task -> ShareRunType]
ShareMail == /\ shareWaiting \in [Share -> SUBSET ShareMessage]
             /\ shareTaken \in [Share -> SUBSET ShareMessage]

ShareCore ==
  SharedOnce /\ OneReceipt /\ MembersStandTogether /\ TokensAreOpen /\ HoldersWork /\ RunsWork
  /\ SendersAlone
ShareInv == ShareTypeOK /\ ShareCore

LEMMA ShareTypes ==
  ShareTypeOK <=> /\ ShareRows /\ ShareMail /\ shared \in [Share -> Nat]
                  /\ shareFaults \in 0 .. MaxCrashes
BY DEF ShareTypeOK, ShareRows, ShareMail, ShareRowType, BatchRowType, ShareRunType

\* The model values and the names of claims are different things.

LEMMA ShareNames ==
  /\ None \notin Task /\ None \notin Share /\ None \notin Batch /\ "single" \notin Batch
BY TasksOK, ShareBatchOK

LEMMA TypedRows ==
  ASSUME ShareInv
  PROVE  /\ \A m \in Share : share[m] \in ShareRowType /\ shareHolder[m] \in Task \cup {None}
                              /\ shareWaiting[m] \in SUBSET ShareMessage
                              /\ shareTaken[m] \in SUBSET ShareMessage /\ shared[m] \in Nat
         /\ \A b \in Batch : batch[b] \in BatchRowType
         /\ \A t \in Task : shareRun[t] \in ShareRunType
BY ShareTypes DEF ShareInv, ShareRows, ShareMail

\* Runs go on as they were or end, and claims stay or end with them.
Shrinks ==
  /\ shareRun' \in [Task -> ShareRunType] /\ shareHolder' \in [Share -> Task \cup {None}]
  /\ \A t \in Task : shareRun'[t] = shareRun[t] \/ shareRun'[t] = NoShareRun
  /\ \A m \in Share : \/ shareHolder'[m] = None
                       \/ /\ shareHolder'[m] = shareHolder[m]
                          /\ shareRun'[shareHolder[m]] = shareRun[shareHolder[m]]

LEMMA NoRunIsRun == NoShareRun \in ShareRunType /\ NoShareRun.at = "idle" /\ NoShareRun.batch = None
BY DEF NoShareRun, ShareRunType

LEMMA UnchangedShrinks ==
  ASSUME ShareInv, UNCHANGED <<shareRun, shareHolder>>
  PROVE  Shrinks
BY ShareTypes DEF ShareInv, ShareRows, Shrinks

LEMMA EndShrinks ==
  ASSUME ShareInv, NEW t \in Task, ShareRunEnds(t)
  PROVE  Shrinks
<1>1. shareRun \in [Task -> ShareRunType] /\ shareHolder \in [Share -> Task \cup {None}]
  BY ShareTypes DEF ShareInv, ShareRows
<1>2. /\ shareRun' \in [Task -> ShareRunType] /\ shareRun'[t] = NoShareRun
      /\ \A u \in Task \ {t} : shareRun'[u] = shareRun[u]
  BY <1>1, NoRunIsRun DEF ShareRunEnds
<1>3. /\ shareHolder' \in [Share -> Task \cup {None}]
      /\ \A m \in Share : shareHolder'[m] = IF shareHolder[m] = t THEN None ELSE shareHolder[m]
  BY <1>1 DEF ShareRunEnds, Forget
<1> QED BY <1>1, <1>2, <1>3 DEF Shrinks

\* What the rows must keep for the runs to know what they knew.

LEMMA ShrinkKeeps ==
  ASSUME ShareInv, Shrinks,
         \A m \in Share : shareHolder'[m] # None =>
           /\ share'[m].token = share[m].token
           /\ share[m].status = "pending" => share'[m].status = "pending",
         \A b \in Batch : /\ batch'[b].members = batch[b].members
                          /\ batch[b].status # "none" => batch'[b].status # "none"
                          /\ batch'[b].status \in BatchOpen => batch'[b].status = batch[b].status
  PROVE  HoldersWork' /\ RunsWork'
<1>1. HoldersWork'
  <2> SUFFICES ASSUME NEW m \in Share, NEW t \in Task, shareHolder'[m] = t
               PROVE  share'[m].token = "single" /\ shareRun'[t].at \in SinglePlaces /\ shareRun'[t].share = m
    BY DEF HoldersWork
  <2>1. shareHolder'[m] # None
    BY ShareNames
  <2>2. shareHolder[m] = t /\ shareRun'[t] = shareRun[t]
    BY <2>1 DEF Shrinks
  <2>3. share'[m].token = share[m].token
    BY <2>1
  <2>4. share[m].token = "single" /\ shareRun[t].at \in SinglePlaces /\ shareRun[t].share = m
    BY <2>2 DEF ShareInv, ShareCore, HoldersWork
  <2> QED BY <2>2, <2>3, <2>4
<1>2. \A t \in Task : shareRun'[t] = shareRun[t] \/ (shareRun'[t].at = "idle" /\ shareRun'[t].batch = None)
  BY NoRunIsRun DEF Shrinks
<1>3. \A t \in Task : WorksOnOne(t)'
  <2> SUFFICES ASSUME NEW t \in Task, shareRun'[t].at \in SinglePlaces PROVE WorksOnOne(t)'
    BY DEF WorksOnOne
  <2>1. shareRun'[t] = shareRun[t]
    BY <1>2 DEF SinglePlaces
  <2>2. WorksOnOne(t)
    BY DEF ShareInv, ShareCore, RunsWork
  <2>3. shareRun[t].share \in Share
    BY <2>1, <2>2 DEF WorksOnOne
  <2>4. shareHolder'[shareRun[t].share] = t => shareHolder[shareRun[t].share] = t
    BY <2>3, ShareNames DEF Shrinks
  <2>5. shareHolder'[shareRun[t].share] = t /\ share[shareRun[t].share].status = "pending" =>
          share'[shareRun[t].share].status = "pending"
    BY <2>3, ShareNames
  <2> QED BY <2>1, <2>2, <2>3, <2>4, <2>5 DEF WorksOnOne
<1>4. \A t \in Task : WorksOnBatch(t)'
  <2> SUFFICES ASSUME NEW t \in Task, shareRun'[t].at \in BatchPlaces PROVE WorksOnBatch(t)'
    BY DEF WorksOnBatch
  <2>1. shareRun'[t] = shareRun[t]
    BY <1>2 DEF BatchPlaces
  <2>2. WorksOnBatch(t)
    BY DEF ShareInv, ShareCore, RunsWork
  <2> QED BY <2>1, <2>2 DEF WorksOnBatch, BatchOpen
<1>5. /\ \A t \in Task : shareRun'[t].at = "idle" => shareRun'[t].batch = None
      /\ \A t, u \in Task : shareRun'[t].batch # None /\ shareRun'[t].batch = shareRun'[u].batch => t = u
  BY <1>2 DEF ShareInv, ShareCore, RunsWork
<1> QED BY <1>1, <1>3, <1>4, <1>5 DEF RunsWork

\* ... and the senders to be alone.

LEMMA ShrinkAlone ==
  ASSUME ShareInv, Shrinks, shared' = shared,
         \A m \in Share : share'[m].status \in {"pending", "failed"} =>
           \/ share[m].status \in {"pending", "failed"}
           \/ \A t \in Task : ~IsSending(t, m),
         \A b \in Batch : /\ batch'[b].members = batch[b].members
                          /\ batch'[b].status \in BatchOpen => batch'[b].status = batch[b].status
  PROVE  SendersAlone'
<1>1. \A t \in Task : shareRun'[t] = shareRun[t] \/ shareRun'[t].at = "idle"
  BY NoRunIsRun DEF Shrinks
<1>2. \A t \in Task : WorksOnBatch(t)
  BY DEF ShareInv, ShareCore, RunsWork
<1>3. ASSUME NEW t \in Task, NEW m \in Share PROVE IsSending(t, m)' => IsSending(t, m)
  BY <1>1, <1>2 DEF IsSending, WorksOnBatch, BatchPlaces
<1>4. ASSUME NEW t \in Task, NEW m \in Share PROVE IsDenying(t, m)' => IsDenying(t, m)
  <2> SUFFICES ASSUME IsDenying(t, m)' PROVE IsDenying(t, m)
    OBVIOUS
  <2>1. shareRun'[t] = shareRun[t]
    BY <1>1 DEF IsDenying
  <2>2. shareHolder'[m] = t => shareHolder[m] = t
    BY ShareNames DEF Shrinks
  <2> QED BY <1>2, <2>1, <2>2 DEF IsDenying, WorksOnBatch, BatchPlaces
<1>5. \A t \in Task : \A m \in Share :
        IsSending(t, m)' => shared'[m] = 0 /\ share'[m].status \notin {"pending", "failed"}
  BY <1>3 DEF ShareInv, ShareCore, SendersAlone
<1>6. /\ \A t, u \in Task : \A m \in Share : IsSending(t, m)' /\ IsSending(u, m)' => t = u
      /\ \A t \in Task : \A m \in Share :
           IsDenying(t, m)' => shared'[m] = 0 /\ \A u \in Task : ~IsSending(u, m)'
  BY <1>3, <1>4 DEF ShareInv, ShareCore, SendersAlone
<1> QED BY <1>5, <1>6 DEF SendersAlone

\* The members of an open batch hold its claim, and nobody works on them by themselves.
LEMMA OpenFacts ==
  ASSUME ShareInv, NEW b \in Batch, batch[b].status \in BatchOpen
  PROVE  /\ HeldBy(b) = batch[b].members /\ batch[b].members \in SUBSET Share
         /\ batch[b].members # {} /\ batch[b].receipts = 0
         /\ \A m \in Share : m \in batch[b].members <=> share[m].token = b
         /\ \A m \in batch[b].members :
              /\ share[m].status = batch[b].status /\ share[m].batch = b
              /\ shareHolder[m] = None
              /\ shareWaiting[m] \cup shareTaken[m] \subseteq {"old", "recover_prepare"}
<1>1. batch[b].members \in SUBSET Share
  BY TypedRows DEF BatchRowType
<1>2. \A m \in batch[b].members : share[m].status = batch[b].status /\ share[m].token = b
  BY DEF ShareInv, ShareCore, MembersStandTogether
<1>3. \A m \in Share : share[m].token = b => m \in batch[b].members
  BY DEF ShareInv, ShareCore, TokensAreOpen
<1>4. batch[b].members # {} /\ batch[b].receipts = 0
  BY DEF ShareInv, ShareCore, TokensAreOpen, BatchOpen, OneReceipt
<1>5. \A m \in batch[b].members : shareHolder[m] = None
  <2> SUFFICES ASSUME NEW m \in batch[b].members, shareHolder[m] # None PROVE FALSE
    OBVIOUS
  <2>1. m \in Share /\ shareHolder[m] \in Task
    BY <1>1, TypedRows
  <2>2. share[m].token = "single" /\ share[m].token = b
    BY <1>2, <2>1 DEF ShareInv, ShareCore, HoldersWork
  <2> QED BY <2>2, ShareNames
<1>6. \A m \in batch[b].members :
        share[m].batch = b /\ shareWaiting[m] \cup shareTaken[m] \subseteq {"old", "recover_prepare"}
  BY <1>1, <1>2 DEF ShareInv, ShareCore, TokensAreOpen
<1> QED BY <1>1, <1>2, <1>3, <1>4, <1>5, <1>6 DEF HeldBy

\* A batch ends for all of its members, for a reason that holds.
LEMMA FinishKeeps ==
  ASSUME ShareInv, NEW b \in Batch, NEW effect \in Effects, NEW failed \in SUBSET Share,
         FinishBatch(b, effect, failed), Shrinks, shared' = shared,
         \A m \in batch[b].members : effect \in Denials \/ m \in failed =>
           shared[m] = 0 /\ \A u \in Task : ~IsSending(u, m)
  PROVE  /\ ShareCore' /\ ShareMail'
         /\ share' \in [Share -> ShareRowType] /\ batch' \in [Batch -> BatchRowType]
<1> DEFINE own(m) == MemberEffect(m, effect, failed)
<1>1. batch[b].status \in BatchOpen
  BY DEF FinishBatch
<1>2. /\ HeldBy(b) = batch[b].members /\ batch[b].members \in SUBSET Share
      /\ batch[b].members # {} /\ batch[b].receipts = 0
      /\ \A m \in Share : m \in batch[b].members <=> share[m].token = b
      /\ \A m \in batch[b].members : share[m].batch = b /\ shareHolder[m] = None
  BY <1>1, OpenFacts
<1>3. /\ share \in [Share -> ShareRowType] /\ batch \in [Batch -> BatchRowType]
      /\ batch[b] \in BatchRowType
  BY ShareTypes, TypedRows DEF ShareInv, ShareRows
<1>4. PICK after : after = [batch[b] EXCEPT !.status = BatchAfter(effect), !.receipts = batch[b].receipts + 1]
  OBVIOUS
<1>5. /\ BatchAfter(effect) \in {"acknowledged", "result_unknown", "not_sent", "failed"}
      /\ \A m \in Share : own(m) \in Effects
      /\ \A e \in Effects : StatusAfter(e) \in {"verifying", "result_unknown", "pending", "failed"}
      /\ \A e \in Effects : StatusAfter(e) \in {"pending", "failed"} => e \in Denials
  BY DEF BatchAfter, MemberEffect, StatusAfter, Effects, Denials
<1>6. /\ after \in BatchRowType /\ after.receipts = 1 /\ after.members = batch[b].members
      /\ after.status \in {"acknowledged", "result_unknown", "not_sent", "failed"}
  <2>1. PICK end \in {"acknowledged", "result_unknown", "not_sent", "failed"} : end = BatchAfter(effect)
    BY <1>5
  <2>2. after = [batch[b] EXCEPT !.status = end, !.receipts = 1]
    BY <1>2, <1>4, <2>1
  <2>3. end \in BatchStatus
    BY DEF BatchStatus
  <2> QED BY <1>3, <2>2, <2>3 DEF BatchRowType
<1>7. batch' = [batch EXCEPT ![b] = after]
  BY <1>3, <1>4 DEF FinishBatch
<1>8. /\ batch' \in [Batch -> BatchRowType] /\ batch'[b] = after
      /\ \A c \in Batch \ {b} : batch'[c] = batch[c]
  BY SMTT(90), <1>3, <1>6, <1>7
<1>9. share' = [m \in Share |-> IF m \notin batch[b].members THEN share[m]
        ELSE [share[m] EXCEPT !.status = StatusAfter(own(m)), !.token = None, !.live = FALSE,
                              !.armed = @ /\ own(m) # "NOT_SENT"]]
  BY <1>2 DEF FinishBatch
<1> HIDE DEF own
<1>10. ASSUME NEW m \in batch[b].members
       PROVE  /\ share'[m] \in ShareRowType /\ share'[m].status = StatusAfter(own(m))
              /\ share'[m].token = None /\ share'[m].batch = b
  <2>1. m \in Share /\ share[m] \in ShareRowType
    BY <1>2, <1>3
  <2>2. share'[m] = [share[m] EXCEPT !.status = StatusAfter(own(m)), !.token = None, !.live = FALSE,
                              !.armed = @ /\ own(m) # "NOT_SENT"]
    BY <1>9, <2>1
  <2>3. StatusAfter(own(m)) \in ShareStatus
    BY SMTT(90), <1>5, <2>1 DEF ShareStatus, ShareDoubt
  <2> QED BY ZenonT(90), <1>2, <2>1, <2>2, <2>3 DEF ShareRowType
<1>11. \A m \in Share \ batch[b].members : share'[m] = share[m]
  BY <1>9
<1>12. share' \in [Share -> ShareRowType]
  <2>1. \A m \in Share : share'[m] \in ShareRowType
    BY SMTT(90), <1>3, <1>10, <1>11
  <2>2. DOMAIN share' = Share /\ share' = [m \in Share |-> share'[m]]
    BY <1>9
  <2> QED BY <2>1, <2>2
<1>13. \A m \in batch[b].members : share'[m].status \in {"pending", "failed"} =>
         shared[m] = 0 /\ \A u \in Task : ~IsSending(u, m)
  <2> SUFFICES ASSUME NEW m \in batch[b].members, share'[m].status \in {"pending", "failed"}
               PROVE  shared[m] = 0 /\ \A u \in Task : ~IsSending(u, m)
    OBVIOUS
  <2>1. own(m) \in Denials
    BY <1>2, <1>5, <1>10
  <2> QED BY <2>1 DEF own, MemberEffect, Denials
<1>14. SharedOnce'
  BY <1>2, <1>11, <1>13, TypedRows DEF ShareInv, ShareCore, SharedOnce
<1>15. OneReceipt'
  BY <1>6, <1>8 DEF ShareInv, ShareCore, OneReceipt, BatchOpen
<1>16. \A m \in Share : share'[m].token \in Batch => m \notin batch[b].members /\ share'[m] = share[m]
  BY <1>10, <1>11, ShareNames
<1>17. MembersStandTogether'
  <2> SUFFICES ASSUME NEW c \in Batch, batch'[c].status \in BatchOpen, NEW m \in batch'[c].members
               PROVE  /\ share'[m].status = batch'[c].status /\ share'[m].token = c
                      /\ share'[m].armed = (batch'[c].status = "sending")
    BY DEF MembersStandTogether
  <2>1. c # b /\ batch'[c] = batch[c]
    BY <1>6, <1>8 DEF BatchOpen
  <2>2. m \in Share /\ share[m].token = c
    BY <2>1, TypedRows DEF ShareInv, ShareCore, MembersStandTogether, BatchRowType
  <2>3. share'[m] = share[m]
    BY <1>2, <1>11, <2>1, <2>2
  <2> QED BY <2>1, <2>3 DEF ShareInv, ShareCore, MembersStandTogether
<1>18. ShareMail' /\ \A m \in Share \ batch[b].members : shareWaiting'[m] = shareWaiting[m] /\ shareTaken'[m] = shareTaken[m]
  <2>1. PICK more \in [Share -> SUBSET ShareMessage] : ShareClaimsOver(batch[b].members, more)
    <3>1. [m \in Share |-> IF own(m) = "FAILED" THEN {}
                           ELSE IF effect = "NOT_SENT" THEN {"prepare"} ELSE {"verify"}]
            \in [Share -> SUBSET ShareMessage]
      BY DEF ShareMessage
    <3> QED BY <1>2, <3>1 DEF FinishBatch, own
  <2>2. \A rows \in SUBSET ShareMessage : ShareSpent(rows) \in SUBSET ShareMessage
    BY DEF ShareSpent, ShareMessage
  <2>3. \A m \in Share : /\ shareWaiting[m] \in SUBSET ShareMessage /\ shareTaken[m] \in SUBSET ShareMessage
                          /\ ShareSpent(shareWaiting[m]) \in SUBSET ShareMessage
                          /\ ShareSpent(shareTaken[m]) \in SUBSET ShareMessage
    BY <2>2, TypedRows
  <2> HIDE DEF ShareSpent
  <2> QED BY SMTT(90), <2>1, <2>3 DEF ShareClaimsOver, ShareMail
<1>19. TokensAreOpen'
  <2>1. \A m \in Share : share'[m].token \in Batch =>
         /\ batch'[share'[m].token].status \in BatchOpen /\ m \in batch'[share'[m].token].members
         /\ share'[m].batch = share'[m].token
         /\ shareWaiting'[m] \cup shareTaken'[m] \subseteq {"old", "recover_prepare"}
    <3> SUFFICES ASSUME NEW m \in Share, share'[m].token \in Batch
                 PROVE  /\ batch'[share'[m].token].status \in BatchOpen /\ m \in batch'[share'[m].token].members
                        /\ share'[m].batch = share'[m].token
                        /\ shareWaiting'[m] \cup shareTaken'[m] \subseteq {"old", "recover_prepare"}
      OBVIOUS
    <3>1. m \notin batch[b].members /\ share'[m] = share[m] /\ share[m].token # b
      BY <1>2, <1>16
    <3>2. shareWaiting'[m] = shareWaiting[m] /\ shareTaken'[m] = shareTaken[m]
      BY <1>18, <3>1
    <3> QED BY <1>8, <3>1, <3>2 DEF ShareInv, ShareCore, TokensAreOpen
  <2>2. \A m, n \in Share : share'[m].token \in Batch /\ share'[n].token = share'[m].token =>
         share'[n].live = share'[m].live
    BY <1>16 DEF ShareInv, ShareCore, TokensAreOpen
  <2>3. \A m \in Share : share'[m].batch = share[m].batch
    BY <1>2, <1>10, <1>11
  <2>4. \A c \in Batch : /\ batch'[c].members = batch[c].members
                         /\ batch[c].status # "none" => batch'[c].status # "none"
    BY <1>6, <1>8
  <2>5. \A m \in Share : share'[m].batch # None =>
         /\ m \in batch'[share'[m].batch].members /\ batch'[share'[m].batch].status # "none"
    <3>1. \A m \in Share : share[m].batch \in Batch \cup {None}
      BY <1>3 DEF ShareRowType
    <3> QED BY <2>3, <2>4, <3>1 DEF ShareInv, ShareCore, TokensAreOpen
  <2>6. \A c \in Batch : batch'[c].status # "none" => batch'[c].members # {}
    BY <1>2, <1>6, <1>8 DEF ShareInv, ShareCore, TokensAreOpen
  <2> QED BY <2>1, <2>2, <2>5, <2>6 DEF TokensAreOpen
<1>20. \A c \in Batch : /\ batch'[c].members = batch[c].members
                        /\ batch[c].status # "none" => batch'[c].status # "none"
                        /\ batch'[c].status \in BatchOpen => batch'[c].status = batch[c].status
  BY <1>6, <1>8 DEF BatchOpen
<1>21. HoldersWork' /\ RunsWork'
  <2>1. \A m \in Share : shareHolder'[m] # None => m \notin batch[b].members /\ share'[m] = share[m]
    BY <1>2, <1>11 DEF Shrinks
  <2> QED BY <1>20, <2>1, ShrinkKeeps
<1>22. SendersAlone'
  <2>1. \A m \in Share : share'[m].status \in {"pending", "failed"} =>
           \/ share[m].status \in {"pending", "failed"}
           \/ \A t \in Task : ~IsSending(t, m)
    BY <1>11, <1>13
  <2> QED BY <1>20, <2>1, ShrinkAlone
<1> QED BY SMTT(90), <1>8, <1>12, <1>14, <1>15, <1>17, <1>18, <1>19, <1>21, <1>22
  DEF ShareCore

\* Messages and runs change, rows do not.
LEMMA SameRowsKeep ==
  ASSUME ShareInv, UNCHANGED <<share, batch, shared>>, Shrinks,
         \A m \in Share : share[m].token \in Batch =>
           shareWaiting'[m] \cup shareTaken'[m] \subseteq {"old", "recover_prepare"}
  PROVE  ShareCore' /\ ShareRows'
<1>1. HoldersWork' /\ RunsWork'
  BY ShrinkKeeps
<1>2. SendersAlone'
  BY ShrinkAlone
<1>3. SharedOnce' /\ OneReceipt' /\ MembersStandTogether' /\ TokensAreOpen'
  BY DEF ShareInv, ShareCore, SharedOnce, OneReceipt, MembersStandTogether, TokensAreOpen
<1>4. ShareRows'
  BY ShareTypes DEF ShareInv, ShareRows, Shrinks
<1> QED BY <1>1, <1>2, <1>3, <1>4 DEF ShareCore

\* One operation that no batch holds changes, and perhaps a batch that is over with it.

LEMMA OneRowKeeps ==
  ASSUME ShareInv, NEW m \in Share, share[m].token \notin Batch,
         NEW row \in ShareRowType, share' = [share EXCEPT ![m] = row],
         row.token \notin Batch, row.batch = share[m].batch,
         batch' \in [Batch -> BatchRowType],
         \A b \in Batch : /\ batch'[b].members = batch[b].members
                          /\ batch'[b].receipts = batch[b].receipts
                          /\ \/ batch'[b].status = batch[b].status
                             \/ /\ batch[b].status \notin BatchOpen \cup {"none"}
                                /\ batch'[b].status \notin BatchOpen \cup {"none"},
         shared' = shared, row.status \in {"pending", "failed"} => shared[m] = 0,
         \A n \in Share \ {m} : shareWaiting'[n] = shareWaiting[n] /\ shareTaken'[n] = shareTaken[n]
  PROVE  /\ SharedOnce' /\ OneReceipt' /\ MembersStandTogether' /\ TokensAreOpen'
         /\ share' \in [Share -> ShareRowType] /\ share'[m] = row
         /\ \A n \in Share \ {m} : share'[n] = share[n]
         /\ \A b \in Batch : /\ batch'[b].members = batch[b].members
                             /\ batch[b].status # "none" => batch'[b].status # "none"
                             /\ batch'[b].status \in BatchOpen => batch'[b].status = batch[b].status
<1>1. /\ share' \in [Share -> ShareRowType] /\ share'[m] = row
      /\ \A n \in Share \ {m} : share'[n] = share[n]
  BY ShareTypes DEF ShareInv, ShareRows
<1>2. \A n \in Share : share'[n].token \in Batch => n # m /\ share'[n] = share[n]
  BY <1>1
<1>3. \A b \in Batch : /\ batch'[b].members = batch[b].members
                       /\ batch[b].status # "none" => batch'[b].status # "none"
                       /\ batch'[b].status \in BatchOpen => batch'[b].status = batch[b].status
  BY DEF BatchOpen
<1>4. SharedOnce'
  BY <1>1, TypedRows DEF ShareInv, ShareCore, SharedOnce
<1>5. OneReceipt'
  BY DEF ShareInv, ShareCore, OneReceipt, BatchOpen
<1>6. MembersStandTogether'
  <2> SUFFICES ASSUME NEW b \in Batch, batch'[b].status \in BatchOpen, NEW n \in batch'[b].members
               PROVE  /\ share'[n].status = batch'[b].status /\ share'[n].token = b
                      /\ share'[n].armed = (batch'[b].status = "sending")
    BY DEF MembersStandTogether
  <2>1. batch'[b].status = batch[b].status /\ batch'[b].members = batch[b].members
    BY <1>3
  <2>2. n \in Share /\ share[n].token = b
    BY <2>1, TypedRows DEF ShareInv, ShareCore, MembersStandTogether, BatchRowType
  <2>3. share'[n] = share[n]
    BY <1>1, <2>2
  <2> QED BY <2>1, <2>3 DEF ShareInv, ShareCore, MembersStandTogether
<1>7. TokensAreOpen'
  <2>1. \A n \in Share : share'[n].token \in Batch =>
         /\ batch'[share'[n].token].status \in BatchOpen /\ n \in batch'[share'[n].token].members
         /\ share'[n].batch = share'[n].token
         /\ shareWaiting'[n] \cup shareTaken'[n] \subseteq {"old", "recover_prepare"}
    <3> SUFFICES ASSUME NEW n \in Share, share'[n].token \in Batch
                 PROVE  /\ batch'[share'[n].token].status \in BatchOpen /\ n \in batch'[share'[n].token].members
                        /\ share'[n].batch = share'[n].token
                        /\ shareWaiting'[n] \cup shareTaken'[n] \subseteq {"old", "recover_prepare"}
      OBVIOUS
    <3>1. n # m /\ share'[n] = share[n]
      BY <1>2
    <3>2. shareWaiting'[n] = shareWaiting[n] /\ shareTaken'[n] = shareTaken[n]
      BY <3>1
    <3>3. batch[share[n].token].status \in BatchOpen /\ n \in batch[share[n].token].members
      BY <3>1 DEF ShareInv, ShareCore, TokensAreOpen
    <3>4. batch'[share[n].token].status \in BatchOpen /\ n \in batch'[share[n].token].members
      BY <3>1, <3>3 DEF BatchOpen
    <3> QED BY <3>1, <3>2, <3>4 DEF ShareInv, ShareCore, TokensAreOpen
  <2>2. \A n, k \in Share : share'[n].token \in Batch /\ share'[k].token = share'[n].token =>
         share'[k].live = share'[n].live
    BY <1>2 DEF ShareInv, ShareCore, TokensAreOpen
  <2>3. \A n \in Share : share'[n].batch = share[n].batch /\ share[n].batch \in Batch \cup {None}
    BY <1>1, TypedRows DEF ShareRowType
  <2>4. \A n \in Share : share'[n].batch # None =>
         /\ n \in batch'[share'[n].batch].members /\ batch'[share'[n].batch].status # "none"
    BY <1>3, <2>3 DEF ShareInv, ShareCore, TokensAreOpen
  <2>5. \A c \in Batch : batch'[c].status # "none" => batch'[c].members # {}
    BY DEF ShareInv, ShareCore, TokensAreOpen, BatchOpen
  <2> QED BY <2>1, <2>2, <2>4, <2>5 DEF TokensAreOpen
<1> QED BY <1>1, <1>3, <1>4, <1>5, <1>6, <1>7

LEMMA DeliveredMail ==
  ASSUME ShareInv, NEW m \in Share, NEW r \in ShareMessage, NEW more \in SUBSET ShareMessage,
         ShareDelivered(m, r, more)
  PROVE  /\ ShareMail' /\ \A n \in Share \ {m} : shareWaiting'[n] = shareWaiting[n] /\ shareTaken'[n] = shareTaken[n]
         /\ shareWaiting'[m] \cup shareTaken'[m] \subseteq shareWaiting[m] \cup shareTaken[m] \cup {r} \cup more
<1>1. ShareMail
  BY ShareTypes DEF ShareInv
<1> QED BY <1>1 DEF ShareMail, ShareDelivered

LEMMA DroppedKeeps ==
  ASSUME ShareInv, NEW m \in Share, NEW r \in shareWaiting[m], ShareDelivered(m, r, {}),
         UNCHANGED <<share, shareHolder, batch, shareRun, shared>>
  PROVE  ShareCore' /\ ShareRows' /\ ShareMail'
<1>1. r \in ShareMessage
  BY TypedRows
<1>2. {} \in SUBSET ShareMessage
  OBVIOUS
<1>3. /\ ShareMail' /\ \A n \in Share \ {m} : shareWaiting'[n] = shareWaiting[n] /\ shareTaken'[n] = shareTaken[n]
      /\ shareWaiting'[m] \cup shareTaken'[m] \subseteq shareWaiting[m] \cup shareTaken[m] \cup {r}
  BY <1>1, <1>2, DeliveredMail
<1>4. ASSUME NEW n \in Share, share[n].token \in Batch
      PROVE  shareWaiting'[n] \cup shareTaken'[n] \subseteq {"old", "recover_prepare"}
  <2>1. shareWaiting[n] \cup shareTaken[n] \subseteq {"old", "recover_prepare"}
    BY <1>4 DEF ShareInv, ShareCore, TokensAreOpen
  <2> QED BY <1>3, <2>1
<1> QED BY <1>3, <1>4, UnchangedShrinks, SameRowsKeep

LEMMA ExpiredKeeps ==
  ASSUME ShareInv, NEW m \in Share, NEW r \in shareWaiting[m], ShareExpired(m, r),
         share[m].token \notin Batch, shared' = shared
  PROVE  ShareCore' /\ ShareRows' /\ ShareMail'
<1>1. /\ share[m].status = "sending"
      /\ share' = [share EXCEPT ![m].status = "result_unknown", ![m].token = None]
      /\ shareHolder' = [shareHolder EXCEPT ![m] = None]
      /\ ShareDelivered(m, r, {"verify"}) /\ UNCHANGED <<batch, shareRun>>
  BY DEF ShareExpired
<1>2. share \in [Share -> ShareRowType] /\ shareHolder \in [Share -> Task \cup {None}]
      /\ shareRun \in [Task -> ShareRunType] /\ batch \in [Batch -> BatchRowType] /\ r \in ShareMessage
  BY ShareTypes, TypedRows DEF ShareInv, ShareRows
<1>3. PICK row : row = [share[m] EXCEPT !.status = "result_unknown", !.token = None]
  OBVIOUS
<1>4. /\ row \in ShareRowType /\ share' = [share EXCEPT ![m] = row] /\ row.token = None
      /\ row.batch = share[m].batch /\ row.status = "result_unknown"
  BY ZenonT(90), <1>1, <1>2, <1>3 DEF ShareRowType, ShareStatus, ShareDoubt
<1>5. Shrinks
  BY <1>1, <1>2 DEF Shrinks
<1>6. {"verify"} \in SUBSET ShareMessage
  BY DEF ShareMessage
<1>7. /\ ShareMail' /\ \A n \in Share \ {m} : shareWaiting'[n] = shareWaiting[n] /\ shareTaken'[n] = shareTaken[n]
  BY <1>1, <1>2, <1>6, DeliveredMail
<1>8. /\ SharedOnce' /\ OneReceipt' /\ MembersStandTogether' /\ TokensAreOpen'
      /\ share' \in [Share -> ShareRowType] /\ share'[m] = row
      /\ \A n \in Share \ {m} : share'[n] = share[n]
  BY ZenonT(90), <1>1, <1>2, <1>4, <1>7, ShareNames, OneRowKeeps
<1>9. HoldersWork' /\ RunsWork'
  <2>1. \A n \in Share : shareHolder'[n] # None => n # m /\ share'[n] = share[n]
    BY <1>1, <1>2, <1>8
  <2> QED BY <1>1, <1>5, <2>1, ShrinkKeeps
<1>10. SendersAlone'
  <2>1. \A n \in Share : share'[n].status \in {"pending", "failed"} => share[n].status \in {"pending", "failed"}
    BY <1>4, <1>8
  <2> QED BY <1>1, <1>5, <2>1, ShrinkAlone
<1> QED BY <1>1, <1>2, <1>5, <1>7, <1>8, <1>9, <1>10 DEF ShareCore, ShareRows, Shrinks

\* What may be sent again was not shared, and nobody is about to share it.

LEMMA FreeFacts ==
  ASSUME ShareInv, NEW m \in Share, share[m].status \in {"pending", "failed"}
  PROVE  shared[m] = 0 /\ \A u \in Task : ~IsSending(u, m)
<1>1. shared[m] \in Nat /\ shared[m] <= 1 /\ shared[m] # 1
  BY TypedRows DEF ShareInv, ShareCore, SharedOnce
<1>2. \A u \in Task : ~IsSending(u, m)
  BY DEF ShareInv, ShareCore, SendersAlone
<1> QED BY <1>1, <1>2

\* A lapsed claim of a batch is recovered, never taken over by a run of one operation.

LEMMA ClaimsRecover ==
  ASSUME ShareInv, NEW m \in Share, NEW r \in shareWaiting[m], r # "old",
         ~share[m].live, share[m].token \in Batch
  PROVE  BatchRecovers(m, r)
<1>1. PICK b \in Batch : b = share[m].token
  OBVIOUS
<1>2. /\ batch[b].status \in BatchOpen /\ m \in batch[b].members /\ share[m].batch = b
      /\ shareWaiting[m] \cup shareTaken[m] \subseteq {"old", "recover_prepare"}
  BY <1>1 DEF ShareInv, ShareCore, TokensAreOpen
<1>3. r = "recover_prepare"
  BY <1>2
<1>4. ASSUME NEW n \in batch[b].members
      PROVE  /\ share[n].status = batch[b].status /\ share[n].token = b /\ ~share[n].live
             /\ share[n].armed = (batch[b].status = "sending")
  <2>1. /\ share[n].status = batch[b].status /\ share[n].token = b
        /\ share[n].armed = (batch[b].status = "sending")
    BY <1>2 DEF ShareInv, ShareCore, MembersStandTogether
  <2>2. n \in Share
    BY TypedRows DEF BatchRowType
  <2>3. share[n].live = share[m].live
    BY <1>1, <2>1, <2>2 DEF ShareInv, ShareCore, TokensAreOpen
  <2> QED BY <2>1, <2>3
<1>5. Abandoned(b)
  BY <1>2, <1>4 DEF Abandoned
<1>6. share[m].status = batch[b].status
  BY <1>2, <1>4
<1> QED BY <1>2, <1>3, <1>5, <1>6, ShareNames DEF BatchRecovers

LEMMA RecoverKeeps ==
  ASSUME ShareInv, NEW m \in Share, NEW r \in shareWaiting[m], RecoverBatch(m, r), shared' = shared
  PROVE  ShareCore' /\ ShareRows' /\ ShareMail'
<1>1. /\ share[m].batch # None /\ Abandoned(share[m].batch)
      /\ FinishBatch(share[m].batch, IF share[m].status = "sending" THEN "UNKNOWN" ELSE "NOT_SENT", {})
      /\ UNCHANGED <<shareHolder, shareRun>>
  BY DEF RecoverBatch, BatchRecovers
<1>2. PICK b \in Batch : b = share[m].batch
  BY <1>1, TypedRows DEF ShareRowType
<1>3. PICK effect \in {"UNKNOWN", "NOT_SENT"} :
        effect = IF share[m].status = "sending" THEN "UNKNOWN" ELSE "NOT_SENT"
  OBVIOUS
<1>4. batch[b].status \in BatchOpen /\ m \in batch[b].members
  BY <1>1, <1>2 DEF ShareInv, ShareCore, TokensAreOpen, Abandoned
<1>5. \A n \in batch[b].members : n \in Share /\ share[n].status = share[m].status
  BY <1>4, OpenFacts
<1>6. effect = "NOT_SENT" => share[m].status = "pending"
  BY <1>3, <1>4, OpenFacts DEF BatchOpen
<1>7. \A n \in batch[b].members : effect \in Denials \/ n \in {} =>
        shared[n] = 0 /\ \A u \in Task : ~IsSending(u, n)
  BY <1>5, <1>6, FreeFacts DEF Denials
<1>8. Shrinks
  BY <1>1, UnchangedShrinks
<1>9. /\ FinishBatch(b, effect, {}) /\ effect \in Effects
  BY <1>1, <1>2, <1>3 DEF Effects
<1>10. /\ ShareCore' /\ ShareMail'
       /\ share' \in [Share -> ShareRowType] /\ batch' \in [Batch -> BatchRowType]
  BY <1>7, <1>8, <1>9, FinishKeeps
<1> QED BY <1>8, <1>10 DEF ShareRows, Shrinks

\* A run goes on where it was.

LEMMA RunKeeps ==
  ASSUME ShareInv, NEW t \in Task, NEW row \in ShareRunType,
         shareRun' = [shareRun EXCEPT ![t] = row], shareHolder' = shareHolder,
         row.batch = shareRun[t].batch, row.share = shareRun[t].share,
         \/ shareRun[t].at \in SinglePlaces /\ row.at \in SinglePlaces
         \/ shareRun[t].at \in BatchPlaces /\ row.at \in BatchPlaces,
         \A m \in Share :
           /\ share'[m].token = share[m].token
           /\ share[m].status = "pending" /\ shareHolder[m] \notin {None, t} => share'[m].status = "pending",
         \A b \in Batch :
           /\ batch'[b].members = batch[b].members
           /\ batch[b].status # "none" => batch'[b].status # "none"
           /\ batch'[b].status \in BatchOpen => batch'[b].status = batch[b].status \/ b = row.batch,
         WorksOnOne(t)', WorksOnBatch(t)'
  PROVE  HoldersWork' /\ RunsWork' /\ shareRun' \in [Task -> ShareRunType]
<1>1. /\ shareRun' \in [Task -> ShareRunType] /\ shareRun'[t] = row
      /\ \A u \in Task \ {t} : shareRun'[u] = shareRun[u]
  BY ShareTypes DEF ShareInv, ShareRows
<1>2. HoldersWork'
  <2> SUFFICES ASSUME NEW m \in Share, NEW u \in Task, shareHolder[m] = u
               PROVE  share'[m].token = "single" /\ shareRun'[u].at \in SinglePlaces /\ shareRun'[u].share = m
    BY DEF HoldersWork
  <2>1. share[m].token = "single" /\ shareRun[u].at \in SinglePlaces /\ shareRun[u].share = m
    BY DEF ShareInv, ShareCore, HoldersWork
  <2> QED BY <1>1, <2>1 DEF SinglePlaces, BatchPlaces
<1>3. \A u \in Task : WorksOnOne(u)'
  <2> SUFFICES ASSUME NEW u \in Task \ {t}, shareRun'[u].at \in SinglePlaces PROVE WorksOnOne(u)'
    BY DEF WorksOnOne
  <2>1. shareRun'[u] = shareRun[u] /\ WorksOnOne(u)
    BY <1>1 DEF ShareInv, ShareCore, RunsWork
  <2>2. shareRun[u].share \in Share
    BY <2>1 DEF WorksOnOne
  <2>3. shareHolder[shareRun[u].share] = u /\ share[shareRun[u].share].status = "pending" =>
          share'[shareRun[u].share].status = "pending"
    BY <2>2, ShareNames
  <2> QED BY <2>1, <2>2, <2>3 DEF WorksOnOne
<1>4. \A u \in Task : WorksOnBatch(u)'
  <2> SUFFICES ASSUME NEW u \in Task \ {t}, shareRun'[u].at \in BatchPlaces PROVE WorksOnBatch(u)'
    BY DEF WorksOnBatch
  <2>1. shareRun'[u] = shareRun[u] /\ WorksOnBatch(u)
    BY <1>1 DEF ShareInv, ShareCore, RunsWork
  <2>2. shareRun[u].batch \in Batch /\ batch[shareRun[u].batch].status # "none"
    BY <2>1 DEF WorksOnBatch
  <2>3. shareRun[u].batch # row.batch
    BY <2>2, ShareNames DEF ShareInv, ShareCore, RunsWork
  <2>4. /\ batch'[shareRun[u].batch].status # "none"
        /\ batch'[shareRun[u].batch].status \in BatchOpen =>
             batch'[shareRun[u].batch].status = batch[shareRun[u].batch].status
    BY <2>2, <2>3
  <2> QED BY <2>1, <2>2, <2>4 DEF WorksOnBatch, BatchOpen
<1>5. /\ \A u \in Task : shareRun'[u].at = "idle" => shareRun'[u].batch = None
      /\ \A u, v \in Task : shareRun'[u].batch # None /\ shareRun'[u].batch = shareRun'[v].batch => u = v
  <2>1. \A u \in Task : shareRun'[u].batch = shareRun[u].batch
    BY <1>1
  <2>2. \A u \in Task : shareRun'[u].at = "idle" => shareRun[u].at = "idle"
    BY <1>1 DEF SinglePlaces, BatchPlaces
  <2> QED BY <2>1, <2>2 DEF ShareInv, ShareCore, RunsWork
<1> QED BY <1>1, <1>2, <1>3, <1>4, <1>5 DEF RunsWork

\* ... and the others go on alone.

LEMMA RunAlone ==
  ASSUME ShareInv, NEW t \in Task, NEW row \in ShareRunType,
         shareRun' = [shareRun EXCEPT ![t] = row], shareHolder' = shareHolder,
         \A m \in Share : share'[m].status \in {"pending", "failed"} => share[m].status \in {"pending", "failed"},
         \A b \in Batch : /\ batch'[b].members = batch[b].members
                          /\ batch'[b].status \in BatchOpen => batch[b].status \in BatchOpen,
         \A m \in Share : IsSending(t, m)' =>
           /\ shared'[m] = 0 /\ share'[m].status \notin {"pending", "failed"}
           /\ \A u \in Task \ {t} : ~IsSending(u, m) /\ ~IsDenying(u, m),
         \A m \in Share : IsDenying(t, m)' =>
           shared'[m] = 0 /\ \A u \in Task \ {t} : ~IsSending(u, m),
         \A m \in Share : shared'[m] = shared[m] \/ \A u \in Task \ {t} : ~IsSending(u, m) /\ ~IsDenying(u, m)
  PROVE  SendersAlone'
<1>1. /\ shareRun'[t] = row /\ \A u \in Task \ {t} : shareRun'[u] = shareRun[u]
      /\ \A u \in Task : WorksOnBatch(u)
  BY ShareTypes DEF ShareInv, ShareRows, ShareCore, RunsWork
<1>2. ASSUME NEW u \in Task \ {t}, NEW m \in Share PROVE IsSending(u, m)' => IsSending(u, m)
  BY <1>1 DEF IsSending, WorksOnBatch, BatchPlaces
<1>3. ASSUME NEW u \in Task \ {t}, NEW m \in Share PROVE IsDenying(u, m)' => IsDenying(u, m)
  <2>1. shareRun'[u] = shareRun[u] /\ WorksOnBatch(u)
    BY SMTT(90), <1>1
  <2> QED BY <2>1 DEF IsDenying, WorksOnBatch, BatchPlaces
<1>4. ASSUME NEW m \in Share, IsDenying(t, m)' PROVE ~IsSending(t, m)'
  BY <1>4 DEF IsDenying, IsSending
<1>5. ASSUME NEW u \in Task, NEW m \in Share, IsSending(u, m)'
      PROVE  shared'[m] = 0 /\ share'[m].status \notin {"pending", "failed"}
  <2>1. CASE u = t
    BY <1>5, <2>1
  <2>2. CASE u # t
    BY <1>2, <1>5, <2>2 DEF ShareInv, ShareCore, SendersAlone
  <2> QED BY <2>1, <2>2
<1>6. ASSUME NEW u \in Task, NEW v \in Task, NEW m \in Share, IsSending(u, m)', IsSending(v, m)' PROVE u = v
  <2>1. CASE u = t \/ v = t
    BY <1>2, <1>6, <2>1
  <2>2. CASE u # t /\ v # t
    BY <1>2, <1>6, <2>2 DEF ShareInv, ShareCore, SendersAlone
  <2> QED BY <2>1, <2>2
<1>7. ASSUME NEW u \in Task, NEW m \in Share, IsDenying(u, m)'
      PROVE  shared'[m] = 0 /\ \A v \in Task : ~IsSending(v, m)'
  <2>1. CASE u = t
    BY <1>2, <1>4, <1>7, <2>1
  <2>2. CASE u # t
    <3>1. IsDenying(u, m)
      BY <1>3, <1>7, <2>2
    <3>2. shared[m] = 0 /\ \A v \in Task : ~IsSending(v, m)
      BY <3>1 DEF ShareInv, ShareCore, SendersAlone
    <3>3. shared'[m] = 0
      BY <2>2, <3>1, <3>2
    <3>4. ~IsSending(t, m)'
      BY <2>2, <3>1
    <3> QED BY <1>2, <3>2, <3>3, <3>4
  <2> QED BY <2>1, <2>2
<1> QED BY <1>5, <1>6, <1>7 DEF SendersAlone

\* A step of a run alone: it goes somewhere, with an outcome and refused targets.

LEMMA GoesRow ==
  ASSUME ShareInv, NEW t \in Task, NEW at \in SinglePlaces \cup BatchPlaces,
         NEW outcome \in {"none", "ACKNOWLEDGED", "UNKNOWN", "NOT_SENT", "FAILED", "found", "missing"},
         NEW rejected \in SUBSET Share, BatchGoes(t, at, outcome, rejected)
  PROVE  \E row \in ShareRunType :
           /\ shareRun' = [shareRun EXCEPT ![t] = row] /\ shareRun'[t] = row
           /\ row.at = at /\ row.outcome = outcome /\ row.rejected = rejected
           /\ row.batch = shareRun[t].batch /\ row.share = shareRun[t].share
           /\ row.kind = shareRun[t].kind
<1>1. shareRun \in [Task -> ShareRunType] /\ shareRun[t] \in ShareRunType
  BY ShareTypes, TypedRows DEF ShareInv, ShareRows
<1>2. PICK row : row = [shareRun[t] EXCEPT !.at = at, !.outcome = outcome, !.rejected = rejected]
  OBVIOUS
<1>3. /\ row \in ShareRunType /\ row.at = at /\ row.outcome = outcome /\ row.rejected = rejected
      /\ row.batch = shareRun[t].batch /\ row.share = shareRun[t].share /\ row.kind = shareRun[t].kind
  BY ZenonT(90), <1>1, <1>2 DEF ShareRunType, SinglePlaces, BatchPlaces
<1>4. shareRun' = [shareRun EXCEPT ![t] = row] /\ shareRun'[t] = row
  BY <1>1, <1>2 DEF BatchGoes
<1> QED BY <1>3, <1>4

\* A run before its request, or after it, with no claim changed.

LEMMA GoesKeeps ==
  ASSUME ShareInv, NEW t \in Task, NEW at \in SinglePlaces \cup BatchPlaces,
         NEW outcome \in {"none", "ACKNOWLEDGED", "UNKNOWN", "NOT_SENT", "FAILED", "found", "missing"},
         NEW rejected \in SUBSET Share, BatchGoes(t, at, outcome, rejected),
         UNCHANGED <<share, shareHolder, batch, shareMessages, shared>>,
         \/ shareRun[t].at \in SinglePlaces /\ at \in SinglePlaces
         \/ shareRun[t].at \in BatchPlaces /\ at \in BatchPlaces,
         WorksOnOne(t)', WorksOnBatch(t)',
         at \notin {"armed", "sending"},
         \A m \in Share : IsDenying(t, m)' => shared[m] = 0 /\ \A u \in Task \ {t} : ~IsSending(u, m)
  PROVE  ShareCore' /\ ShareRows' /\ ShareMail'
<1>1. PICK row \in ShareRunType :
           /\ shareRun' = [shareRun EXCEPT ![t] = row] /\ shareRun'[t] = row
           /\ row.at = at /\ row.outcome = outcome /\ row.rejected = rejected
           /\ row.batch = shareRun[t].batch /\ row.share = shareRun[t].share
  BY GoesRow
<1>2. HoldersWork' /\ RunsWork' /\ shareRun' \in [Task -> ShareRunType]
  BY <1>1, RunKeeps
<1>3. \A m \in Share : ~IsSending(t, m)'
  BY <1>1 DEF IsSending
<1>4. SendersAlone'
  BY <1>1, <1>3, RunAlone
<1>5. SharedOnce' /\ OneReceipt' /\ MembersStandTogether' /\ TokensAreOpen'
  BY DEF ShareInv, ShareCore, SharedOnce, OneReceipt, MembersStandTogether, TokensAreOpen,
     shareMessages
<1>6. ShareRows' /\ ShareMail'
  BY <1>2, ShareTypes DEF ShareInv, ShareRows, ShareMail, shareMessages
<1> QED BY <1>2, <1>4, <1>5, <1>6 DEF ShareCore

\* A batch that is not armed was not shared, as far as it is open.

LEMMA UnarmedFacts ==
  ASSUME ShareInv, NEW b \in Batch, batch[b].status \in BatchOpen, batch[b].status # "sending",
         NEW m \in batch[b].members
  PROVE  m \in Share /\ shared[m] = 0 /\ \A u \in Task : ~IsSending(u, m)
<1>1. m \in Share /\ share[m].status = "pending"
  BY OpenFacts DEF BatchOpen
<1> QED BY <1>1, FreeFacts

\* The run of a batch knows which one it is.

LEMMA BatchRun ==
  ASSUME ShareInv, NEW t \in Task, shareRun[t].at \in BatchPlaces
  PROVE  /\ shareRun[t] \in ShareRunType /\ WorksOnBatch(t)
         /\ shareRun[t].batch \in Batch /\ batch[shareRun[t].batch].status # "none"
         /\ batch[shareRun[t].batch].members \in SUBSET Share
         /\ \A u \in Task : shareRun[u].batch = shareRun[t].batch => u = t
<1>1. shareRun[t] \in ShareRunType /\ WorksOnBatch(t)
  BY TypedRows DEF ShareInv, ShareCore, RunsWork
<1>2. shareRun[t].batch \in Batch /\ batch[shareRun[t].batch].status # "none"
  BY <1>1 DEF WorksOnBatch
<1>3. batch[shareRun[t].batch].members \in SUBSET Share
  BY <1>2, TypedRows DEF BatchRowType
<1>4. \A u \in Task : shareRun[u].batch = shareRun[t].batch => u = t
  BY <1>2, ShareNames DEF ShareInv, ShareCore, RunsWork
<1> QED BY <1>1, <1>2, <1>3, <1>4

LEMMA UnarmedGoes ==
  ASSUME ShareInv, NEW t \in Task, shareRun[t].at \in {"batch", "sources"},
         NEW at \in {"sources", "done"}, NEW outcome \in Denials \cup {"none"},
         at = "done" => outcome \in Denials,
         NEW rejected \in SUBSET Share, BatchGoes(t, at, outcome, rejected),
         UNCHANGED <<share, shareHolder, batch, shareMessages, shared>>
  PROVE  ShareCore' /\ ShareRows' /\ ShareMail'
<1>1. /\ at \in BatchPlaces /\ at \in SinglePlaces \cup BatchPlaces /\ at \notin {"armed", "sending"}
      /\ outcome \in {"none", "ACKNOWLEDGED", "UNKNOWN", "NOT_SENT", "FAILED", "found", "missing"}
      /\ shareRun[t].at \in BatchPlaces
  BY DEF BatchPlaces, Denials
<1>2. PICK row \in ShareRunType :
           /\ shareRun' = [shareRun EXCEPT ![t] = row] /\ shareRun'[t] = row
           /\ row.at = at /\ row.outcome = outcome /\ row.rejected = rejected
           /\ row.batch = shareRun[t].batch /\ row.share = shareRun[t].share
  BY <1>1, GoesRow
<1>3. /\ WorksOnBatch(t) /\ shareRun[t].batch \in Batch
      /\ batch[shareRun[t].batch].status \notin {"none", "sending"}
  BY <1>1, BatchRun DEF WorksOnBatch
<1>4. WorksOnOne(t)'
  BY <1>2 DEF WorksOnOne, SinglePlaces
<1>5. WorksOnBatch(t)'
  BY <1>2, <1>3 DEF WorksOnBatch, Effects, Denials
<1>6. ASSUME NEW m \in Share, IsDenying(t, m)'
      PROVE  shared[m] = 0 /\ \A u \in Task \ {t} : ~IsSending(u, m)
  <2>1. batch[shareRun[t].batch].status \in BatchOpen /\ m \in batch[shareRun[t].batch].members
    BY <1>2, <1>6 DEF IsDenying
  <2> QED BY <1>3, <2>1, UnarmedFacts
<1> QED BY <1>1, <1>4, <1>5, <1>6, GoesKeeps

LEMMA ReadSourcesKeeps ==
  ASSUME ShareInv, NEW t \in Task, ReadSources(t)
  PROVE  ShareCore' /\ ShareRows' /\ ShareMail'
<1>1. /\ shareRun[t].at \in {"batch", "sources"} /\ shareRun[t].at \in BatchPlaces
      /\ UNCHANGED <<share, shareHolder, batch, shareMessages, shared>>
  BY DEF ReadSources, unsent, BatchPlaces
<1>2. CASE BatchGoes(t, "sources", "none", {})
  BY <1>1, <1>2, UnarmedGoes DEF Denials
<1>3. CASE \E gone \in SUBSET batch[shareRun[t].batch].members \ {{}} : BatchGoes(t, "done", "NOT_SENT", gone)
  <2>1. PICK gone \in SUBSET batch[shareRun[t].batch].members : BatchGoes(t, "done", "NOT_SENT", gone)
    BY <1>3
  <2>2. gone \in SUBSET Share
    BY <1>1, BatchRun
  <2> QED BY <1>1, <2>1, <2>2, UnarmedGoes DEF Denials
<1> QED BY <1>2, <1>3 DEF ReadSources

LEMMA BatchDeniedKeeps ==
  ASSUME ShareInv, NEW t \in Task, BatchDenied(t)
  PROVE  ShareCore' /\ ShareRows' /\ ShareMail'
<1>1. /\ shareRun[t].at \in {"batch", "sources"}
      /\ UNCHANGED <<share, shareHolder, batch, shareMessages, shared>>
  BY DEF BatchDenied, unsent
<1>2. PICK effect \in Denials : BatchGoes(t, "done", effect, {})
  BY DEF BatchDenied, Denials
<1>3. {} \in SUBSET Share
  OBVIOUS
<1> QED BY <1>1, <1>2, <1>3, UnarmedGoes

LEMMA LookShareKeeps ==
  ASSUME ShareInv, NEW t \in Task, LookShare(t)
  PROVE  ShareCore' /\ ShareRows' /\ ShareMail'
<1>1. /\ shareRun[t].at = "claimed"
      /\ UNCHANGED <<share, shareHolder, batch, shareMessages, shared>>
  BY DEF LookShare, unsent
<1>2. PICK outcome \in {"missing", "UNKNOWN", "found"} : BatchGoes(t, "looked", outcome, {})
  BY DEF LookShare
<1>3. /\ "looked" \in SinglePlaces /\ shareRun[t].at \in SinglePlaces
      /\ {} \in SUBSET Share
      /\ outcome \in {"none", "ACKNOWLEDGED", "UNKNOWN", "NOT_SENT", "FAILED", "found", "missing"}
  BY <1>1 DEF SinglePlaces
<1>4. PICK row \in ShareRunType :
           /\ shareRun' = [shareRun EXCEPT ![t] = row] /\ shareRun'[t] = row
           /\ row.at = "looked" /\ row.outcome = outcome /\ row.rejected = {}
           /\ row.batch = shareRun[t].batch /\ row.share = shareRun[t].share
  BY <1>2, <1>3, GoesRow
<1>5. WorksOnOne(t)
  BY DEF ShareInv, ShareCore, RunsWork
<1>6. WorksOnOne(t)' /\ WorksOnBatch(t)'
  BY <1>3, <1>4, <1>5 DEF WorksOnOne, WorksOnBatch, BatchPlaces
<1>7. \A m \in Share : ~IsDenying(t, m)'
  BY <1>4 DEF IsDenying
<1> QED BY <1>1, <1>2, <1>3, <1>6, <1>7, GoesKeeps

LEMMA ArmBatchKeeps ==
  ASSUME ShareInv, NEW t \in Task, ArmBatch(t)
  PROVE  ShareCore' /\ ShareRows' /\ ShareMail'
<1> DEFINE b == shareRun[t].batch
<1>1. /\ shareRun[t].at = "sources" /\ shareRun[t].at \in BatchPlaces
      /\ UNCHANGED <<shareHolder, shareMessages, shared>>
  BY DEF ArmBatch, BatchPlaces
<1>2. /\ WorksOnBatch(t) /\ b \in Batch /\ batch[b].status \notin {"none", "sending"}
      /\ batch[b].members \in SUBSET Share
      /\ \A u \in Task : shareRun[u].batch = b => u = t
  BY <1>1, BatchRun DEF WorksOnBatch
<1>3. CASE HeldBy(b) # batch[b].members
  <2>1. BatchGoes(t, "done", "FAILED", {}) /\ UNCHANGED <<share, batch>>
    BY <1>3 DEF ArmBatch
  <2> QED BY <1>1, <2>1, UnarmedGoes DEF Denials
<1>4. CASE HeldBy(b) = batch[b].members
  <2> DEFINE ms == batch[b].members
  <2>1. /\ share' = [m \in Share |-> IF m \in ms THEN [share[m] EXCEPT !.status = "sending", !.armed = TRUE]
                                     ELSE share[m]]
        /\ batch' = [batch EXCEPT ![b].status = "sending"]
        /\ BatchGoes(t, "sending", "none", {})
    BY ZenonT(90), <1>4 DEF ArmBatch
  <2>2. batch[b].status = "pending"
    <3>1. ms # {}
      BY <1>2 DEF ShareInv, ShareCore, TokensAreOpen
    <3>2. PICK n \in Share : share[n].token = b
      BY <1>2, <1>4, <3>1 DEF HeldBy
    <3>3. batch[b].status \in BatchOpen
      BY <1>2, <3>2 DEF ShareInv, ShareCore, TokensAreOpen
    <3> QED BY <1>2, <3>3 DEF BatchOpen
  <2>3. /\ batch[b].receipts = 0
        /\ \A m \in Share : m \in ms <=> share[m].token = b
        /\ \A m \in ms : share[m].status = "pending" /\ share[m].batch = b /\ shareHolder[m] = None
    BY <1>2, <2>2, OpenFacts DEF BatchOpen
  <2>4. PICK open : open = [batch[b] EXCEPT !.status = "sending"]
    OBVIOUS
  <2>5. /\ open \in BatchRowType /\ open.status = "sending" /\ open.members = ms /\ open.receipts = 0
        /\ batch' = [batch EXCEPT ![b] = open]
    BY ZenonT(90), <1>2, <2>1, <2>3, <2>4, TypedRows DEF BatchRowType, BatchStatus,
       BatchOpen
  <2>6. /\ batch' \in [Batch -> BatchRowType] /\ batch'[b] = open
        /\ \A c \in Batch \ {b} : batch'[c] = batch[c]
    BY <1>2, <2>5, ShareTypes DEF ShareInv, ShareRows
  <2>7. \A m \in Share \ ms : share'[m] = share[m]
    BY <2>1
  <2>8. ASSUME NEW m \in ms
        PROVE  /\ share'[m] \in ShareRowType /\ share'[m].status = "sending" /\ share'[m].armed = TRUE
               /\ share'[m].token = b /\ share'[m].batch = b /\ share'[m].live = share[m].live
    <3>1. m \in Share /\ share[m] \in ShareRowType /\ share[m].token = b /\ share[m].batch = b
      BY <1>2, <2>3, TypedRows
    <3>2. share'[m] = [share[m] EXCEPT !.status = "sending", !.armed = TRUE]
      BY <2>1, <3>1
    <3> QED BY <3>1, <3>2 DEF ShareRowType, ShareStatus, ShareDoubt
  <2> HIDE DEF b, ms
  <2>9. share' \in [Share -> ShareRowType]
    <3>1. \A m \in Share : share'[m] \in ShareRowType
      BY <2>7, <2>8, TypedRows
    <3>2. DOMAIN share' = Share /\ share' = [m \in Share |-> share'[m]]
      BY <2>1
    <3> QED BY <3>1, <3>2
  <2>10. \A m \in Share : /\ share'[m].token = share[m].token /\ share'[m].batch = share[m].batch
                          /\ share'[m].live = share[m].live
    BY <2>3, <2>7, <2>8
  <2>11. ASSUME NEW m \in ms
         PROVE  /\ m \in Share /\ shared[m] = 0
                /\ \A u \in Task \ {t} : ~IsSending(u, m) /\ ~IsDenying(u, m)
    <3>1. m \in Share /\ share[m].status = "pending" /\ share[m].token = b /\ shareHolder[m] = None
      BY <1>2, <2>3 DEF ms
    <3>2. shared[m] = 0 /\ \A u \in Task : ~IsSending(u, m)
      BY <3>1, FreeFacts
    <3>3. ASSUME NEW u \in Task \ {t}, IsDenying(u, m) PROVE FALSE
      <4>1. /\ shareRun[u].at = "done" /\ batch[shareRun[u].batch].status \in BatchOpen
            /\ m \in batch[shareRun[u].batch].members
        BY <3>1, <3>3, ShareNames DEF IsDenying
      <4>2. shareRun[u].batch \in Batch
        BY <4>1, BatchRun DEF BatchPlaces
      <4>3. share[m].token = shareRun[u].batch
        BY <4>1, <4>2, OpenFacts
      <4> QED BY <1>2, <3>1, <4>3 DEF b
    <3> QED BY <3>1, <3>2, <3>3
  <2>12. PICK row \in ShareRunType :
           /\ shareRun' = [shareRun EXCEPT ![t] = row] /\ shareRun'[t] = row
           /\ row.at = "sending" /\ row.outcome = "none" /\ row.rejected = {}
           /\ row.batch = b /\ row.share = shareRun[t].share
    <3>1. "sending" \in SinglePlaces \cup BatchPlaces
      BY DEF BatchPlaces
    <3>2. {} \in SUBSET Share
      OBVIOUS
    <3>3. PICK outcome \in {"none", "ACKNOWLEDGED", "UNKNOWN", "NOT_SENT", "FAILED", "found", "missing"} :
            outcome = "none"
      OBVIOUS
    <3>4. PICK at \in SinglePlaces \cup BatchPlaces : at = "sending"
      BY <3>1
    <3>6. BatchGoes(t, at, outcome, {})
      BY <2>1, <3>3, <3>4
    <3>5. \E row \in ShareRunType :
           /\ shareRun' = [shareRun EXCEPT ![t] = row] /\ shareRun'[t] = row
           /\ row.at = at /\ row.outcome = outcome /\ row.rejected = {}
           /\ row.batch = shareRun[t].batch /\ row.share = shareRun[t].share
           /\ row.kind = shareRun[t].kind
      BY <3>2, <3>6, GoesRow
    <3> QED BY <3>3, <3>4, <3>5 DEF b
  <2>13. WorksOnOne(t)' /\ WorksOnBatch(t)'
    BY <1>2, <2>5, <2>6, <2>12 DEF WorksOnOne, WorksOnBatch, SinglePlaces
  <2>14. \A c \in Batch : /\ batch'[c].members = batch[c].members
                          /\ batch[c].status # "none" => batch'[c].status # "none"
                          /\ batch'[c].status \in BatchOpen => batch'[c].status = batch[c].status \/ c = b
                          /\ batch'[c].status \in BatchOpen => batch[c].status \in BatchOpen
    BY <2>2, <2>5, <2>6 DEF BatchOpen, ms
  <2>15. HoldersWork' /\ RunsWork' /\ shareRun' \in [Task -> ShareRunType]
    <3>1. \A m \in Share :
            /\ share'[m].token = share[m].token
            /\ share[m].status = "pending" /\ shareHolder[m] \notin {None, t} => share'[m].status = "pending"
      BY <2>3, <2>7, <2>10
    <3>2. row.batch = shareRun[t].batch /\ row.at \in BatchPlaces /\ shareHolder' = shareHolder
      BY <1>1, <2>12 DEF b, BatchPlaces
    <3> QED BY ZenonT(90), <1>1, <2>12, <2>13, <2>14, <3>1, <3>2, RunKeeps
  <2>16. SendersAlone'
    <3>1. \A m \in Share : IsSending(t, m)' =>
            /\ shared'[m] = 0 /\ share'[m].status \notin {"pending", "failed"}
            /\ \A u \in Task \ {t} : ~IsSending(u, m) /\ ~IsDenying(u, m)
      <4> SUFFICES ASSUME NEW m \in Share, IsSending(t, m)'
                   PROVE  /\ shared'[m] = 0 /\ share'[m].status \notin {"pending", "failed"}
                          /\ \A u \in Task \ {t} : ~IsSending(u, m) /\ ~IsDenying(u, m)
        OBVIOUS
      <4>1. m \in ms
        BY <2>5, <2>6, <2>12 DEF IsSending
      <4> QED BY <1>1, <2>8, <2>11, <4>1
    <3>2. \A m \in Share : ~IsDenying(t, m)'
      BY <2>12 DEF IsDenying
    <3>3. \A m \in Share : share'[m].status \in {"pending", "failed"} => share[m].status \in {"pending", "failed"}
      BY <2>7, <2>8
    <3>4. shareHolder' = shareHolder /\ shared' = shared
      BY <1>1
    <3> QED BY <2>12, <2>14, <3>1, <3>2, <3>3, <3>4, RunAlone
  <2>17. SharedOnce'
    BY <1>1, <2>7, <2>8 DEF ShareInv, ShareCore, SharedOnce
  <2>18. OneReceipt'
    BY <2>5, <2>6 DEF ShareInv, ShareCore, OneReceipt, BatchOpen
  <2>19. MembersStandTogether'
    <3> SUFFICES ASSUME NEW c \in Batch, batch'[c].status \in BatchOpen, NEW m \in batch'[c].members
                 PROVE  /\ share'[m].status = batch'[c].status /\ share'[m].token = c
                        /\ share'[m].armed = (batch'[c].status = "sending")
      BY DEF MembersStandTogether
    <3>1. CASE c = b
      BY <2>5, <2>6, <2>8, <3>1
    <3>2. CASE c # b
      <4>1. batch'[c] = batch[c]
        BY <2>6, <3>2
      <4>2. m \in Share /\ share[m].token = c
        BY <4>1, TypedRows DEF ShareInv, ShareCore, MembersStandTogether, BatchRowType
      <4>3. share'[m] = share[m]
        BY <2>3, <2>7, <3>2, <4>2
      <4> QED BY <4>1, <4>3 DEF ShareInv, ShareCore, MembersStandTogether
    <3> QED BY <3>1, <3>2
  <2>20. TokensAreOpen'
    <3>1. shareWaiting' = shareWaiting /\ shareTaken' = shareTaken
      BY <1>1 DEF shareMessages
    <3>2. \A c \in Batch : batch[c].status \in BatchOpen => batch'[c].status \in BatchOpen
      BY <2>5, <2>6 DEF BatchOpen
    <3>3. \A c \in Batch : batch'[c].status # "none" => batch[c].status # "none"
      BY <2>2, <2>6
    <3>4. \A m \in Share : share[m].batch \in Batch \cup {None}
      BY TypedRows DEF ShareRowType
    <3> QED BY <2>10, <2>14, <3>1, <3>2, <3>3, <3>4 DEF ShareInv, ShareCore, TokensAreOpen
  <2>21. ShareRows' /\ ShareMail'
    BY <1>1, <2>6, <2>9, <2>15, ShareTypes DEF ShareInv, ShareRows, ShareMail, shareMessages
  <2> QED BY <2>15, <2>16, <2>17, <2>18, <2>19, <2>20, <2>21, SMTT(90) DEF ShareCore
<1> QED BY SMTT(90), <1>3, <1>4

\* The request is over: what took effect was asked for by this run alone.

LEMMA PostKeeps ==
  ASSUME ShareInv, NEW t \in Task, NEW at \in SinglePlaces \cup BatchPlaces,
         NEW outcome \in Effects, NEW rejected \in SUBSET Share,
         BatchGoes(t, at, outcome, rejected),
         UNCHANGED <<share, shareHolder, batch, shareMessages>>,
         \/ shareRun[t].at = "armed" /\ at = "receipt"
         \/ shareRun[t].at = "sending" /\ at = "done",
         \A m \in Share : \/ shared'[m] = shared[m]
                          \/ IsSending(t, m) /\ shared'[m] = shared[m] + 1,
         shared' \in [Share -> Nat],
         \A m \in Share : IsSending(t, m) /\ (outcome \in Denials \/ m \in rejected) => shared'[m] = shared[m]
  PROVE  ShareCore' /\ ShareRows' /\ ShareMail'
<1>1. PICK row \in ShareRunType :
           /\ shareRun' = [shareRun EXCEPT ![t] = row] /\ shareRun'[t] = row
           /\ row.at = at /\ row.outcome = outcome /\ row.rejected = rejected
           /\ row.batch = shareRun[t].batch /\ row.share = shareRun[t].share
  <2>1. outcome \in {"none", "ACKNOWLEDGED", "UNKNOWN", "NOT_SENT", "FAILED", "found", "missing"}
    BY DEF Effects
  <2> QED BY <2>1, GoesRow
<1>2. \/ shareRun[t].at \in SinglePlaces /\ row.at \in SinglePlaces
      \/ shareRun[t].at \in BatchPlaces /\ row.at \in BatchPlaces
  BY <1>1 DEF SinglePlaces, BatchPlaces
<1>3. WorksOnOne(t) /\ WorksOnBatch(t)
  BY DEF ShareInv, ShareCore, RunsWork
<1>4. WorksOnOne(t)'
  BY <1>1, <1>3 DEF WorksOnOne, SinglePlaces, BatchPlaces
<1>5. WorksOnBatch(t)'
  BY <1>1, <1>3 DEF WorksOnBatch, SinglePlaces, BatchPlaces
<1>6. HoldersWork' /\ RunsWork' /\ shareRun' \in [Task -> ShareRunType]
  BY <1>1, <1>2, <1>4, <1>5, RunKeeps
<1>7. ASSUME NEW m \in Share, IsSending(t, m)
      PROVE  /\ shared[m] = 0 /\ share[m].status \notin {"pending", "failed"}
             /\ \A u \in Task \ {t} : ~IsSending(u, m) /\ ~IsDenying(u, m)
  BY <1>7 DEF ShareInv, ShareCore, SendersAlone
<1>8. \A m \in Share : ~IsSending(t, m)'
  BY <1>1 DEF IsSending
<1>9. ASSUME NEW m \in Share, IsDenying(t, m)'
      PROVE  IsSending(t, m) /\ (outcome \in Denials \/ m \in rejected)
  <2>1. CASE at = "receipt"
    BY <1>1, <1>9, <2>1 DEF IsDenying, IsSending
  <2>2. CASE at = "done"
    BY <1>1, <1>9, <2>2 DEF IsDenying, IsSending
  <2> QED BY <2>1, <2>2
<1>10. SendersAlone'
  <2>1. \A m \in Share : IsDenying(t, m)' => shared'[m] = 0 /\ \A u \in Task \ {t} : ~IsSending(u, m)
    BY <1>7, <1>9
  <2>2. \A m \in Share : shared'[m] = shared[m] \/ \A u \in Task \ {t} : ~IsSending(u, m) /\ ~IsDenying(u, m)
    BY <1>7
  <2> QED BY <1>1, <1>8, <2>1, <2>2, RunAlone
<1>11. SharedOnce'
  BY <1>7, TypedRows DEF ShareInv, ShareCore, SharedOnce
<1>12. OneReceipt' /\ MembersStandTogether' /\ TokensAreOpen'
  BY DEF ShareInv, ShareCore, OneReceipt, MembersStandTogether, TokensAreOpen, shareMessages
<1>13. ShareRows' /\ ShareMail'
  BY <1>6, ShareTypes DEF ShareInv, ShareRows, ShareMail, shareMessages
<1> QED BY <1>6, <1>10, <1>11, <1>12, <1>13 DEF ShareCore

LEMMA PostBatchKeeps ==
  ASSUME ShareInv, NEW t \in Task, PostBatch(t)
  PROVE  ShareCore' /\ ShareRows' /\ ShareMail' /\ shared' \in [Share -> Nat]
<1> DEFINE ms == batch[shareRun[t].batch].members
<1>1. /\ shareRun[t].at = "sending" /\ UNCHANGED <<share, shareHolder, batch, shareMessages>>
      /\ \/ BatchGoes(t, "done", "NOT_SENT", {}) /\ UNCHANGED shared
         \/ \E done \in SUBSET ms :
              /\ shared' = [m \in Share |-> IF m \in done THEN shared[m] + 1 ELSE shared[m]]
              /\ \/ BatchGoes(t, "done", "UNKNOWN", {})
                 \/ BatchGoes(t, "done", "ACKNOWLEDGED", ms \ done)
  BY DEF PostBatch
<1>2. /\ ms \in SUBSET Share /\ "done" \in SinglePlaces \cup BatchPlaces /\ {} \in SUBSET Share
      /\ \A m \in Share : IsSending(t, m) <=> m \in ms
  BY <1>1, BatchRun DEF BatchPlaces, IsSending
<1>3. shared \in [Share -> Nat]
  BY ShareTypes DEF ShareInv
<1> HIDE DEF ms
<1>4. CASE BatchGoes(t, "done", "NOT_SENT", {}) /\ UNCHANGED shared
  <2>1. "NOT_SENT" \in Effects
    BY DEF Effects
  <2>2. /\ \A m \in Share : shared'[m] = shared[m]
        /\ shared' \in [Share -> Nat]
    BY <1>3, <1>4
  <2> QED BY <1>1, <1>2, <1>4, <2>1, <2>2, PostKeeps
<1>5. ASSUME NEW done \in SUBSET ms,
             shared' = [m \in Share |-> IF m \in done THEN shared[m] + 1 ELSE shared[m]]
      PROVE  /\ shared' \in [Share -> Nat]
             /\ \A m \in Share : \/ shared'[m] = shared[m]
                                 \/ IsSending(t, m) /\ shared'[m] = shared[m] + 1
             /\ \A m \in Share \ done : shared'[m] = shared[m]
  BY <1>2, <1>3, <1>5
<1>6. ASSUME NEW done \in SUBSET ms, BatchGoes(t, "done", "UNKNOWN", {}),
             shared' = [m \in Share |-> IF m \in done THEN shared[m] + 1 ELSE shared[m]]
      PROVE  ShareCore' /\ ShareRows' /\ ShareMail' /\ shared' \in [Share -> Nat]
  <2>1. "UNKNOWN" \in Effects /\ "UNKNOWN" \notin Denials
    BY DEF Effects, Denials
  <2>2. \A m \in Share : IsSending(t, m) /\ ("UNKNOWN" \in Denials \/ m \in {}) => shared'[m] = shared[m]
    BY <2>1
  <2> QED BY <1>1, <1>2, <1>5, <1>6, <2>1, <2>2, PostKeeps
<1>7. ASSUME NEW done \in SUBSET ms, BatchGoes(t, "done", "ACKNOWLEDGED", ms \ done),
             shared' = [m \in Share |-> IF m \in done THEN shared[m] + 1 ELSE shared[m]]
      PROVE  ShareCore' /\ ShareRows' /\ ShareMail' /\ shared' \in [Share -> Nat]
  <2>1. "ACKNOWLEDGED" \in Effects /\ "ACKNOWLEDGED" \notin Denials /\ ms \ done \in SUBSET Share
    BY <1>2 DEF Effects, Denials
  <2>2. \A m \in Share : IsSending(t, m) /\ ("ACKNOWLEDGED" \in Denials \/ m \in ms \ done) => shared'[m] = shared[m]
    BY <1>5, <1>7, <2>1
  <2> QED BY <1>1, <1>2, <1>5, <1>7, <2>1, <2>2, PostKeeps
<1> QED BY <1>1, <1>4, <1>6, <1>7

LEMMA PostSingleKeeps ==
  ASSUME ShareInv, NEW t \in Task, PostSingle(t)
  PROVE  ShareCore' /\ ShareRows' /\ ShareMail' /\ shared' \in [Share -> Nat]
<1> DEFINE m == shareRun[t].share
<1>1. /\ shareRun[t].at = "armed" /\ UNCHANGED <<share, shareHolder, batch, shareMessages>>
      /\ \/ /\ shared' = [shared EXCEPT ![m] = @ + 1]
            /\ \E outcome \in {"ACKNOWLEDGED", "UNKNOWN"} : BatchGoes(t, "receipt", outcome, {})
         \/ /\ \E outcome \in {"UNKNOWN", "NOT_SENT", "FAILED"} : BatchGoes(t, "receipt", outcome, {})
            /\ UNCHANGED shared
  BY DEF PostSingle
<1>2. /\ "receipt" \in SinglePlaces \cup BatchPlaces /\ {} \in SUBSET Share
      /\ IsSending(t, m) /\ m \in Share
  BY <1>1 DEF SinglePlaces, IsSending, ShareInv, ShareCore, RunsWork, WorksOnOne
<1>3. shared \in [Share -> Nat]
  BY ShareTypes DEF ShareInv
<1> HIDE DEF m
<1>4. ASSUME NEW outcome \in {"ACKNOWLEDGED", "UNKNOWN"}, BatchGoes(t, "receipt", outcome, {}),
             shared' = [shared EXCEPT ![m] = @ + 1]
      PROVE  ShareCore' /\ ShareRows' /\ ShareMail' /\ shared' \in [Share -> Nat]
  <2>1. outcome \in Effects /\ outcome \notin Denials
    BY DEF Effects, Denials
  <2>2. /\ shared' \in [Share -> Nat]
        /\ \A n \in Share : \/ shared'[n] = shared[n]
                            \/ IsSending(t, n) /\ shared'[n] = shared[n] + 1
    <3>1. shared' \in [Share -> Nat]
      BY <1>2, <1>3, <1>4
    <3>2. \A n \in Share : shared'[n] = shared[n] \/ (n = m /\ shared'[n] = shared[n] + 1)
      BY <1>2, <1>3, <1>4
    <3> QED BY <1>2, <3>1, <3>2
  <2>3. \A n \in Share : IsSending(t, n) /\ (outcome \in Denials \/ n \in {}) => shared'[n] = shared[n]
    BY <2>1
  <2> QED BY <1>1, <1>2, <1>4, <2>1, <2>2, <2>3, PostKeeps
<1>5. ASSUME NEW outcome \in {"UNKNOWN", "NOT_SENT", "FAILED"}, BatchGoes(t, "receipt", outcome, {}),
             UNCHANGED shared
      PROVE  ShareCore' /\ ShareRows' /\ ShareMail' /\ shared' \in [Share -> Nat]
  <2>1. outcome \in Effects
    BY DEF Effects
  <2>2. /\ shared' \in [Share -> Nat]
        /\ \A n \in Share : shared'[n] = shared[n]
    BY <1>3, <1>5
  <2> QED BY <1>1, <1>2, <1>5, <2>1, <2>2, PostKeeps
<1> QED BY <1>1, <1>4, <1>5

LEMMA EndBatchKeeps ==
  ASSUME ShareInv, NEW t \in Task, EndBatch(t)
  PROVE  ShareCore' /\ ShareRows' /\ ShareMail'
<1>1. /\ shareRun[t].at = "done" /\ ShareRunEnds(t) /\ shared' = shared
      /\ \/ FinishBatch(shareRun[t].batch, shareRun[t].outcome, shareRun[t].rejected)
         \/ UNCHANGED <<share, batch, shareMessages>>
  BY DEF EndBatch
<1>2. Shrinks
  BY <1>1, EndShrinks
<1>3. CASE UNCHANGED <<share, batch, shareMessages>>
  <2>1. \A m \in Share : share[m].token \in Batch =>
          shareWaiting'[m] \cup shareTaken'[m] \subseteq {"old", "recover_prepare"}
    BY <1>3 DEF ShareInv, ShareCore, TokensAreOpen, shareMessages
  <2>2. ShareMail'
    BY <1>3, ShareTypes DEF ShareInv, ShareMail, shareMessages
  <2> QED BY <1>1, <1>2, <1>3, <2>1, <2>2, SameRowsKeep
<1>4. CASE FinishBatch(shareRun[t].batch, shareRun[t].outcome, shareRun[t].rejected)
  <2>1. /\ shareRun[t].batch \in Batch /\ shareRun[t].outcome \in Effects
        /\ shareRun[t].rejected \in SUBSET Share
        /\ batch[shareRun[t].batch].members \in SUBSET Share
    BY SMTT(90), <1>1, BatchRun DEF BatchPlaces, WorksOnBatch, ShareRunType
  <2>2. batch[shareRun[t].batch].status \in BatchOpen
    BY <1>4 DEF FinishBatch
  <2>3. ASSUME NEW m \in batch[shareRun[t].batch].members,
               shareRun[t].outcome \in Denials \/ m \in shareRun[t].rejected
        PROVE  shared[m] = 0 /\ \A u \in Task : ~IsSending(u, m)
    <3>1. m \in Share /\ IsDenying(t, m)
      BY SMTT(90), <1>1, <2>1, <2>2, <2>3 DEF IsDenying
    <3> QED BY <3>1 DEF ShareInv, ShareCore, SendersAlone
  <2>4. /\ ShareCore' /\ ShareMail'
        /\ share' \in [Share -> ShareRowType] /\ batch' \in [Batch -> BatchRowType]
    BY <1>1, <1>2, <1>4, <2>1, <2>3, FinishKeeps
  <2> QED BY <1>2, <2>4 DEF ShareRows, Shrinks
<1> QED BY <1>1, <1>3, <1>4

LEMMA EndingKeeps ==
  ASSUME ShareInv, NEW t \in Task, ShareRunEnds(t), UNCHANGED <<share, batch, shareMessages, shared>>
  PROVE  ShareCore' /\ ShareRows' /\ ShareMail'
<1>1. Shrinks
  BY EndShrinks
<1>2. \A m \in Share : share[m].token \in Batch =>
        shareWaiting'[m] \cup shareTaken'[m] \subseteq {"old", "recover_prepare"}
  BY DEF ShareInv, ShareCore, TokensAreOpen, shareMessages
<1>3. ShareMail'
  BY ShareTypes DEF ShareInv, ShareMail, shareMessages
<1> QED BY <1>1, <1>2, <1>3, SameRowsKeep

\* What a run of one operation knows of the claim it still has.

LEMMA OwnedFacts ==
  ASSUME ShareInv, NEW t \in Task, shareRun[t].at \in SinglePlaces
  PROVE  /\ shareRun[t].share \in Share /\ WorksOnOne(t)
         /\ ShareOwned(t) => /\ share[shareRun[t].share].token = "single"
                             /\ share[shareRun[t].share].token \notin Batch
                             /\ \A b \in Batch : batch[b].status \in BatchOpen => shareRun[t].share \notin batch[b].members
<1>1. shareRun[t].share \in Share /\ WorksOnOne(t)
  BY DEF ShareInv, ShareCore, RunsWork, WorksOnOne
<1>2. ShareOwned(t) => share[shareRun[t].share].token = "single"
  BY <1>1 DEF ShareInv, ShareCore, HoldersWork, ShareOwned
<1>3. ShareOwned(t) => share[shareRun[t].share].token \notin Batch
  BY <1>2, ShareNames
<1>4. ASSUME ShareOwned(t), NEW b \in Batch, batch[b].status \in BatchOpen
      PROVE  shareRun[t].share \notin batch[b].members
  BY <1>1, <1>3, <1>4, OpenFacts
<1> QED BY <1>1, <1>2, <1>3, <1>4

LEMMA ArmSingleKeeps ==
  ASSUME ShareInv, NEW t \in Task, ArmSingle(t)
  PROVE  ShareCore' /\ ShareRows' /\ ShareMail'
<1> DEFINE m == shareRun[t].share
<1>1. /\ shareRun[t].at = "claimed" /\ shareRun[t].kind = "prepare" /\ shareRun[t].at \in SinglePlaces
      /\ UNCHANGED <<batch, shareMessages, shared>>
  BY DEF ArmSingle, SinglePlaces
<1>2. /\ m \in Share /\ WorksOnOne(t)
      /\ ShareOwned(t) => /\ share[m].token = "single" /\ share[m].token \notin Batch
                          /\ \A b \in Batch : batch[b].status \in BatchOpen => m \notin batch[b].members
      /\ shareHolder[m] = t <=> ShareOwned(t)
  BY <1>1, OwnedFacts DEF ShareOwned
<1>3. ShareOwned(t) => /\ share[m].status = "pending" /\ shared[m] = 0
                       /\ \A u \in Task : ~IsSending(u, m)
  <2>1. ShareOwned(t) => share[m].status = "pending"
    BY <1>1, <1>2 DEF WorksOnOne
  <2> QED BY <1>2, <2>1, FreeFacts
<1>4. CASE ~ShareOwned(t) /\ ShareRunEnds(t) /\ UNCHANGED share
  BY <1>1, <1>4, EndingKeeps
<1>5. CASE /\ \E outcome \in {"NOT_SENT", "FAILED"} : BatchGoes(t, "receipt", outcome, {})
           /\ UNCHANGED <<share, shareHolder>>
  <2>1. PICK outcome \in {"NOT_SENT", "FAILED"} : BatchGoes(t, "receipt", outcome, {})
    BY <1>5
  <2>2. /\ "receipt" \in SinglePlaces /\ {} \in SUBSET Share
        /\ outcome \in {"none", "ACKNOWLEDGED", "UNKNOWN", "NOT_SENT", "FAILED", "found", "missing"}
    BY DEF SinglePlaces
  <2>3. PICK row \in ShareRunType :
           /\ shareRun' = [shareRun EXCEPT ![t] = row] /\ shareRun'[t] = row
           /\ row.at = "receipt" /\ row.outcome = outcome /\ row.rejected = {}
           /\ row.batch = shareRun[t].batch /\ row.share = m
    BY <2>1, <2>2, GoesRow
  <2>4. WorksOnOne(t)' /\ WorksOnBatch(t)'
    BY <1>1, <1>2, <2>3 DEF WorksOnOne, WorksOnBatch, BatchPlaces, SinglePlaces, Effects
  <2>5. \A n \in Share : IsDenying(t, n)' => shared[n] = 0 /\ \A u \in Task \ {t} : ~IsSending(u, n)
    BY <1>2, <1>3, <1>5, <2>3 DEF IsDenying
  <2> QED BY <1>1, <1>5, <2>1, <2>2, <2>4, <2>5, GoesKeeps
<1>6. CASE /\ ShareOwned(t)
           /\ share' = [share EXCEPT ![m].status = "sending", ![m].armed = TRUE]
           /\ BatchGoes(t, "armed", "none", {}) /\ UNCHANGED shareHolder
  <2>1. PICK row : row = [share[m] EXCEPT !.status = "sending", !.armed = TRUE]
    BY SMTT(90)
  <2>2. /\ row \in ShareRowType /\ share' = [share EXCEPT ![m] = row]
        /\ row.status = "sending" /\ row.token = share[m].token /\ row.batch = share[m].batch
    <3>1. share \in [Share -> ShareRowType] /\ share[m] \in ShareRowType
      BY <1>2, ShareTypes, TypedRows DEF ShareInv, ShareRows
    <3> QED BY ZenonT(90), <1>2, <1>6, <2>1, <3>1 DEF ShareRowType, ShareStatus, ShareDoubt
  <2>3. PICK run \in ShareRunType :
           /\ shareRun' = [shareRun EXCEPT ![t] = run] /\ shareRun'[t] = run
           /\ run.at = "armed" /\ run.outcome = "none" /\ run.rejected = {}
           /\ run.batch = shareRun[t].batch /\ run.share = m
    <3>1. PICK outcome \in {"none", "ACKNOWLEDGED", "UNKNOWN", "NOT_SENT", "FAILED", "found", "missing"} :
            outcome = "none"
      OBVIOUS
    <3>2. PICK at \in SinglePlaces \cup BatchPlaces : at = "armed"
      BY DEF SinglePlaces
    <3>3. BatchGoes(t, at, outcome, {}) /\ {} \in SUBSET Share
      BY <1>6, <3>1, <3>2
    <3>4. \E run \in ShareRunType :
           /\ shareRun' = [shareRun EXCEPT ![t] = run] /\ shareRun'[t] = run
           /\ run.at = at /\ run.outcome = outcome /\ run.rejected = {}
           /\ run.batch = shareRun[t].batch /\ run.share = shareRun[t].share
      BY <3>3, GoesRow
    <3> QED BY <3>1, <3>2, <3>4
  <2> HIDE DEF m
  <2>4. batch \in [Batch -> BatchRowType]
    BY ShareTypes DEF ShareInv, ShareRows
  <2>5. /\ SharedOnce' /\ OneReceipt' /\ MembersStandTogether' /\ TokensAreOpen'
        /\ share' \in [Share -> ShareRowType] /\ share'[m] = row
        /\ \A n \in Share \ {m} : share'[n] = share[n]
    <3>1. \A b \in Batch : /\ batch'[b].members = batch[b].members
                           /\ batch'[b].receipts = batch[b].receipts
                           /\ batch'[b].status = batch[b].status
      BY <1>1
    <3>2. \A n \in Share : shareWaiting'[n] = shareWaiting[n] /\ shareTaken'[n] = shareTaken[n]
      BY <1>1 DEF shareMessages
    <3>3. batch' \in [Batch -> BatchRowType] /\ shared' = shared
      BY <1>1, <2>4
    <3>4. share[m].token \notin Batch /\ row.status \notin {"pending", "failed"}
      BY <1>2, <1>6, <2>2
    <3> QED BY ZenonT(90), <1>2, <2>2, <3>1, <3>2, <3>3, <3>4, OneRowKeeps
  <2>6. WorksOnOne(t)' /\ WorksOnBatch(t)'
    BY SMTT(90), <1>1, <1>2, <2>3 DEF WorksOnOne, WorksOnBatch, BatchPlaces, SinglePlaces, m
  <2>7. HoldersWork' /\ RunsWork' /\ shareRun' \in [Task -> ShareRunType]
    <3>1. \A n \in Share :
           /\ share'[n].token = share[n].token
           /\ share[n].status = "pending" /\ shareHolder[n] \notin {None, t} => share'[n].status = "pending"
      BY <1>2, <1>6, <2>2, <2>5
    <3>2. /\ run.at \in SinglePlaces /\ run.share = shareRun[t].share
          /\ \A b \in Batch : batch'[b] = batch[b]
      BY <1>1, <2>3 DEF SinglePlaces, m
    <3> QED BY <1>1, <1>6, <2>3, <2>6, <3>1, <3>2, RunKeeps
  <2>8. SendersAlone'
    <3>1. \A u \in Task \ {t} : ~IsSending(u, m) /\ ~IsDenying(u, m)
      <4> SUFFICES ASSUME NEW u \in Task \ {t}, IsDenying(u, m) PROVE FALSE
        BY <1>3, <1>6
      <4>1. shareHolder[m] # u
        BY <1>2, <1>6
      <4>2. /\ shareRun[u].at = "done" /\ batch[shareRun[u].batch].status \in BatchOpen
            /\ m \in batch[shareRun[u].batch].members
        BY <4>1 DEF IsDenying
      <4>3. shareRun[u].batch \in Batch
        BY <4>2, BatchRun DEF BatchPlaces
      <4> QED BY <1>2, <1>6, <4>2, <4>3
    <3>2. \A n \in Share : IsSending(t, n)' => n = m
      BY <2>3 DEF IsSending
    <3>3. \A n \in Share : ~IsDenying(t, n)'
      BY <2>3 DEF IsDenying
    <3>4. \A n \in Share : share'[n].status \in {"pending", "failed"} => share[n].status \in {"pending", "failed"}
      BY <2>2, <2>5
    <3>5. \A n \in Share : IsSending(t, n)' =>
            /\ shared'[n] = 0 /\ share'[n].status \notin {"pending", "failed"}
            /\ \A u \in Task \ {t} : ~IsSending(u, n) /\ ~IsDenying(u, n)
      BY <1>1, <1>2, <1>3, <1>6, <2>2, <2>5, <3>1, <3>2
    <3>6. shared' = shared /\ shareHolder' = shareHolder /\ \A b \in Batch : batch'[b] = batch[b]
      BY <1>1, <1>6
    <3> QED BY <2>3, <3>3, <3>4, <3>5, <3>6, RunAlone
  <2>9. ShareRows' /\ ShareMail'
    BY <1>1, <1>6, <2>4, <2>5, <2>7, ShareTypes DEF ShareInv, ShareRows, ShareMail,
       shareMessages
  <2> QED BY <2>5, <2>7, <2>8, <2>9 DEF ShareCore
<1> QED BY <1>4, <1>5, <1>6, Zenon DEF ArmSingle

LEMMA KillShareKeeps ==
  ASSUME ShareInv, NEW t \in Task, KillShare(t)
  PROVE  ShareCore' /\ ShareRows' /\ ShareMail'
BY EndingKeeps DEF KillShare

LEMMA RepairShareKeeps ==
  ASSUME ShareInv, NEW m \in Share, RepairShare(m)
  PROVE  ShareCore' /\ ShareRows' /\ ShareMail'
<1>1. PICK r \in shareTaken[m] : /\ shareWaiting' = [shareWaiting EXCEPT ![m] = @ \cup {r}]
                                 /\ shareTaken' = [shareTaken EXCEPT ![m] = @ \ {r}]
  BY DEF RepairShare
<1>2. UNCHANGED <<share, shareHolder, batch, shareRun, shared>>
  BY DEF RepairShare
<1>3. ShareMail /\ r \in ShareMessage
  BY TypedRows, ShareTypes DEF ShareInv
<1>4. /\ ShareMail'
      /\ \A n \in Share : shareWaiting'[n] \cup shareTaken'[n] \subseteq shareWaiting[n] \cup shareTaken[n]
  BY <1>1, <1>3 DEF ShareMail
<1>5. \A n \in Share : share[n].token \in Batch =>
        shareWaiting'[n] \cup shareTaken'[n] \subseteq {"old", "recover_prepare"}
  <2> SUFFICES ASSUME NEW n \in Share, share[n].token \in Batch
               PROVE  shareWaiting'[n] \cup shareTaken'[n] \subseteq {"old", "recover_prepare"}
    OBVIOUS
  <2>1. shareWaiting[n] \cup shareTaken[n] \subseteq {"old", "recover_prepare"}
    BY DEF ShareInv, ShareCore, TokensAreOpen
  <2> QED BY <1>4, <2>1
<1> QED BY <1>2, <1>4, <1>5, UnchangedShrinks, SameRowsKeep

LEMMA ShareLapseKeeps ==
  ASSUME ShareInv, NEW m \in Share, ShareClaimLapses(m)
  PROVE  ShareCore' /\ ShareRows' /\ ShareMail'
<1>1. /\ UNCHANGED <<shareHolder, batch, shareMessages, shareRun, shared>>
      /\ share' = [n \in Share |-> IF n = m \/ (share[n].token = share[m].token /\ share[m].token \in Batch)
                                   THEN [share[n] EXCEPT !.live = FALSE] ELSE share[n]]
  BY DEF ShareClaimLapses
<1>2. \A n \in Share : share[n] \in ShareRowType
  BY TypedRows
<1>3. ASSUME NEW n \in Share
      PROVE  /\ share'[n] \in ShareRowType /\ share'[n].status = share[n].status
             /\ share'[n].token = share[n].token /\ share'[n].armed = share[n].armed
             /\ share'[n].batch = share[n].batch
             /\ share'[n].live = (share[n].live /\ ~(n = m \/ (share[n].token = share[m].token /\ share[m].token \in Batch)))
  BY <1>1, <1>2 DEF ShareRowType
<1>4. share' \in [Share -> ShareRowType]
  <2>1. DOMAIN share' = Share /\ share' = [n \in Share |-> share'[n]]
    BY <1>1
  <2> QED BY <1>3, <2>1
<1>5. Shrinks
  BY <1>1, UnchangedShrinks
<1>6. HoldersWork' /\ RunsWork'
  BY <1>1, <1>3, <1>5, ShrinkKeeps
<1>7. SendersAlone'
  <2>1. \A n \in Share : share'[n].status \in {"pending", "failed"} => share[n].status \in {"pending", "failed"}
    BY <1>3
  <2> QED BY <1>1, <1>5, <2>1, ShrinkAlone
<1>8. SharedOnce' /\ OneReceipt'
  BY <1>1, <1>3 DEF ShareInv, ShareCore, SharedOnce, OneReceipt
<1>9. MembersStandTogether'
  <2>1. \A b \in Batch : batch[b].members \in SUBSET Share
    BY TypedRows DEF BatchRowType
  <2> QED BY <1>1, <1>3, <2>1 DEF ShareInv, ShareCore, MembersStandTogether
<1>10. TokensAreOpen'
  <2>1. \A n, k \in Share : share'[n].token \in Batch /\ share'[k].token = share'[n].token =>
          share'[k].live = share'[n].live
    <3> SUFFICES ASSUME NEW n \in Share, NEW k \in Share, share[n].token \in Batch,
                        share[k].token = share[n].token
                 PROVE  share'[k].live = share'[n].live
      BY <1>3
    <3>0. TokensAreOpen
      BY DEF ShareInv, ShareCore
    <3>1. share[k].live = share[n].live
      BY <3>0, Zenon DEF TokensAreOpen
    <3>2. (k = m \/ (share[k].token = share[m].token /\ share[m].token \in Batch)) <=>
          (n = m \/ (share[n].token = share[m].token /\ share[m].token \in Batch))
      OBVIOUS
    <3>3. share[k].live \in BOOLEAN /\ share[n].live \in BOOLEAN
      BY <1>2 DEF ShareRowType
    <3> QED BY <1>3, <3>1, <3>2, <3>3
  <2>2. shareWaiting' = shareWaiting /\ shareTaken' = shareTaken
    BY <1>1 DEF shareMessages
  <2>3. \A n \in Share : share'[n].token = share[n].token /\ share'[n].batch = share[n].batch
    BY <1>3
  <2>4. TokensAreOpen /\ batch' = batch
    BY <1>1 DEF ShareInv, ShareCore
  <2>5. \A n \in Share : share'[n].token \in Batch =>
         /\ batch'[share'[n].token].status \in BatchOpen /\ n \in batch'[share'[n].token].members
         /\ share'[n].batch = share'[n].token
         /\ shareWaiting'[n] \cup shareTaken'[n] \subseteq {"old", "recover_prepare"}
    BY <2>2, <2>3, <2>4 DEF TokensAreOpen
  <2>6. /\ \A n \in Share : share'[n].batch # None =>
             /\ n \in batch'[share'[n].batch].members /\ batch'[share'[n].batch].status # "none"
        /\ \A b \in Batch : batch'[b].status # "none" => batch'[b].members # {}
    BY <2>3, <2>4 DEF TokensAreOpen
  <2> QED BY <2>1, <2>5, <2>6 DEF TokensAreOpen
<1>11. ShareRows' /\ ShareMail'
  BY <1>1, <1>4, ShareTypes DEF ShareInv, ShareRows, ShareMail, shareMessages
<1> QED BY <1>6, <1>7, <1>8, <1>9, <1>10, <1>11 DEF ShareCore

LEMMA ClaimSingleKeeps ==
  ASSUME ShareInv, NEW t \in Task, shareRun[t].at = "idle", NEW m \in Share,
         NEW r \in shareWaiting[m], ClaimSingle(t, m, r), share[m].token \notin Batch, shared' = shared
  PROVE  ShareCore' /\ ShareRows' /\ ShareMail'
<1>1. /\ share[m].status \in {"pending"} \cup ShareDoubt
      /\ ShareKind(r) = "prepare" => share[m].status = "pending"
      /\ ShareKind(r) # "prepare" => share[m].status \in ShareDoubt
      /\ share' = [share EXCEPT ![m].token = "single", ![m].live = TRUE,
                            ![m].status = IF @ = "sending" THEN "result_unknown" ELSE @]
      /\ shareHolder' = [shareHolder EXCEPT ![m] = t]
      /\ shareRun' = [shareRun EXCEPT ![t] = [NoShareRun EXCEPT
                    !.at = "claimed", !.share = m, !.kind = ShareKind(r)]]
      /\ UNCHANGED batch
  BY DEF ClaimSingle
<1>2. /\ share \in [Share -> ShareRowType] /\ shareHolder \in [Share -> Task \cup {None}]
      /\ shareRun \in [Task -> ShareRunType] /\ batch \in [Batch -> BatchRowType] /\ share[m] \in ShareRowType
  BY ShareTypes, TypedRows DEF ShareInv, ShareRows
<1>3. PICK row : row = [share[m] EXCEPT !.token = "single", !.live = TRUE,
                                        !.status = IF @ = "sending" THEN "result_unknown" ELSE @]
  OBVIOUS
<1>4. /\ row \in ShareRowType /\ share' = [share EXCEPT ![m] = row]
      /\ row.token = "single" /\ row.batch = share[m].batch
      /\ row.status = IF share[m].status = "sending" THEN "result_unknown" ELSE share[m].status
  BY ZenonT(90), <1>1, <1>2, <1>3 DEF ShareRowType, ShareStatus, ShareDoubt
<1>5. PICK run : run = [NoShareRun EXCEPT !.at = "claimed", !.share = m, !.kind = ShareKind(r)]
  OBVIOUS
<1>6. /\ run \in ShareRunType /\ run.at = "claimed" /\ run.share = m /\ run.kind = ShareKind(r)
      /\ run.batch = None /\ run.rejected = {}
  BY <1>5 DEF NoShareRun, ShareRunType, ShareKind
<1>7. /\ shareRun' \in [Task -> ShareRunType] /\ shareRun'[t] = run
      /\ \A u \in Task \ {t} : shareRun'[u] = shareRun[u]
  BY <1>1, <1>2, <1>5, <1>6
<1>8. /\ shareHolder' \in [Share -> Task \cup {None}] /\ shareHolder'[m] = t
      /\ \A n \in Share \ {m} : shareHolder'[n] = shareHolder[n]
  BY <1>1, <1>2
<1>9. ShareMail' /\ \A n \in Share \ {m} : shareWaiting'[n] = shareWaiting[n] /\ shareTaken'[n] = shareTaken[n]
  <2>1. PICK recover \in ShareRecovery : ShareClaimRaises(m, r, {m}, recover)
    BY DEF ClaimSingle, ShareRecovery
  <2>2. \A rows : ShareAged(rows) \in SUBSET ShareMessage
    BY DEF ShareAged, ShareMessage
  <2>3. recover \in ShareMessage
    BY DEF ShareMessage
  <2>4. \A n \in Share : shareWaiting[n] \in SUBSET ShareMessage /\ shareTaken[n] \in SUBSET ShareMessage
    BY TypedRows
  <2> HIDE DEF ShareAged
  <2> QED BY <2>1, <2>2, <2>3, <2>4 DEF ShareClaimRaises, ShareMail
<1>10. row.status \in {"pending", "failed"} => share[m].status = "pending"
  BY <1>1, <1>4 DEF ShareDoubt
<1>11. /\ SharedOnce' /\ OneReceipt' /\ MembersStandTogether' /\ TokensAreOpen'
       /\ share' \in [Share -> ShareRowType] /\ share'[m] = row
       /\ \A n \in Share \ {m} : share'[n] = share[n]
  <2>1. row.status \in {"pending", "failed"} => shared[m] = 0
    BY <1>10, FreeFacts
  <2>2. \A b \in Batch : batch'[b] = batch[b]
    BY <1>1
  <2>3. row.token \notin Batch /\ batch' \in [Batch -> BatchRowType]
    BY <1>1, <1>2, <1>4, ShareNames
  <2> QED BY ZenonT(90), <1>4, <1>9, <2>1, <2>2, <2>3, OneRowKeeps
<1>12. \A n \in Share : shareHolder[n] # t
  BY DEF ShareInv, ShareCore, HoldersWork, SinglePlaces
<1>13. HoldersWork'
  <2> SUFFICES ASSUME NEW n \in Share, NEW u \in Task, shareHolder'[n] = u
               PROVE  share'[n].token = "single" /\ shareRun'[u].at \in SinglePlaces /\ shareRun'[u].share = n
    BY DEF HoldersWork
  <2>1. CASE n = m
    BY <1>4, <1>6, <1>7, <1>8, <1>11, <2>1 DEF SinglePlaces
  <2>2. CASE n # m
    BY <1>7, <1>8, <1>11, <1>12, <2>2 DEF ShareInv, ShareCore, HoldersWork
  <2> QED BY <2>1, <2>2
<1>14. \A u \in Task : WorksOnOne(u)'
  <2> SUFFICES ASSUME NEW u \in Task, shareRun'[u].at \in SinglePlaces PROVE WorksOnOne(u)'
    BY DEF WorksOnOne
  <2>1. CASE u = t
    <3>1. run.kind = "prepare" => share'[m].status = "pending"
      BY <1>1, <1>4, <1>6, <1>11
    <3> QED BY <1>6, <1>7, <2>1, <3>1 DEF WorksOnOne
  <2>2. CASE u # t
    <3>1. shareRun'[u] = shareRun[u] /\ WorksOnOne(u)
      BY <1>7, <2>2 DEF ShareInv, ShareCore, RunsWork
    <3>2. shareRun[u].share \in Share
      BY <3>1 DEF WorksOnOne
    <3>3. shareHolder'[shareRun[u].share] = u =>
            /\ shareHolder[shareRun[u].share] = u
            /\ share'[shareRun[u].share] = share[shareRun[u].share]
      BY SMTT(90), <1>8, <1>11, <2>2, <3>2
    <3> QED BY <3>1, <3>2, <3>3 DEF WorksOnOne
  <2> QED BY <2>1, <2>2
<1>15. \A u \in Task : WorksOnBatch(u)'
  BY <1>1, <1>6, <1>7 DEF ShareInv, ShareCore, RunsWork, WorksOnBatch, BatchPlaces
<1>16. RunsWork'
  <2>1. \A u \in Task : shareRun'[u].batch = shareRun[u].batch \/ (u = t /\ shareRun'[u].batch = None)
    BY <1>6, <1>7
  <2>2. \A u \in Task : shareRun'[u].at = "idle" => shareRun'[u].batch = None
    BY <1>6, <1>7 DEF ShareInv, ShareCore, RunsWork
  <2>3. \A u, v \in Task : shareRun'[u].batch # None /\ shareRun'[u].batch = shareRun'[v].batch => u = v
    BY <2>1 DEF ShareInv, ShareCore, RunsWork
  <2> QED BY <1>14, <1>15, <2>2, <2>3 DEF RunsWork
<1>17. SendersAlone'
  <2>1. \A u \in Task : \A n \in Share : IsSending(u, n)' => IsSending(u, n)
    BY <1>1, <1>6, <1>7 DEF IsSending
  <2>2. ASSUME NEW u \in Task, NEW n \in Share, IsDenying(u, n)' PROVE IsDenying(u, n)
    <3>1. u # t /\ shareRun'[u] = shareRun[u]
      BY <1>6, <1>7, <2>2 DEF IsDenying
    <3>2. shareHolder'[n] = u => shareHolder[n] = u
      BY <1>8, <3>1
    <3> QED BY SMTT(90), <1>1, <2>2, <3>1, <3>2 DEF IsDenying
  <2>3. \A n \in Share : share'[n].status \in {"pending", "failed"} => share[n].status \in {"pending", "failed"}
    BY <1>4, <1>10, <1>11
  <2> QED BY <2>1, <2>2, <2>3 DEF ShareInv, ShareCore, SendersAlone
<1> QED BY SMTT(90), <1>1, <1>2, <1>7, <1>8, <1>9, <1>11, <1>13, <1>16, <1>17 DEF ShareCore, ShareRows

LEMMA ClaimBatchKeeps ==
  ASSUME ShareInv, NEW t \in Task, shareRun[t].at = "idle", NEW m \in Share,
         NEW r \in shareWaiting[m], ClaimBatch(t, m, r), shared' = shared
  PROVE  ShareCore' /\ ShareRows' /\ ShareMail'
<1>1. PICK b \in Batch, ms \in SUBSET Candidates :
       /\ batch[b].status = "none"
       /\ m \in ms /\ Cardinality(ms) >= 2
       /\ IF \E n \in ms : Replayed(n)
          THEN /\ ShareDelivered(m, r, {})
               /\ UNCHANGED <<share, shareHolder, batch, shareRun>>
          ELSE /\ batch' = [batch EXCEPT ![b].status = "pending", ![b].members = ms]
               /\ share' = [n \in Share |->
                    IF n \in ms THEN [share[n] EXCEPT !.token = b, !.live = TRUE, !.batch = b]
                    ELSE share[n]]
               /\ shareHolder' = [n \in Share |-> IF n \in ms THEN None ELSE shareHolder[n]]
               /\ ShareClaimRaises(m, r, ms, "recover_prepare")
               /\ shareRun' = [shareRun EXCEPT ![t] = [NoShareRun EXCEPT
                                 !.at = "batch", !.batch = b, !.kind = "prepare"]]
  BY ZenonT(90) DEF ClaimBatch
<1>2. CASE \E n \in ms : Replayed(n)
  BY <1>1, <1>2, DroppedKeeps
<1>3. CASE ~\E n \in ms : Replayed(n)
  <2>1. /\ batch' = [batch EXCEPT ![b].status = "pending", ![b].members = ms]
        /\ share' = [n \in Share |->
             IF n \in ms THEN [share[n] EXCEPT !.token = b, !.live = TRUE, !.batch = b]
             ELSE share[n]]
        /\ shareHolder' = [n \in Share |-> IF n \in ms THEN None ELSE shareHolder[n]]
        /\ ShareClaimRaises(m, r, ms, "recover_prepare")
        /\ shareRun' = [shareRun EXCEPT ![t] = [NoShareRun EXCEPT
                          !.at = "batch", !.batch = b, !.kind = "prepare"]]
    BY <1>1, <1>3
  <2>2. /\ share \in [Share -> ShareRowType] /\ shareHolder \in [Share -> Task \cup {None}]
        /\ shareRun \in [Task -> ShareRunType] /\ batch \in [Batch -> BatchRowType]
        /\ batch[b] \in BatchRowType
    BY SMTT(90), ShareTypes, TypedRows DEF ShareInv, ShareRows
  <2>3. ms \in SUBSET Share /\ ms # {} /\ batch[b].receipts = 0
    BY <1>1 DEF Candidates, ShareInv, ShareCore, OneReceipt
  <2>4. ASSUME NEW n \in ms
        PROVE  /\ share[n].status = "pending" /\ share[n].armed = FALSE /\ share[n].token \notin Batch
    <3>1. n \in Share /\ share[n].status = "pending" /\ ~share[n].armed /\ share[n].armed \in BOOLEAN
      BY <1>1, <2>2, <2>3 DEF Candidates, ShareRowType
    <3>2. ASSUME share[n].token \in Batch PROVE FALSE
      <4>1. batch[share[n].token].status \in BatchOpen /\ share[n].batch = share[n].token
        BY <3>1, <3>2 DEF ShareInv, ShareCore, TokensAreOpen
      <4>2. Replayed(n)
        BY <3>2, <4>1, ShareNames DEF Replayed, BatchOpen
      <4> QED BY <1>3, <4>2
    <3> QED BY SMTT(90), <3>1, <3>2
  <2>5. PICK open : open = [batch[b] EXCEPT !.status = "pending", !.members = ms]
    BY SMTT(90)
  <2>6. /\ open \in BatchRowType /\ open.status = "pending" /\ open.members = ms /\ open.receipts = 0
        /\ batch' = [batch EXCEPT ![b] = open]
    BY <2>1, <2>2, <2>3, <2>5 DEF BatchRowType, BatchStatus, BatchOpen
  <2>7. /\ batch' \in [Batch -> BatchRowType] /\ batch'[b] = open
        /\ \A c \in Batch \ {b} : batch'[c] = batch[c]
    BY SMTT(90), <2>2, <2>6
  <2>8. \A n \in Share \ ms : share'[n] = share[n]
    BY <2>1
  <2>9. ASSUME NEW n \in ms
        PROVE  /\ share'[n] \in ShareRowType /\ share'[n].status = "pending" /\ share'[n].armed = FALSE
               /\ share'[n].token = b /\ share'[n].batch = b /\ share'[n].live = TRUE
    <3>1. n \in Share /\ share[n] \in ShareRowType
      BY <2>2, <2>3
    <3>2. share'[n] = [share[n] EXCEPT !.token = b, !.live = TRUE, !.batch = b]
      BY <2>1, <3>1
    <3> QED BY ZenonT(90), <2>4, <3>1, <3>2 DEF ShareRowType
  <2>10. share' \in [Share -> ShareRowType]
    <3>1. \A n \in Share : share'[n] \in ShareRowType
      BY <2>2, <2>8, <2>9
    <3>2. DOMAIN share' = Share /\ share' = [n \in Share |-> share'[n]]
      BY <2>1
    <3> QED BY <3>1, <3>2
  <2>11. \A n \in Share : share'[n].status = share[n].status
    BY <2>4, <2>8, <2>9
  <2>12. /\ \A n \in Share \ ms : share[n].token # b
         /\ \A n \in Share \ ms : share[n].batch # b
    <3>1. TokensAreOpen /\ batch[b].status \notin BatchOpen
      BY <1>1 DEF ShareInv, ShareCore, BatchOpen
    <3>2. ASSUME NEW n \in Share PROVE share[n].token # b
      BY <3>1 DEF TokensAreOpen
    <3>3. ASSUME NEW n \in Share PROVE share[n].batch # b
      <4>1. b # None /\ batch[b].status = "none"
        BY <1>1, ShareNames
      <4>2. share[n].batch # None => batch[share[n].batch].status # "none"
        BY SMTT(90), <3>1 DEF TokensAreOpen
      <4> QED BY SMTT(90), <4>1, <4>2
    <3> QED BY <3>2, <3>3
  <2>13. /\ shareHolder' \in [Share -> Task \cup {None}]
         /\ \A n \in Share : shareHolder'[n] = IF n \in ms THEN None ELSE shareHolder[n]
    BY <2>1, <2>2
  <2>14. PICK run : run = [NoShareRun EXCEPT !.at = "batch", !.batch = b, !.kind = "prepare"]
    OBVIOUS
  <2>15. run \in ShareRunType /\ run.at = "batch" /\ run.batch = b
    BY <2>14 DEF NoShareRun, ShareRunType
  <2>16. /\ shareRun' \in [Task -> ShareRunType] /\ shareRun'[t] = run
         /\ \A u \in Task \ {t} : shareRun'[u] = shareRun[u]
    BY <2>1, <2>2, <2>14, <2>15
  <2>17. \A u \in Task : shareRun[u].batch # b
    <3> SUFFICES ASSUME NEW u \in Task, shareRun[u].batch = b PROVE FALSE
      OBVIOUS
    <3>1. WorksOnOne(u) /\ WorksOnBatch(u) /\ (shareRun[u].at = "idle" => shareRun[u].batch = None)
      BY DEF ShareInv, ShareCore, RunsWork
    <3>2. shareRun[u].at \in {"idle"} \cup SinglePlaces \cup BatchPlaces
      BY TypedRows DEF ShareRunType, SinglePlaces, BatchPlaces
    <3>3. shareRun[u].at \in BatchPlaces
      BY <3>1, <3>2, ShareNames DEF WorksOnOne
    <3> QED BY <1>1, <3>1, <3>3 DEF WorksOnBatch
  <2>18. ShareMail' /\ \A n \in Share : share'[n].token \in Batch =>
           shareWaiting'[n] \cup shareTaken'[n] \subseteq {"old", "recover_prepare"}
    <3>1. \A rows : ShareAged(rows) \subseteq {"old"}
      BY SMTT(90) DEF ShareAged
    <3>2. \A n \in Share :
            /\ n \in ms => shareWaiting'[n] \cup shareTaken'[n] \subseteq {"old", "recover_prepare"}
            /\ n \notin ms => shareWaiting'[n] = shareWaiting[n] /\ shareTaken'[n] = shareTaken[n]
      <4> HIDE DEF ShareAged
      <4> QED BY ZenonT(90), <2>1, <3>1 DEF ShareClaimRaises
    <3>3. {"old", "recover_prepare"} \in SUBSET ShareMessage
      BY DEF ShareMessage, ShareRecovery
    <3>4. ShareMail'
      <4>1. \A n \in Share : shareWaiting'[n] \in SUBSET ShareMessage /\ shareTaken'[n] \in SUBSET ShareMessage
        BY SMTT(90), <3>2, <3>3, TypedRows
      <4>2. /\ shareWaiting' = [n \in Share |-> shareWaiting'[n]]
            /\ shareTaken' = [n \in Share |-> shareTaken'[n]]
        BY <2>1 DEF ShareClaimRaises
      <4> QED BY <4>1, <4>2 DEF ShareMail
    <3>5. \A n \in Share : share'[n].token \in Batch =>
            shareWaiting'[n] \cup shareTaken'[n] \subseteq {"old", "recover_prepare"}
      <4> SUFFICES ASSUME NEW n \in Share \ ms, share[n].token \in Batch
                   PROVE  shareWaiting'[n] \cup shareTaken'[n] \subseteq {"old", "recover_prepare"}
        BY <2>8, <3>2
      <4> QED BY <3>2 DEF ShareInv, ShareCore, TokensAreOpen
    <3> QED BY <3>4, <3>5
  <2>19. \A n \in Share : shareHolder[n] # t
    BY DEF ShareInv, ShareCore, HoldersWork, SinglePlaces
  <2>20. HoldersWork'
    <3> SUFFICES ASSUME NEW n \in Share, NEW u \in Task, shareHolder'[n] = u
                 PROVE  share'[n].token = "single" /\ shareRun'[u].at \in SinglePlaces /\ shareRun'[u].share = n
      BY DEF HoldersWork
    <3>1. n \notin ms /\ shareHolder[n] = u /\ u # t
      BY <2>13, <2>19, ShareNames
    <3> QED BY <2>8, <2>16, <3>1 DEF ShareInv, ShareCore, HoldersWork
  <2>21. \A u \in Task : WorksOnOne(u)'
    <3> SUFFICES ASSUME NEW u \in Task, shareRun'[u].at \in SinglePlaces PROVE WorksOnOne(u)'
      BY DEF WorksOnOne
    <3>1. u # t /\ shareRun'[u] = shareRun[u] /\ WorksOnOne(u)
      BY <2>15, <2>16 DEF ShareInv, ShareCore, RunsWork, SinglePlaces
    <3>2. shareRun[u].share \in Share
      BY <3>1 DEF WorksOnOne
    <3>3. /\ shareHolder'[shareRun[u].share] = u => shareHolder[shareRun[u].share] = u
          /\ share'[shareRun[u].share].status = share[shareRun[u].share].status
      BY <2>11, <2>13, <3>2, ShareNames
    <3> QED BY <3>1, <3>2, <3>3 DEF WorksOnOne
  <2>22. \A u \in Task : WorksOnBatch(u)'
    <3> SUFFICES ASSUME NEW u \in Task, shareRun'[u].at \in BatchPlaces PROVE WorksOnBatch(u)'
      BY DEF WorksOnBatch
    <3>1. CASE u = t
      BY <2>6, <2>7, <2>15, <2>16, <3>1 DEF WorksOnBatch
    <3>2. CASE u # t
      <4>1. shareRun'[u] = shareRun[u] /\ WorksOnBatch(u) /\ shareRun[u].batch \in Batch
        BY <2>16, <3>2, BatchRun
      <4>2. batch'[shareRun[u].batch] = batch[shareRun[u].batch]
        BY <2>7, <2>17, <4>1
      <4> QED BY <4>1, <4>2 DEF WorksOnBatch
    <3> QED BY <3>1, <3>2
  <2>23. RunsWork'
    <3>1. \A u \in Task : shareRun'[u].at = "idle" => shareRun'[u].batch = None
      BY <2>15, <2>16 DEF ShareInv, ShareCore, RunsWork
    <3>2. \A u, v \in Task : shareRun'[u].batch # None /\ shareRun'[u].batch = shareRun'[v].batch => u = v
      BY <2>15, <2>16, <2>17 DEF ShareInv, ShareCore, RunsWork
    <3> QED BY <2>21, <2>22, <3>1, <3>2 DEF RunsWork
  <2>24. SendersAlone'
    <3>1. ASSUME NEW u \in Task, NEW n \in Share, IsSending(u, n)' PROVE IsSending(u, n)
      <4>1. u # t /\ shareRun'[u] = shareRun[u]
        BY <2>15, <2>16, <3>1 DEF IsSending
      <4>2. shareRun[u].at = "sending" => batch'[shareRun[u].batch] = batch[shareRun[u].batch]
        BY <2>7, <2>17, BatchRun DEF BatchPlaces
      <4> QED BY <3>1, <4>1, <4>2 DEF IsSending
    <3>2. ASSUME NEW u \in Task, NEW n \in Share, IsDenying(u, n)' PROVE IsDenying(u, n)
      <4>1. u # t /\ shareRun'[u] = shareRun[u]
        BY <2>15, <2>16, <3>2 DEF IsDenying
      <4>2. shareRun[u].at = "done" => batch'[shareRun[u].batch] = batch[shareRun[u].batch]
        BY <2>7, <2>17, BatchRun DEF BatchPlaces
      <4>3. shareHolder'[n] = u => shareHolder[n] = u
        BY <2>13, ShareNames
      <4> QED BY <3>2, <4>1, <4>2, <4>3 DEF IsDenying
    <3> QED BY <2>11, <3>1, <3>2 DEF ShareInv, ShareCore, SendersAlone
  <2>25. SharedOnce'
    BY <2>11 DEF ShareInv, ShareCore, SharedOnce
  <2>26. OneReceipt'
    BY <2>6, <2>7 DEF ShareInv, ShareCore, OneReceipt, BatchOpen
  <2>27. MembersStandTogether'
    <3> SUFFICES ASSUME NEW c \in Batch, batch'[c].status \in BatchOpen, NEW n \in batch'[c].members
                 PROVE  /\ share'[n].status = batch'[c].status /\ share'[n].token = c
                        /\ share'[n].armed = (batch'[c].status = "sending")
      BY DEF MembersStandTogether
    <3>1. CASE c = b
      BY <2>6, <2>7, <2>9, <3>1
    <3>2. CASE c # b
      <4>1. batch'[c] = batch[c]
        BY <2>7, <3>2
      <4>2. n \in Share /\ share[n].token = c
        BY <4>1, TypedRows DEF ShareInv, ShareCore, MembersStandTogether, BatchRowType
      <4>3. share'[n] = share[n]
        BY <2>4, <2>8, <4>2
      <4> QED BY <4>1, <4>3 DEF ShareInv, ShareCore, MembersStandTogether
    <3> QED BY <3>1, <3>2
  <2>28. TokensAreOpen'
    <3>0. TokensAreOpen
      BY DEF ShareInv, ShareCore
    <3>1. ASSUME NEW n \in Share, share'[n].token \in Batch
          PROVE  /\ batch'[share'[n].token].status \in BatchOpen /\ n \in batch'[share'[n].token].members
                 /\ share'[n].batch = share'[n].token
      <4>1. CASE n \in ms
        BY ZenonT(90), <2>6, <2>7, <2>9, <4>1 DEF BatchOpen
      <4>2. CASE n \notin ms
        BY <2>7, <2>8, <2>12, <3>0, <3>1, <4>2 DEF TokensAreOpen
      <4> QED BY <4>1, <4>2
    <3>2. ASSUME NEW n \in Share, NEW k \in Share, share'[n].token \in Batch, share'[k].token = share'[n].token
          PROVE  share'[k].live = share'[n].live
      <4>0. \A x \in Share : share'[x].token = b <=> x \in ms
        BY <2>8, <2>9, <2>12
      <4>1. CASE share'[n].token = b
        <5>1. n \in ms /\ k \in ms
          BY <3>2, <4>0, <4>1
        <5> QED BY <2>9, <5>1
      <4>2. CASE share'[n].token # b
        <5>1. share'[n] = share[n] /\ share'[k] = share[k]
          BY <2>8, <3>2, <4>0, <4>2
        <5>2. share[n].token \in Batch /\ share[k].token = share[n].token
          BY <3>2, <5>1
        <5>3. share[k].live = share[n].live
          BY <3>0, <5>2, Zenon DEF TokensAreOpen
        <5> QED BY <5>1, <5>3
      <4> QED BY <4>1, <4>2
    <3>3. ASSUME NEW n \in Share, share'[n].batch # None
          PROVE  n \in batch'[share'[n].batch].members /\ batch'[share'[n].batch].status # "none"
      <4>1. CASE n \in ms
        BY ZenonT(90), <2>6, <2>7, <2>9, <4>1
      <4>2. CASE n \notin ms
        <5>1. share[n].batch \in Batch
          BY SMTT(90), <2>8, <3>3, <4>2, TypedRows DEF ShareRowType
        <5> QED BY <2>7, <2>8, <2>12, <3>0, <3>3, <4>2, <5>1 DEF TokensAreOpen
      <4> QED BY <4>1, <4>2
    <3>4. \A c \in Batch : batch'[c].status # "none" => batch'[c].members # {}
      BY SMTT(90), <2>3, <2>6, <2>7, <3>0 DEF TokensAreOpen
    <3> QED BY <2>18, <3>1, <3>2, <3>3, <3>4 DEF TokensAreOpen
  <2> QED BY SMTT(90), <2>7, <2>10, <2>13, <2>16, <2>18, <2>20, <2>23, <2>24, <2>25, <2>26,
    <2>27,
    <2>28
          DEF ShareCore, ShareRows
<1> QED BY <1>2, <1>3, SMTT(90)

\* A run of one operation leaves it, and tells a batch that is over.

LEMMA LeavesKeeps ==
  ASSUME ShareInv, NEW t \in Task, shareRun[t].at \in {"receipt", "looked"}, ShareOwned(t),
         NEW status \in ShareStatus, NEW more \in SUBSET ShareMessage,
         Leaves(shareRun[t].share, status, more),
         batch' = batch \/ batch' = Synced(shareRun[t].share, status),
         status \in {"pending", "failed"} => shareRun[t].at = "receipt" /\ shareRun[t].outcome \in Denials,
         ShareRunEnds(t), shared' = shared
  PROVE  ShareCore' /\ ShareRows' /\ ShareMail'
<1> DEFINE m == shareRun[t].share
<1>1. /\ m \in Share /\ share[m].token \notin Batch
      /\ \A b \in Batch : batch[b].status \in BatchOpen => m \notin batch[b].members
      /\ shareHolder[m] = t
  <2>1. shareRun[t].at \in SinglePlaces
    BY DEF SinglePlaces
  <2> QED BY <2>1, OwnedFacts DEF ShareOwned
<1>2. /\ share \in [Share -> ShareRowType] /\ share[m] \in ShareRowType
      /\ batch \in [Batch -> BatchRowType] /\ shareHolder \in [Share -> Task \cup {None}]
  BY <1>1, ShareTypes, TypedRows DEF ShareInv, ShareRows
<1>3. PICK row : row = [share[m] EXCEPT !.status = status, !.token = None, !.live = FALSE,
                                        !.armed = @ /\ status # "pending"]
  BY SMTT(90)
<1>4. /\ row \in ShareRowType /\ share' = [share EXCEPT ![m] = row]
      /\ row.token = None /\ row.batch = share[m].batch /\ row.status = status
  BY ZenonT(90), <1>1, <1>2, <1>3 DEF Leaves, ShareRowType
<1>5. status \in {"pending", "failed"} => shared[m] = 0 /\ \A u \in Task : ~IsSending(u, m)
  <2>1. status \in {"pending", "failed"} => IsDenying(t, m)
    BY <1>1 DEF IsDenying
  <2> QED BY <1>1, <2>1 DEF ShareInv, ShareCore, SendersAlone
<1>6. /\ batch' \in [Batch -> BatchRowType]
      /\ \A b \in Batch : /\ batch'[b].members = batch[b].members
                          /\ batch'[b].receipts = batch[b].receipts
                          /\ \/ batch'[b].status = batch[b].status
                             \/ /\ batch[b].status \notin BatchOpen \cup {"none"}
                                /\ batch'[b].status \notin BatchOpen \cup {"none"}
  <2>1. CASE batch' = batch
    BY <1>2, <2>1
  <2>2. CASE batch' = Synced(m, status) /\ share[m].batch = None
    BY <1>2, <2>2 DEF Synced
  <2>3. CASE batch' = Synced(m, status) /\ share[m].batch # None
    <3>1. PICK b \in Batch : b = share[m].batch
      BY SMTT(90), <1>2, <2>3 DEF ShareRowType
    <3>2. m \in batch[b].members /\ batch[b].status # "none" /\ batch[b] \in BatchRowType
      BY <1>1, <1>2, <2>3, <3>1 DEF ShareInv, ShareCore, TokensAreOpen
    <3>3. batch[b].status \notin BatchOpen \cup {"none"}
      BY <1>1, <3>2
    <3>4. PICK ready \in SUBSET Share :
            ready = IF status = "succeeded" THEN batch[b].ready \cup {m} ELSE batch[b].ready \ {m}
      BY <1>1, <3>2 DEF BatchRowType
    <3>5. batch' = [batch EXCEPT ![b].ready = ready, ![b].receipts = @,
                                 ![b].status = IF ready = batch[b].members THEN "completed" ELSE @]
      <4>1. batch[b].status # "sending" /\ share[m].batch = b /\ b # None
        BY <2>3, <3>1, <3>3 DEF BatchOpen
      <4> QED BY <2>3, <3>4, <4>1 DEF Synced
    <3>6. PICK end : end = [batch[b] EXCEPT !.ready = ready, !.receipts = batch[b].receipts,
                    !.status = IF ready = batch[b].members THEN "completed" ELSE batch[b].status]
      OBVIOUS
    <3>7. /\ end \in BatchRowType /\ end.members = batch[b].members /\ end.receipts = batch[b].receipts
          /\ end.status = batch[b].status \/ end.status = "completed"
      BY <3>2, <3>6 DEF BatchRowType, BatchStatus
    <3>8. batch' = [batch EXCEPT ![b] = end]
      BY <1>2, <3>5, <3>6
    <3>9. /\ batch' \in [Batch -> BatchRowType] /\ batch'[b] = end
          /\ \A c \in Batch \ {b} : batch'[c] = batch[c]
      BY <1>2, <3>7, <3>8
    <3> QED BY <3>3, <3>7, <3>9 DEF BatchOpen
  <2> QED BY <2>1, <2>2, <2>3
<1>7. ShareMail' /\ \A n \in Share \ {m} : shareWaiting'[n] = shareWaiting[n] /\ shareTaken'[n] = shareTaken[n]
  <2>1. /\ shareWaiting' = [n \in Share |-> IF n \in {m} THEN ShareSpent(shareWaiting[n]) \cup more
                                           ELSE shareWaiting[n]]
        /\ shareTaken' = [n \in Share |-> IF n \in {m} THEN ShareSpent(shareTaken[n]) ELSE shareTaken[n]]
    BY DEF Leaves, ShareClaimsOver
  <2>2. \A rows \in SUBSET ShareMessage : ShareSpent(rows) \in SUBSET ShareMessage
    BY DEF ShareSpent, ShareMessage
  <2>3. \A n \in Share : /\ shareWaiting[n] \in SUBSET ShareMessage /\ shareTaken[n] \in SUBSET ShareMessage
                         /\ ShareSpent(shareWaiting[n]) \in SUBSET ShareMessage
                         /\ ShareSpent(shareTaken[n]) \in SUBSET ShareMessage
    BY <2>2, TypedRows
  <2> HIDE DEF ShareSpent
  <2> QED BY SMTT(90), <2>1, <2>3 DEF ShareMail
<1> HIDE DEF m
<1>8. /\ SharedOnce' /\ OneReceipt' /\ MembersStandTogether' /\ TokensAreOpen'
      /\ share' \in [Share -> ShareRowType] /\ share'[m] = row
      /\ \A n \in Share \ {m} : share'[n] = share[n]
      /\ \A b \in Batch : /\ batch'[b].members = batch[b].members
                          /\ batch[b].status # "none" => batch'[b].status # "none"
                          /\ batch'[b].status \in BatchOpen => batch'[b].status = batch[b].status
  <2>1. row.token \notin Batch /\ (row.status \in {"pending", "failed"} => shared[m] = 0)
    BY <1>4, <1>5, ShareNames
  <2> QED BY <1>1, <1>4, <1>6, <1>7, <2>1, OneRowKeeps
<1>9. Shrinks
  BY EndShrinks
<1>10. shareHolder'[m] = None
  BY <1>1, <1>2 DEF ShareRunEnds, Forget
<1>11. HoldersWork' /\ RunsWork'
  <2>1. \A n \in Share : shareHolder'[n] # None => share'[n] = share[n]
    BY <1>8, <1>10
  <2> QED BY <1>8, <1>9, <2>1, ShrinkKeeps
<1>12. SendersAlone'
  <2>1. \A n \in Share : share'[n].status \in {"pending", "failed"} =>
           \/ share[n].status \in {"pending", "failed"}
           \/ \A u \in Task : ~IsSending(u, n)
    BY <1>4, <1>5, <1>8
  <2> QED BY <1>8, <1>9, <2>1, ShrinkAlone
<1> QED BY SMTT(90), <1>6, <1>7, <1>8, <1>9, <1>11, <1>12 DEF ShareCore, ShareRows, Shrinks

LEMMA ConcludeShareKeeps ==
  ASSUME ShareInv, NEW t \in Task, ConcludeShare(t)
  PROVE  ShareCore' /\ ShareRows' /\ ShareMail'
<1> DEFINE m == shareRun[t].share
           outcome == shareRun[t].outcome
<1>1. shareRun[t].at \in {"receipt", "looked"} /\ ShareRunEnds(t) /\ shared' = shared
  BY DEF ConcludeShare
<1>2. CASE ~ShareOwned(t)
  <2>1. UNCHANGED <<share, batch, shareMessages>>
    BY <1>2 DEF ConcludeShare
  <2> QED BY <1>1, <2>1, EndingKeeps
<1>3. CASE ShareOwned(t)
  <2>1. /\ {"verify"} \in SUBSET ShareMessage /\ {"prepare"} \in SUBSET ShareMessage /\ {} \in SUBSET ShareMessage
        /\ "verifying" \in ShareStatus /\ "result_unknown" \in ShareStatus /\ "pending" \in ShareStatus
        /\ "failed" \in ShareStatus /\ "succeeded" \in ShareStatus
    BY DEF ShareMessage, ShareStatus, ShareDoubt
  <2>2. outcome \in Denials => shareRun[t].at = "receipt"
    <3>1. WorksOnOne(t)
      BY DEF ShareInv, ShareCore, RunsWork
    <3> QED BY <1>1, <3>1 DEF WorksOnOne, SinglePlaces, Denials
  <2>3. \E status \in ShareStatus, more \in SUBSET ShareMessage :
          /\ Leaves(m, status, more)
          /\ batch' = batch \/ batch' = Synced(m, status)
          /\ status \in {"pending", "failed"} => outcome \in Denials
    <3>1. \/ outcome = "ACKNOWLEDGED" /\ Leaves(m, "verifying", {"verify"})
             /\ batch' = Synced(m, "verifying")
          \/ outcome = "UNKNOWN" /\ Leaves(m, "result_unknown", {"verify"}) /\ UNCHANGED batch
          \/ outcome = "NOT_SENT" /\ Leaves(m, "pending", {"prepare"}) /\ UNCHANGED batch
          \/ outcome = "FAILED" /\ Leaves(m, "failed", {}) /\ UNCHANGED batch
          \/ outcome = "found" /\ Leaves(m, "succeeded", {}) /\ batch' = Synced(m, "succeeded")
          \/ /\ outcome = "missing"
             /\ \E status \in {"verifying", "result_unknown"} :
                  Leaves(m, status, {"verify"}) /\ batch' = Synced(m, status)
      BY <1>3, Zenon DEF ConcludeShare
    <3> HIDE DEF m, outcome
    <3>2. CASE outcome = "ACKNOWLEDGED" /\ Leaves(m, "verifying", {"verify"}) /\ batch' = Synced(m, "verifying")
      BY <2>1, <3>2
    <3>3. CASE outcome = "UNKNOWN" /\ Leaves(m, "result_unknown", {"verify"}) /\ UNCHANGED batch
      BY <2>1, <3>3
    <3>4. CASE outcome = "NOT_SENT" /\ Leaves(m, "pending", {"prepare"}) /\ UNCHANGED batch
      BY <2>1, <3>4 DEF Denials
    <3>5. CASE outcome = "FAILED" /\ Leaves(m, "failed", {}) /\ UNCHANGED batch
      BY <2>1, <3>5 DEF Denials
    <3>6. CASE outcome = "found" /\ Leaves(m, "succeeded", {}) /\ batch' = Synced(m, "succeeded")
      BY <2>1, <3>6
    <3>7. ASSUME NEW status \in {"verifying", "result_unknown"},
                 Leaves(m, status, {"verify"}) /\ batch' = Synced(m, status)
          PROVE  \E x \in ShareStatus, more \in SUBSET ShareMessage :
                   /\ Leaves(m, x, more)
                   /\ batch' = batch \/ batch' = Synced(m, x)
                   /\ x \in {"pending", "failed"} => outcome \in Denials
      <4>1. status \in ShareStatus /\ status \notin {"pending", "failed"}
        BY DEF ShareStatus, ShareDoubt
      <4> QED BY <2>1, <3>7, <4>1
    <3> QED BY <3>1, <3>2, <3>3, <3>4, <3>5, <3>6, <3>7
  <2>4. PICK status \in ShareStatus, more \in SUBSET ShareMessage :
          /\ Leaves(m, status, more)
          /\ batch' = batch \/ batch' = Synced(m, status)
          /\ status \in {"pending", "failed"} => outcome \in Denials
    BY <2>3
  <2> QED BY <1>1, <1>3, <2>2, <2>4, LeavesKeeps
<1> QED BY <1>2, <1>3

LEMMA TakeShareKeeps ==
  ASSUME ShareInv, NEW t \in Task, TakeShare(t)
  PROVE  ShareCore' /\ ShareRows' /\ ShareMail'
<1>1. shareRun[t].at = "idle" /\ shared' = shared
  BY DEF TakeShare
<1>2. PICK m \in Share : \E r \in shareWaiting[m] :
        \/ RecoverBatch(m, r) \/ ClaimBatch(t, m, r) \/ ShareDropped(m, r)
        \/ ShareExpired(m, r) \/ ClaimSingle(t, m, r)
  BY DEF TakeShare
<1>3. PICK r \in shareWaiting[m] :
        \/ RecoverBatch(m, r) \/ ClaimBatch(t, m, r) \/ ShareDropped(m, r)
        \/ ShareExpired(m, r) \/ ClaimSingle(t, m, r)
  BY <1>2
<1>4. ASSUME Single(m, r) PROVE share[m].token \notin Batch
  BY <1>4, ClaimsRecover DEF Single
<1>5. CASE RecoverBatch(m, r)
  BY <1>1, <1>5, RecoverKeeps
<1>6. CASE ClaimBatch(t, m, r)
  BY <1>1, <1>6, ClaimBatchKeeps
<1>7. CASE ShareDropped(m, r)
  BY <1>1, <1>7, DroppedKeeps DEF ShareDropped
<1>8. CASE ShareExpired(m, r)
  BY <1>1, <1>4, <1>8, ExpiredKeeps DEF ShareExpired
<1>9. CASE ClaimSingle(t, m, r)
  BY <1>1, <1>4, <1>9, ClaimSingleKeeps DEF ClaimSingle
<1> QED BY <1>3, <1>5, <1>6, <1>7, <1>8, <1>9

LEMMA ShareStarts == ShareInit => ShareInv
<1> SUFFICES ASSUME ShareInit PROVE ShareInv
  OBVIOUS
<1>1. /\ share = [m \in Share |-> [status |-> "pending", token |-> None, live |-> FALSE,
                                    armed |-> FALSE, batch |-> None]]
      /\ shareHolder = [m \in Share |-> None]
      /\ batch = [b \in Batch |-> [status |-> "none", members |-> {}, ready |-> {}, receipts |-> 0]]
      /\ shareTaken = [m \in Share |-> {}]
      /\ shareRun = [t \in Task |-> NoShareRun]
      /\ shared = [m \in Share |-> 0]
      /\ shareFaults = 0 /\ shareWaiting = [m \in Share |-> {"prepare"}]
  BY DEF ShareInit, ShareIdle
<1>2. ShareRows
  <2>1. \A m \in Share : share[m] \in ShareRowType
    BY <1>1 DEF ShareRowType, ShareStatus
  <2>2. \A b \in Batch : batch[b] \in BatchRowType
    BY <1>1 DEF BatchRowType, BatchStatus
  <2> QED BY <1>1, <2>1, <2>2, NoRunIsRun DEF ShareRows
<1>3. ShareMail /\ shared \in [Share -> Nat] /\ shareFaults \in 0 .. MaxCrashes
  BY <1>1, TasksOK DEF ShareMail, ShareMessage
<1>4. SharedOnce /\ OneReceipt /\ MembersStandTogether
  <2>1. \A b \in Batch : batch[b].status = "none" /\ batch[b].receipts = 0
    BY <1>1
  <2>2. \A m \in Share : shared[m] = 0
    BY <1>1
  <2> QED BY <2>1, <2>2 DEF SharedOnce, OneReceipt, MembersStandTogether, BatchOpen
<1>5. TokensAreOpen /\ HoldersWork
  BY <1>1, ShareNames DEF TokensAreOpen, HoldersWork
<1>6. /\ \A t \in Task : shareRun[t].at = "idle" /\ shareRun[t].batch = None
  BY SMTT(90), <1>1, NoRunIsRun
<1>7. RunsWork /\ SendersAlone
  BY <1>6 DEF RunsWork, SendersAlone, WorksOnOne, WorksOnBatch, SinglePlaces, BatchPlaces,
     IsSending, IsDenying
<1> QED BY <1>2, <1>3, <1>4, <1>5, <1>7, ShareTypes DEF ShareInv, ShareCore

LEMMA ShareStep == ShareInv /\ [ShareNext]_shareVars => ShareInv'
<1> SUFFICES ASSUME ShareInv, [ShareNext]_shareVars PROVE ShareInv'
  OBVIOUS
<1>1. shared \in [Share -> Nat] /\ shareFaults \in 0 .. MaxCrashes
  BY ShareTypes DEF ShareInv
<1>2. ASSUME UNCHANGED shareVars PROVE ShareInv'
  <2>1. UNCHANGED <<share, shareHolder, batch, shareRun, shared>> /\ UNCHANGED shareMessages
        /\ UNCHANGED shareFaults
    BY <1>2 DEF shareVars
  <2>2. Shrinks /\ \A m \in Share : share[m].token \in Batch =>
           shareWaiting'[m] \cup shareTaken'[m] \subseteq {"old", "recover_prepare"}
    BY <2>1, UnchangedShrinks DEF ShareInv, ShareCore, TokensAreOpen, shareMessages
  <2>3. ShareCore' /\ ShareRows'
    BY <2>1, <2>2, SameRowsKeep
  <2>4. ShareTypeOK'
    BY <2>1 DEF ShareInv, ShareTypeOK, shareMessages
  <2> QED BY <2>3, <2>4 DEF ShareInv
<1>3. ASSUME ShareNext PROVE ShareCore' /\ ShareRows' /\ ShareMail' /\ shared' \in [Share -> Nat]
  <2>1. CASE \E t \in Task : ShareTask(t) \/ KillShare(t)
    <3>1. PICK t \in Task : ShareTask(t) \/ KillShare(t)
      BY <2>1
    <3>2. CASE TakeShare(t)
      BY <1>1, <3>2, TakeShareKeeps DEF TakeShare
    <3>3. CASE ReadSources(t)
      BY <1>1, <3>3, ReadSourcesKeeps DEF ReadSources, unsent
    <3>4. CASE BatchDenied(t)
      BY SMTT(90), <1>1, <3>4, BatchDeniedKeeps DEF BatchDenied, unsent
    <3>5. CASE ArmBatch(t)
      BY <1>1, <3>5, ArmBatchKeeps DEF ArmBatch
    <3>6. CASE PostBatch(t)
      BY <3>6, PostBatchKeeps
    <3>7. CASE EndBatch(t)
      BY SMTT(90), <1>1, <3>7, EndBatchKeeps DEF EndBatch
    <3>8. CASE ArmSingle(t)
      BY <1>1, <3>8, ArmSingleKeeps DEF ArmSingle
    <3>9. CASE PostSingle(t)
      BY <3>9, PostSingleKeeps
    <3>10. CASE LookShare(t)
      BY <1>1, <3>10, LookShareKeeps DEF LookShare, unsent
    <3>11. CASE ConcludeShare(t)
      BY <1>1, <3>11, ConcludeShareKeeps DEF ConcludeShare
    <3>12. CASE KillShare(t)
      BY <1>1, <3>12, KillShareKeeps DEF KillShare
    <3> QED BY SMTT(90), <3>1, <3>2, <3>3, <3>4, <3>5, <3>6, <3>7, <3>8, <3>9, <3>10, <3>11,
      <3>12 DEF ShareTask
  <2>2. CASE \E m \in Share : ShareClaimLapses(m) \/ RepairShare(m)
    <3>1. PICK m \in Share : ShareClaimLapses(m) \/ RepairShare(m)
      BY SMTT(90), <2>2
    <3>2. CASE ShareClaimLapses(m)
      BY <1>1, <3>2, ShareLapseKeeps DEF ShareClaimLapses
    <3>3. CASE RepairShare(m)
      <4>1. ShareCore' /\ ShareRows' /\ ShareMail'
        BY <3>3, RepairShareKeeps
      <4>2. shared' = shared
        BY <3>3 DEF RepairShare
      <4> QED BY <1>1, <4>1, <4>2
    <3> QED BY <3>1, <3>2, <3>3
  <2> QED BY <1>3, <2>1, <2>2 DEF ShareNext
<1>4. ASSUME ShareNext PROVE shareFaults' \in 0 .. MaxCrashes
  <2>1. \/ shareFaults' = shareFaults
        \/ shareFaults < MaxCrashes /\ shareFaults' = shareFaults + 1
    <3>1. ASSUME NEW t \in Task, ShareTask(t) PROVE shareFaults' = shareFaults
      <4>1. CASE TakeShare(t) \/ ReadSources(t) \/ BatchDenied(t) \/ ArmBatch(t)
        BY ZenonT(90), <4>1 DEF TakeShare, ReadSources, BatchDenied, ArmBatch, unsent
      <4>2. CASE PostBatch(t) \/ EndBatch(t) \/ ArmSingle(t) \/ PostSingle(t)
        BY <4>2 DEF PostBatch, EndBatch, ArmSingle, PostSingle
      <4>3. CASE LookShare(t) \/ ConcludeShare(t)
        BY <4>3 DEF LookShare, ConcludeShare, unsent
      <4> QED BY SMTT(90), <3>1, <4>1, <4>2, <4>3 DEF ShareTask
    <3>2. ASSUME NEW t \in Task, KillShare(t)
          PROVE  shareFaults < MaxCrashes /\ shareFaults' = shareFaults + 1
      BY <3>2 DEF KillShare
    <3>3. ASSUME NEW m \in Share, ShareClaimLapses(m)
          PROVE  \/ shareFaults' = shareFaults
                 \/ shareFaults < MaxCrashes /\ shareFaults' = shareFaults + 1
      BY <3>3 DEF ShareClaimLapses
    <3>4. ASSUME NEW m \in Share, RepairShare(m) PROVE shareFaults' = shareFaults
      BY <3>4 DEF RepairShare
    <3> QED BY <1>4, <3>1, <3>2, <3>3, <3>4 DEF ShareNext
  <2> QED BY <1>1, <2>1, TasksOK
<1>5. ASSUME ShareNext PROVE ShareTypeOK'
  <2>1. ShareRows' /\ ShareMail' /\ shared' \in [Share -> Nat] /\ shareFaults' \in 0 .. MaxCrashes
    BY <1>3, <1>4, <1>5
  <2> QED BY <2>1 DEF ShareTypeOK, ShareRows, ShareMail, ShareRowType, BatchRowType,
    ShareRunType
<1> QED BY <1>2, <1>3, <1>5 DEF ShareInv

\* A material is shared to an account once, in a batch or by itself, what may be sent again

\* was certainly not shared, a batch has one receipt and its members stand as it does
\* (try_prepare_batch, _send_batch, _finish and run_distribution).
THEOREM ShareBatchIsSafe == ShareSpec => []ShareBatchSafe
<1>1. ShareInv => ShareBatchSafe
  BY DEF ShareInv, ShareCore, ShareBatchSafe
<1> QED BY <1>1, ShareStarts, ShareStep, PTL DEF ShareSpec

----------------------------------------------------------------------------
(* The temporary original of a material.  The invariant says of each row    *)
(* what the storage, the platform and the tasks' places must be like.       *)

Requested == {"armed", "signed"}
Collecting == {"collect", "collected"}
Completing == {"complete", "head", "stored", "failing"}
Cleans == {"clean", "check", "cleaned"}
Sent == {"sending", "result_unknown", "verifying", "succeeded"}

\* One Create and one Complete at most were carried out, and only a deletion takes the
\* object that a Complete made.
BucketBooks ==
  /\ bucket.creates = IF bucket.upload = "none" THEN 0 ELSE 1
  /\ bucket.completes = IF bucket.upload = "completed" THEN 1 ELSE 0
  /\ bucket.object => bucket.upload = "completed"
  /\ bucket.upload = "completed" => bucket.object \/ cleanup.sent = "delete"

\* Who is to send Create, or knows that it was not sent, is alone and has its marker behind
\* it; an upload that the row does not know of is still being asked for.
Creating(t) == work[t].at = "create" \/ (work[t].at = "created" /\ work[t].result = "unsent")
CreatesAlone ==
  /\ \A t \in Task : Creating(t) =>
       bucket.upload = "none" /\ original.phase \in CreatePhases
  /\ \A t, u \in Task : Creating(t) /\ Creating(u) => t = u
  /\ bucket.upload # "none" => original.upload \/ original.phase \in CreatePhases

\* The row knows less than the storage has; a source, a use and a verified status need the
\* object.
OriginalBooks ==
  /\ original.upload => bucket.upload # "none"
  /\ original.received =>
       original.upload /\ bucket.upload = "completed" /\ original.phase = "none"
  /\ original.status \in {"stored", "validating", "verified"} => original.received
  /\ source.status # "none" \/ cleanup.reason = "verified_source" => original.received
  /\ source.status # "none" => original.status \in {"verified"} \cup Closed
  /\ urlUse => original.received /\ cleanup.sent = "none"

\* A deletion that was sent has closed the object, and no use of a validation is left.
CleanupBooks ==
  /\ cleanup.sent # "none" =>
       /\ original.status \in Closed /\ original.phase \in {"none", "unavailable"}
       /\ original.upload /\ keeper = None /\ cleanup.status # "none" /\ reading = {}
  /\ cleanup.sent = "delete" => original.received
  /\ original.room = "released" => cleanup.sent # "none"

\* What a task may believe at its place, whether or not its claim is still its own.
WorkKnows(t) ==
  /\ work[t].at = "created" /\ work[t].result = "good" => bucket.upload # "none"
  /\ work[t].at \in Collecting \cup Completing => original.upload
  /\ work[t].at = "stored" => bucket.upload = "completed"
  /\ work[t].at = "read" /\ t \in reading => original.received /\ cleanup.sent = "none"
  /\ work[t].at \in Cleans => cleanup.sent # "none"
  /\ work[t].at = "cleaned" /\ work[t].result = "good" =>
       ~bucket.object /\ bucket.upload # "open"
  /\ work[t].at \in {"posted", "received"} => platform.made /\ work[t].result = "good"
  /\ work[t].at = "looked" /\ work[t].result = "good" => platform.made
  /\ work[t].at \in Requested =>
       /\ source.armed /\ source.status \in {"sending", "result_unknown"}
       /\ ~platform.made /\ ~platform.fetches
  /\ work[t].at = "signed" => urlUse

\* The run whose claim the object carries is where the phase says.
KeeperBooks ==
  \A t \in Task : keeper = t =>
    \/ work[t].at \in {"create", "relist", "created"} /\ original.phase \in CreatePhases
    \/ work[t].at \in Collecting /\ original.phase = "collecting"
    \/ work[t].at \in Completing /\ original.phase \in CompletePhases
    \/ /\ work[t].at \in {"read", "validated"} /\ original.status = "validating"
       /\ cleanup.status = "none" /\ t \in reading

\* The run whose claim the upload carries: only where nothing was sent, and nobody is about
\* to send, may it say so.
OwnerBooks ==
  \A t \in Task : sourceOwner = t =>
    /\ source.status # "none"
    /\ work[t].at \in {"url", "posted", "received", "looked", "url_failing"} \cup Requested
    /\ work[t].at \notin {"url", "url_failing"} => source.armed
    /\ work[t].at = "url_failing" =>
         IF work[t].result \in {"unsent", "deferred"}
         THEN /\ ~platform.made /\ ~platform.fetches
              /\ \A u \in Task : work[u].at \notin Requested
         ELSE source.armed

\* send_armed and the status say the same; the platform did nothing unasked, and one task
\* at most is about to ask it.
SourceBooks ==
  /\ source.armed <=> source.status \in Sent
  /\ platform.made \/ platform.fetches => source.armed
  /\ source.video \/ source.status = "verifying" => platform.made
  /\ ~(platform.made /\ platform.fetches)
  /\ platform.fetches => urlUse
  /\ \A t, u \in Task : work[t].at \in Requested /\ work[u].at \in Requested => t = u

\* A PUT that is under way has a permit without a receipt, and such a permit is released by
\* a Complete only.
PermitBooks ==
  \A p \in Permit :
    /\ permit[p].put = "flying" => permit[p].use # "none" /\ permit[p].receipt = "signed"
    /\ permit[p].use = "released" =>
         permit[p].receipt # "signed" \/ bucket.upload = "completed"
    /\ permit[p].use # "none" => original.upload

\* The types, row by row.
OriginalRow == [status : {"waiting_capacity", "reserved", "receiving", "stored",
                          "validating", "verified"} \cup Closed,
                phase : {"none", "unavailable", "collecting"} \cup CreatePhases
                          \cup CompletePhases,
                live : BOOLEAN, upload : BOOLEAN, received : BOOLEAN,
                room : {"none", "reserved", "released"}, cancelled : BOOLEAN]
CleanupRow == [status : {"none", "pending", "deleting", "delete_unknown", "deleted"},
               reason : {"none", "user_cancelled", "abandoned", "verified_source"},
               sent : {"none", "delete", "abort"}, live : BOOLEAN]
PermitRow == [use : {"none", "active", "released"}, expired : BOOLEAN,
              receipt : {"signed", "completed", "unused"},
              put : {"idle", "flying", "landed", "lost"}]
SourceRow == [status : {"none", "failed", "succeeded"} \cup Undecided,
              armed : BOOLEAN, video : BOOLEAN, live : BOOLEAN]
Places == {"idle", "create", "relist", "created", "collect", "collected",
           "complete", "head", "stored", "failing", "read", "validated",
           "clean", "check", "cleaned", "url", "armed", "signed",
           "posted", "received", "looked", "url_failing"}
Results == {"none", "good", "bad", "unknown", "deferred", "unsent"}
WorkRow == [at : Places, result : Results]
BucketRow == [upload : {"none", "open", "completed", "aborted"}, parts : BOOLEAN,
              object : BOOLEAN, creates : Nat, completes : Nat]
PlatformRow == [fetches : BOOLEAN, made : BOOLEAN]

OriginalTypes ==
  /\ original \in OriginalRow /\ cleanup \in CleanupRow /\ permit \in [Permit -> PermitRow]
  /\ source \in SourceRow /\ work \in [Task -> WorkRow] /\ bucket \in BucketRow
  /\ platform \in PlatformRow
  /\ keeper \in Task \cup {None} /\ cleaner \in Task \cup {None}
  /\ sourceOwner \in Task \cup {None} /\ reading \subseteq Task \cup {"left"}
  /\ urlUse \in BOOLEAN
  /\ mail \in {"none", "first", "upload", "verify", "claim_upload", "claim_verify"}
  /\ originalFaults \in 0 .. MaxCrashes

WorkKnown == \A t \in Task : WorkKnows(t)

OriginalCore == /\ BucketBooks /\ CreatesAlone /\ OriginalBooks /\ CleanupBooks
                /\ WorkKnown /\ KeeperBooks /\ OwnerBooks /\ SourceBooks /\ PermitBooks
                /\ FreedIsClosed
OriginalInv == OriginalTypes /\ OriginalCore

\* The rows above are those of OriginalTypeOK.
LEMMA TypesAreTyped == OriginalTypes <=> OriginalTypeOK
BY SMTT(90) DEF OriginalTypes, OriginalTypeOK, OriginalRow, CleanupRow, PermitRow,
   SourceRow,
   Places, Results, WorkRow,
       BucketRow, PlatformRow

\* Every step keeps the types.
LEMMA OriginalTypesStay ==
  ASSUME OriginalTypes, OriginalNext
  PROVE  OriginalTypes'
<1> USE TasksOK DEF OriginalTypes, remote, storeVars, sourceVars, Closed, CreatePhases,
    CompletePhases, Undecided
<1>1. ASSUME NEW t \in Task, Resume(t) PROVE OriginalTypes'
  <2>1. original' \in OriginalRow
    BY ZenonT(90), <1>1 DEF OriginalRow, Resume, Recoverable, OnObject
  <2> QED BY <1>1, <2>1 DEF Resume, Recoverable, OnObject, Work, Rests, NoWork, WorkRow,
    Places,
      Results
<1>2. ASSUME NEW t \in Task, CallCreate(t) PROVE OriginalTypes'
  <2>1. CASE UNCHANGED bucket
    BY <1>2, <2>1 DEF CallCreate, Calls, Work, WorkRow, Places, Results
  <2>2. CASE bucket' = [bucket EXCEPT !.upload = "open", !.creates = bucket.creates + 1]
    <3>1. bucket.creates + 1 \in Nat
      BY DEF BucketRow
    <3>2. bucket' \in BucketRow
      BY <2>2, <3>1 DEF BucketRow
    <3> QED BY <1>2, <3>2 DEF CallCreate, Calls, Work, WorkRow, Places, Results
  <2> QED BY <1>2, <2>1, <2>2 DEF CallCreate
<1>3. ASSUME NEW t \in Task, Relist(t) PROVE OriginalTypes'
  BY <1>3 DEF Relist, Calls, NoAnswer, Fault, Work, Rests, NoWork, WorkRow, Places, Results
<1>4. ASSUME NEW t \in Task, StoreCreate(t) PROVE OriginalTypes'
  <2>1. original' \in OriginalRow
    BY ZenonT(90), <1>4 DEF OriginalRow, StoreCreate, Unclaimed, OnObject
  <2> QED BY <1>4, <2>1 DEF StoreCreate, Unclaimed, OnObject, Work, Rests, NoWork, WorkRow,
      Places, Results
<1>5. ASSUME NEW p \in Permit, SignPart(p) PROVE OriginalTypes'
  <2>1. permit' \in [Permit -> PermitRow]
    BY <1>5 DEF PermitRow, SignPart
  <2> QED BY <1>5, <2>1 DEF SignPart
<1>6. ASSUME NEW p \in Permit, PutStarts(p) PROVE OriginalTypes'
  <2>1. permit' \in [Permit -> PermitRow]
    BY <1>6 DEF PermitRow, PutStarts, browser
  <2> QED BY <1>6, <2>1 DEF PutStarts, browser
<1>7. ASSUME NEW p \in Permit, PutEnds(p) PROVE OriginalTypes'
  <2>1. permit' \in [Permit -> PermitRow]
    BY <1>7 DEF PermitRow, PutEnds, browser
  <2>2. bucket' \in BucketRow
    BY ZenonT(90), <1>7 DEF BucketRow, PutEnds, browser
  <2> QED BY <1>7, <2>1, <2>2 DEF PutEnds, browser
<1>8. ASSUME NEW p \in Permit, PermitExpires(p) PROVE OriginalTypes'
  <2>1. permit' \in [Permit -> PermitRow]
    BY ZenonT(90), <1>8 DEF PermitRow, PermitExpires, browser
  <2> QED BY <1>8, <2>1 DEF PermitExpires, browser
<1>9. ASSUME NEW p \in Permit, Acknowledge(p) PROVE OriginalTypes'
  <2>1. permit' \in [Permit -> PermitRow]
    BY <1>9 DEF PermitRow, Acknowledge, browser
  <2> QED BY <1>9, <2>1 DEF Acknowledge, browser
<1>10. ASSUME NEW t \in Task, Completes(t) PROVE OriginalTypes'
  <2>1. original' \in OriginalRow
    BY ZenonT(90), <1>10 DEF OriginalRow, Completes, OnObject
  <2> QED BY <1>10, <2>1 DEF Completes, OnObject, Work, Rests, NoWork, WorkRow, Places,
    Results
<1>11. ASSUME NEW t \in Task, CallListParts(t) PROVE OriginalTypes'
  BY <1>11 DEF CallListParts, Calls, Work, Rests, NoWork, WorkRow, Places, Results
<1>12. ASSUME NEW t \in Task, ArmComplete(t) PROVE OriginalTypes'
  <2>1. original' \in OriginalRow
    <3>1. CASE original' = [original EXCEPT !.phase = "completing"]
      BY <3>1 DEF OriginalRow
    <3>2. CASE original' = original
      BY <3>2
    <3>3. CASE original' = [Unclaimed(original) EXCEPT !.phase = "collecting"]
      BY ZenonT(90), <3>3 DEF OriginalRow, Unclaimed
    <3>4. CASE original' = [Unclaimed(original) EXCEPT !.phase = "none"]
      BY <3>4 DEF OriginalRow, Unclaimed
    <3> QED BY <1>12, <3>1, <3>2, <3>3, <3>4 DEF ArmComplete
  <2> QED BY <1>12, <2>1 DEF ArmComplete, Unclaimed, OnObject, Work, Rests, NoWork, WorkRow,
      Places, Results
<1>13. ASSUME NEW t \in Task, CallComplete(t) PROVE OriginalTypes'
  <2>1. CASE UNCHANGED bucket
    BY SMTT(90), <1>13, <2>1 DEF CallComplete, Calls, Work, WorkRow, Places, Results
  <2>2. CASE bucket' = [bucket EXCEPT !.upload = "completed", !.parts = FALSE, !.object = TRUE,
                                      !.completes = bucket.completes + 1]
    <3>1. bucket.completes + 1 \in Nat
      BY DEF BucketRow
    <3>2. bucket' \in BucketRow
      BY <2>2, <3>1 DEF BucketRow
    <3> QED BY <1>13, <3>2 DEF CallComplete, Calls, Work, WorkRow, Places, Results
  <2> QED BY <1>13, <2>1, <2>2 DEF CallComplete
<1>14. ASSUME NEW t \in Task, CallHead(t) PROVE OriginalTypes'
  BY <1>14 DEF CallHead, Calls, NoAnswer, Fault, Work, Rests, NoWork, WorkRow, Places,
     Results
<1>15. ASSUME NEW t \in Task, StoreComplete(t) PROVE OriginalTypes'
  <2>1. original' \in OriginalRow
    <3>1. CASE keeper # t
      BY <1>15, <3>1 DEF StoreComplete
    <3>2. CASE keeper = t
      <4>1. PICK s \in {"cleanup_pending", "stored"} :
              original' = [Unclaimed(original) EXCEPT !.received = TRUE, !.phase = "none",
                                                      !.status = s]
        BY <1>15, <3>2 DEF StoreComplete
      <4>2. Unclaimed(original) \in OriginalRow
        BY DEF Unclaimed, OriginalRow
      <4> HIDE DEF Unclaimed
      <4> QED BY ZenonT(90), <4>1, <4>2 DEF OriginalRow
    <3> QED BY <3>1, <3>2
  <2>2. permit' \in [Permit -> PermitRow]
    BY <1>15 DEF PermitRow, StoreComplete
  <2> QED BY <1>15, <2>1, <2>2 DEF StoreComplete, Rests, NoWork, WorkRow, Places, Results
<1>16. ASSUME NEW t \in Task, CompleteFails(t) PROVE OriginalTypes'
  <2>1. original' \in OriginalRow
    BY ZenonT(90), <1>16 DEF OriginalRow, CompleteFails, Unclaimed, OnObject
  <2> QED BY <1>16, <2>1 DEF CompleteFails, Unclaimed, OnObject, Work, Rests, NoWork,
    WorkRow,
      Places, Results
<1>17. ASSUME NEW t \in Task, Validate(t) PROVE OriginalTypes'
  <2>1. original' \in OriginalRow
    BY <1>17 DEF OriginalRow, Validate
  <2> QED BY <1>17, <2>1 DEF Validate, Work, Rests, NoWork, WorkRow, Places, Results
<1>18. ASSUME NEW t \in Task, ReadOriginal(t) PROVE OriginalTypes'
  BY <1>18 DEF ReadOriginal, Calls, Work, Rests, NoWork, WorkRow, Places, Results
<1>19. ASSUME NEW t \in Task, StoreValidation(t) PROVE OriginalTypes'
  <2>1. original' \in OriginalRow
    <3>1. CASE original' = original
      BY <3>1
    <3>2. CASE original' = [Unclaimed(original) EXCEPT !.status = "verified"]
      BY <3>2 DEF OriginalRow, Unclaimed
    <3>3. CASE original' = [Unclaimed(original) EXCEPT !.status = "stored"]
      BY <3>3 DEF OriginalRow, Unclaimed
    <3> QED BY <1>19, <3>1, <3>2, <3>3 DEF StoreValidation, StillClaimed
  <2>2. reading' \subseteq Task \cup {"left"}
    BY <1>19 DEF StoreValidation, StillClaimed, Unclaimed
  <2> QED BY <1>19, <2>1, <2>2 DEF StoreValidation, StillClaimed, Unclaimed, Work, Rests, NoWork, WorkRow,
      Places, Results
<1>20. ASSUME NEW t \in Task, NewUpload(t) PROVE OriginalTypes'
  <2>1. source' \in SourceRow
    BY <1>20 DEF SourceRow, NewUpload, onSource
  <2> QED BY <1>20, <2>1 DEF NewUpload, onSource, Work, Rests, NoWork, WorkRow, Places,
    Results
<1>21. ASSUME NEW t \in Task, ClaimUpload(t) PROVE OriginalTypes'
  <2>1. source' \in SourceRow
    BY <1>21 DEF SourceRow, ClaimUpload, onSource, SourceDue, SourceKind, Expected
  <2> QED BY <1>21, <2>1 DEF ClaimUpload, onSource, SourceDue, SourceKind, Expected, Work,
      Rests, NoWork, WorkRow, Places, Results
<1>22. ASSUME NEW t \in Task, ArmUpload(t) PROVE OriginalTypes'
  <2>1. source' \in SourceRow
    BY ZenonT(90), <1>22 DEF SourceRow, ArmUpload, onSource
  <2> QED BY <1>22, <2>1 DEF ArmUpload, onSource, Work, Rests, NoWork, WorkRow, Places,
    Results
<1>23. ASSUME NEW t \in Task, UploadDenied(t) PROVE OriginalTypes'
  BY <1>23 DEF UploadDenied, onSource, Work, Rests, NoWork, WorkRow, Places, Results
<1>24. ASSUME NEW t \in Task, SignUrl(t) PROVE OriginalTypes'
  <2>1. urlUse' \in BOOLEAN
    BY <1>24 DEF SignUrl, onSource
  <2> QED BY <1>24, <2>1 DEF SignUrl, onSource, Work, Rests, NoWork, WorkRow, Places,
    Results
<1>25. ASSUME NEW t \in Task, PostUrl(t) PROVE OriginalTypes'
  <2>1. platform' \in PlatformRow
    BY <1>25 DEF PlatformRow, PostUrl
  <2> QED BY <1>25, <2>1 DEF PostUrl, Work, Rests, NoWork, WorkRow, Places, Results
<1>26. ASSUME NEW t \in Task, StoreUrlReceipt(t) PROVE OriginalTypes'
  <2>1. source' \in SourceRow
    BY <1>26 DEF SourceRow, StoreUrlReceipt, onSource
  <2> QED BY <1>26, <2>1 DEF StoreUrlReceipt, onSource, Work, Rests, NoWork, WorkRow,
    Places,
      Results
<1>27. ASSUME NEW t \in Task, LookUpload(t) PROVE OriginalTypes'
  BY <1>27 DEF LookUpload, onSource, Work, Rests, NoWork, WorkRow, Places, Results
<1>28. ASSUME NEW t \in Task, FinishUpload(t) PROVE OriginalTypes'
  <2>1. source' \in SourceRow
    BY ZenonT(90), <1>28 DEF SourceRow, FinishUpload, Intent
  <2>2. cleanup' \in CleanupRow
    BY <1>28 DEF CleanupRow, FinishUpload, Intent
  <2>3. original' \in OriginalRow
    BY <1>28 DEF OriginalRow, FinishUpload, Intent
  <2>4. urlUse' \in BOOLEAN
    BY <1>28 DEF FinishUpload, Intent
  <2> QED BY <1>28, <2>1, <2>2, <2>3, <2>4 DEF FinishUpload, Intent, Work, Rests, NoWork,
      WorkRow, Places, Results
<1>29. ASSUME NEW t \in Task, UploadFails(t) PROVE OriginalTypes'
  <2>1. source' \in SourceRow
    BY ZenonT(90), <1>29 DEF SourceRow, UploadFails, onSource
  <2>2. urlUse' \in BOOLEAN
    BY <1>29 DEF UploadFails, onSource
  <2> QED BY <1>29, <2>1, <2>2 DEF UploadFails, onSource, Work, Rests, NoWork, WorkRow,
    Places,
      Results
<1>30. ASSUME NEW t \in Task, FinishFails(t) PROVE OriginalTypes'
  BY <1>30 DEF FinishFails, onSource, Work, Rests, NoWork, WorkRow, Places, Results
<1>31. ASSUME NEW t \in Task, UploadTaken(t) PROVE OriginalTypes'
  BY <1>31 DEF UploadTaken, onSource, Work, Rests, NoWork, WorkRow, Places, Results
<1>32. ASSUME NEW t \in Task, StartCleanup(t) PROVE OriginalTypes'
  <2>1. cleanup' \in CleanupRow /\ cleanup'.status \in {"deleting", "delete_unknown"}
    BY ZenonT(90), <1>32 DEF CleanupRow, StartCleanup, CleanupDue, NothingUnknown, Transport, Readings,
       InUse, LateListing
  <2>2. original' \in OriginalRow
    <3>1. \/ original' = [original EXCEPT !.status = cleanup'.status, !.phase = "none"]
          \/ original' = [original EXCEPT !.status = cleanup'.status, !.phase = original.phase]
      BY <1>32 DEF StartCleanup
    <3>2. CASE original' = [original EXCEPT !.status = cleanup'.status, !.phase = "none"]
      BY ZenonT(90), <2>1, <3>2 DEF OriginalRow
    <3>3. CASE original' = [original EXCEPT !.status = cleanup'.status,
                                            !.phase = original.phase]
      BY ZenonT(90), <2>1, <3>3 DEF OriginalRow
    <3> QED BY <3>1, <3>2, <3>3
  <2>3. reading' \subseteq Task \cup {"left"}
    BY <1>32 DEF StartCleanup, Readings
  <2> QED BY <1>32, <2>1, <2>2, <2>3 DEF StartCleanup, Work, WorkRow, Places, Results
<1>33. ASSUME NEW t \in Task, CallDelete(t) PROVE OriginalTypes'
  <2>1. bucket' \in BucketRow
    BY ZenonT(90), <1>33 DEF BucketRow, CallDelete, Calls, NoAnswer, Fault
  <2> QED BY <1>33, <2>1 DEF CallDelete, Calls, NoAnswer, Fault, Work, Rests, NoWork,
    WorkRow,
      Places, Results
<1>34. ASSUME NEW t \in Task, CheckDeleted(t) PROVE OriginalTypes'
  BY <1>34 DEF CheckDeleted, Calls, NoAnswer, Fault, Work, Rests, NoWork, WorkRow, Places,
      Results
<1>35. ASSUME NEW t \in Task, StoreCleanup(t) PROVE OriginalTypes'
  <2>1. permit' \in [Permit -> PermitRow]
    BY <1>35 DEF PermitRow, StoreCleanup, Acknowledged, Readings
  <2>2. original' \in OriginalRow
    <3>1. \/ original' = original
          \/ original' = [original EXCEPT !.status = "deleted", !.phase = "none",
                                          !.room = "released"]
          \/ original' = [original EXCEPT !.status = "delete_unknown"]
      BY <1>35 DEF StoreCleanup
    <3>2. CASE original' = original
      BY <3>2
    <3>3. CASE original' = [original EXCEPT !.status = "deleted", !.phase = "none",
                                            !.room = "released"]
      BY ZenonT(90), <3>3 DEF OriginalRow
    <3>4. CASE original' = [original EXCEPT !.status = "delete_unknown"]
      BY <3>4 DEF OriginalRow
    <3> QED BY <3>1, <3>2, <3>3, <3>4
  <2>3. cleanup' \in CleanupRow
    BY ZenonT(90), <1>35 DEF CleanupRow, StoreCleanup, Acknowledged, Readings
  <2>4. reading' \subseteq Task \cup {"left"}
    BY <1>35 DEF StoreCleanup, Readings
  <2> QED BY <1>35, <2>1, <2>2, <2>3, <2>4 DEF StoreCleanup, Rests, NoWork, WorkRow, Places,
    Results
<1>36. ASSUME NEW t \in Task, KillWork(t) PROVE OriginalTypes'
  <2>1. reading' \subseteq Task \cup {"left"}
    BY <1>36 DEF KillWork, Fault
  <2>2. keeper' \in Task \cup {None}
    BY <1>36 DEF KillWork, Fault
  <2>3. cleaner' \in Task \cup {None}
    BY <1>36 DEF KillWork, Fault
  <2>4. sourceOwner' \in Task \cup {None}
    BY <1>36 DEF KillWork, Fault
  <2> QED BY <1>36, <2>1, <2>2, <2>3, <2>4 DEF KillWork, Fault, Work, Rests, NoWork,
    WorkRow,
      Places, Results
<1>37. CASE Cancel
  <2>1. original' \in OriginalRow
    <3>1. CASE original' = [original EXCEPT !.cancelled = TRUE]
      BY <3>1 DEF OriginalRow
    <3>2. CASE original' = [original EXCEPT !.cancelled = TRUE, !.status = "cleanup_pending"]
      BY <3>2 DEF OriginalRow
    <3> QED BY <1>37, <3>1, <3>2 DEF Cancel
  <2>2. cleanup' \in CleanupRow
    BY ZenonT(90), <1>37 DEF CleanupRow, Cancel, Untouched, Intent
  <2> QED BY <1>37, <2>1, <2>2 DEF Cancel, Untouched, Intent
<1>38. CASE Abandon
  <2>1. original' \in OriginalRow
    BY <1>38 DEF OriginalRow, Abandon, Intent
  <2>2. cleanup' \in CleanupRow
    BY <1>38 DEF CleanupRow, Abandon, Intent
  <2> QED BY <1>38, <2>1, <2>2 DEF Abandon, Intent
<1>39. CASE UploadExpired
  <2>1. source' \in SourceRow
    BY <1>39 DEF SourceRow, UploadExpired, onSource, SourceDue, SourceKind, Expected
  <2> QED BY <1>39, <2>1 DEF UploadExpired, onSource, SourceDue, SourceKind, Expected
<1>40. CASE PlatformFetches
  <2>1. platform' \in PlatformRow
    BY <1>40 DEF PlatformRow, PlatformFetches
  <2> QED BY <1>40, <2>1 DEF PlatformFetches
<1>41. CASE RetryUpload
  <2>1. source' \in SourceRow
    BY <1>41 DEF SourceRow, RetryUpload, onSource
  <2> QED BY <1>41, <2>1 DEF RetryUpload, onSource
<1>42. CASE CleanupDeferred
  <2>1. original' \in OriginalRow
    BY <1>42 DEF OriginalRow, CleanupDeferred, CleanupDue, NothingUnknown, Transport,
       Readings,
        InUse, LateListing, Fence
  <2>2. reading' \subseteq Task \cup {"left"}
    BY <1>42 DEF CleanupDeferred, Readings
  <2> QED BY <1>42, <2>1, <2>2 DEF CleanupDeferred, LateListing, Fence
<1>43. CASE ObjectClaimLapses
  <2>1. original' \in OriginalRow
    BY <1>43 DEF OriginalRow, ObjectClaimLapses, Lapses, Fault
  <2> QED BY <1>43, <2>1 DEF ObjectClaimLapses, Lapses, Fault
<1>44. CASE CleanupClaimLapses
  <2>1. cleanup' \in CleanupRow
    BY <1>44 DEF CleanupRow, CleanupClaimLapses, Lapses, Fault
  <2> QED BY <1>44, <2>1 DEF CleanupClaimLapses, Lapses, Fault
<1>45. CASE SourceClaimLapses
  <2>1. source' \in SourceRow
    BY <1>45 DEF SourceRow, SourceClaimLapses, Lapses, Fault
  <2> QED BY <1>45, <2>1 DEF SourceClaimLapses, Lapses, Fault
<1> QED BY SMTT(90), <1>1, <1>2, <1>3, <1>4, <1>5, <1>6, <1>7, <1>8, <1>9, <1>10, <1>11,
  <1>12, <1>13,
    <1>14, <1>15, <1>16, <1>17, <1>18, <1>19, <1>20, <1>21, <1>22, <1>23, <1>24, <1>25, <1>26,
    <1>27, <1>28, <1>29, <1>30, <1>31, <1>32, <1>33, <1>34, <1>35, <1>36, <1>37, <1>38, <1>39,
    <1>40, <1>41, <1>42, <1>43, <1>44, <1>45 DEF OriginalNext, Transports, SourceTask, Cleaning,
    ClaimsLapse

\* What the larger steps do, as far as the invariant can tell: here Create.
LEMMA CallCreateDoes ==
  ASSUME OriginalInv, NEW t \in Task, CallCreate(t)
  PROVE  /\ \A u \in Task \ {t} : work'[u] = work[u]
         /\ work[t].at = "create" /\ bucket.upload = "none" /\ bucket.creates = 0
         /\ work'[t].at = "created"
         /\ \/ /\ bucket'.upload = "open" /\ bucket'.creates = 1
               /\ bucket'.completes = bucket.completes
               /\ bucket'.object = bucket.object /\ work'[t].result \in {"good", "unknown"}
            \/ bucket' = bucket /\ work'[t].result \in {"unsent", "unknown"}
         /\ UNCHANGED <<original, keeper, cleanup, cleaner, permit, reading, source,
                        sourceOwner, urlUse, mail, platform>>
<1> USE TasksOK DEF OriginalInv, OriginalTypes, OriginalCore, CreatesAlone, Creating,
    BucketBooks, BucketRow, remote, storeVars, sourceVars
<1>1. \A u \in Task \ {t} : work'[u] = work[u]
  BY DEF CallCreate, Calls, Work, Rests, NoWork, WorkRow
<1>2. work[t].at = "create" /\ bucket.upload = "none" /\ bucket.creates = 0
  BY DEF CallCreate, Calls, Work, Rests, NoWork, WorkRow
<1>3. work'[t].at = "created"
  BY DEF CallCreate, Calls, Work, Rests, NoWork, WorkRow
<1>4. \/ /\ bucket'.upload = "open" /\ bucket'.creates = 1
         /\ bucket'.completes = bucket.completes
         /\ bucket'.object = bucket.object /\ work'[t].result \in {"good", "unknown"}
      \/ bucket' = bucket /\ work'[t].result \in {"unsent", "unknown"}
  <2>1. CASE bucket' = [bucket EXCEPT !.upload = "open", !.creates = @ + 1]
    <3>1. \E r \in {"good", "unknown"} : Work(t, "created", r)
      BY <2>1 DEF CallCreate
    <3> QED BY <2>1, <3>1 DEF CallCreate, Work, WorkRow
  <2>2. CASE bucket' = bucket
    <3>1. \E r \in {"unsent", "unknown"} : Work(t, "created", r)
      BY <2>2 DEF CallCreate
    <3> QED BY <2>2, <3>1 DEF Work, WorkRow
  <2> QED BY <2>1, <2>2 DEF CallCreate
<1>5. UNCHANGED <<original, keeper, cleanup, cleaner, permit, reading, source, sourceOwner,
                  urlUse, mail, platform>>
  BY DEF CallCreate, Calls, Work, Rests, NoWork, WorkRow
<1> QED BY <1>1, <1>2, <1>3, <1>4, <1>5

\* The steps of resume_file keep the invariant.
LEMMA CreationKeeps ==
  ASSUME OriginalInv, NEW t \in Task,
         Resume(t) \/ CallCreate(t) \/ Relist(t) \/ StoreCreate(t)
  PROVE  OriginalCore'
<1> USE TasksOK, OriginalOK DEF OriginalInv, OriginalCore, BucketBooks, CreatesAlone, Creating,
    OriginalBooks, CleanupBooks, WorkKnown, WorkKnows, KeeperBooks, OwnerBooks, SourceBooks,
    PermitBooks, FreedIsClosed, NothingComes, OriginalTypes, OriginalRow, CleanupRow, SourceRow,
    BucketRow, PlatformRow, WorkRow, PermitRow, Requested, Collecting, Completing, Cleans, Sent,
    Closed, CreatePhases, CompletePhases, Undecided, remote, storeVars, sourceVars, Work, Rests,
    NoWork
<1>1. CASE Resume(t)
  BY SMTT(90), <1>1 DEF Resume, Recoverable, OnObject
<1>2. CASE CallCreate(t)
  <2>1. BucketBooks'
    BY SMTT(90), <1>2, CallCreateDoes
  <2>2. CreatesAlone'
    <3>1. /\ Creating(t) /\ bucket.upload = "none" /\ original.phase \in CreatePhases
          /\ UNCHANGED original
      BY SMTT(90), <1>2, CallCreateDoes
    <3>2. \A u \in Task : Creating(u) => u = t
      BY SMTT(90), <3>1
    <3>3. \A u \in Task : Creating(u)' => u = t
      BY SMTT(90), <3>2, <1>2, CallCreateDoes
    <3>4. Creating(t)' => bucket'.upload = "none"
      BY SMTT(90), <3>1, <1>2, CallCreateDoes
    <3> QED BY SMTT(90), <3>1, <3>3, <3>4
  <2>3. OriginalBooks'
    BY SMTT(90), <1>2, CallCreateDoes
  <2>4. CleanupBooks'
    BY SMTT(90), <1>2, CallCreateDoes
  <2>5. WorkKnown'
    BY SMTT(90), <1>2, CallCreateDoes
  <2>6. KeeperBooks'
    BY SMTT(90), <1>2, CallCreateDoes
  <2>7. OwnerBooks'
    <3>1. sourceOwner # t
      BY SMTT(90), <1>2, CallCreateDoes
    <3>2. \A u \in Task : sourceOwner' = u => u # t /\ work'[u] = work[u] /\ sourceOwner = u
      BY SMTT(90), <3>1, <1>2, CallCreateDoes
    <3>3. \A u \in Task : work'[u].at \in Requested => work[u].at \in Requested
      BY SMTT(90), <1>2, CallCreateDoes
    <3>4. UNCHANGED <<source, platform>>
      BY <1>2, CallCreateDoes
    <3> QED BY SMTT(90), <3>2, <3>3, <3>4
  <2>8. SourceBooks'
    <3>1. UNCHANGED <<source, platform, urlUse>>
      BY SMTT(90), <1>2, CallCreateDoes
    <3>2. \A u \in Task : work'[u].at \in Requested => work[u].at \in Requested
      BY <1>2, CallCreateDoes
    <3> QED BY SMTT(90), <3>1, <3>2
  <2>9. PermitBooks'
    BY SMTT(90), <1>2, CallCreateDoes
  <2>10. FreedIsClosed'
    BY <1>2, CallCreateDoes, SMTT(90)
  <2> QED BY SMTT(90), <2>1, <2>2, <2>3, <2>4, <2>5, <2>6, <2>7, <2>8, <2>9, <2>10
<1>3. CASE Relist(t)
  <2>1. CASE Work(t, "created", "good")
    BY SMTT(90), <1>3, <2>1 DEF Relist, Calls, NoAnswer, Fault
  <2>2. CASE Work(t, "created", "unknown")
    BY SMTT(90), <1>3, <2>2 DEF Relist, Calls, NoAnswer, Fault
  <2> QED BY SMTT(90), <1>3, <2>1, <2>2 DEF Relist, Calls, NoAnswer, Fault
<1>4. CASE StoreCreate(t)
  BY <1>4, SMTT(90) DEF StoreCreate, Unclaimed, OnObject
<1> QED BY SMTT(90), <1>1, <1>2, <1>3, <1>4

\* So do those of the browser and its permits,
LEMMA BrowserKeeps ==
  ASSUME OriginalInv, NEW p \in Permit,
         SignPart(p) \/ PutStarts(p) \/ PutEnds(p) \/ PermitExpires(p) \/ Acknowledge(p)
  PROVE  OriginalCore'
<1> USE TasksOK, OriginalOK DEF OriginalInv, OriginalCore, BucketBooks, CreatesAlone, Creating,
    OriginalBooks, CleanupBooks, WorkKnown, WorkKnows, KeeperBooks, OwnerBooks, SourceBooks,
    PermitBooks, FreedIsClosed, NothingComes, OriginalTypes, OriginalRow, CleanupRow, SourceRow,
    BucketRow, PlatformRow, WorkRow, PermitRow, Requested, Collecting, Completing, Cleans, Sent,
    Closed, CreatePhases, CompletePhases, Undecided, remote, storeVars, sourceVars, Work, Rests,
    NoWork
<1>1. CASE SignPart(p)
  BY SMTT(90), <1>1 DEF SignPart
<1>2. CASE PutStarts(p)
  BY SMTT(90), <1>2 DEF PutStarts, browser
<1>3. CASE PutEnds(p)
  <2>1. BucketBooks'
    BY SMTT(90), <1>3 DEF PutEnds, browser
  <2>2. CreatesAlone'
    BY SMTT(90), <1>3 DEF PutEnds, browser
  <2>3. OriginalBooks'
    BY SMTT(90), <1>3 DEF PutEnds, browser
  <2>4. CleanupBooks'
    BY SMTT(90), <1>3 DEF PutEnds, browser
  <2>5. WorkKnown'
    <3>1. bucket'.upload = bucket.upload /\ bucket'.object = bucket.object
      BY SMTT(90), <1>3 DEF PutEnds, browser
    <3>2. UNCHANGED <<original, cleanup, reading, source, urlUse, work, platform>>
      BY SMTT(90), <1>3 DEF PutEnds, browser
    <3> QED BY SMTT(90), <3>1, <3>2
  <2>6. KeeperBooks'
    BY SMTT(90), <1>3 DEF PutEnds, browser
  <2>7. OwnerBooks'
    BY SMTT(90), <1>3 DEF PutEnds, browser
  <2>8. SourceBooks'
    BY SMTT(90), <1>3 DEF PutEnds, browser
  <2>9. PermitBooks'
    BY SMTT(90), <1>3 DEF PutEnds, browser
  <2>10. FreedIsClosed'
    BY <1>3 DEF PutEnds, browser
  <2> QED BY SMTT(90), <2>1, <2>2, <2>3, <2>4, <2>5, <2>6, <2>7, <2>8, <2>9, <2>10
<1>4. CASE PermitExpires(p)
  BY SMTT(90), <1>4 DEF PermitExpires, browser
<1>5. CASE Acknowledge(p)
  <2>1. BucketBooks'
    BY SMTT(90), <1>5 DEF Acknowledge, browser
  <2>2. CreatesAlone'
    BY SMTT(90), <1>5 DEF Acknowledge, browser
  <2>3. OriginalBooks'
    BY SMTT(90), <1>5 DEF Acknowledge, browser
  <2>4. CleanupBooks'
    BY SMTT(90), <1>5 DEF Acknowledge, browser
  <2>5. WorkKnown'
    BY SMTT(90), <1>5 DEF Acknowledge, browser
  <2>6. KeeperBooks'
    BY SMTT(90), <1>5 DEF Acknowledge, browser
  <2>7. OwnerBooks'
    BY SMTT(90), <1>5 DEF Acknowledge, browser
  <2>8. SourceBooks'
    BY SMTT(90), <1>5 DEF Acknowledge, browser
  <2>9. PermitBooks'
    BY SMTT(90), <1>5 DEF Acknowledge, browser
  <2>10. FreedIsClosed'
    <3>1. \A q \in Permit : permit'[q].put = permit[q].put
      BY SMTT(90), <1>5 DEF Acknowledge, browser
    <3>2. UNCHANGED <<original, bucket>>
      BY <1>5 DEF Acknowledge, browser
    <3> QED BY <3>1, <3>2
  <2> QED BY <2>1, <2>2, <2>3, <2>4, <2>5, <2>6, <2>7, <2>8, <2>9, <2>10
<1> QED BY SMTT(90), <1>1, <1>2, <1>3, <1>4, <1>5

\* The marker of Complete, or the end of the listing.
LEMMA ArmCompleteDoes ==
  ASSUME OriginalInv, NEW t \in Task, ArmComplete(t)
  PROVE  /\ \A u \in Task \ {t} : work'[u] = work[u]
         /\ work[t].at = "collected"
         /\ \/ /\ keeper = t /\ original.status = "receiving" /\ UNCHANGED keeper
               /\ original'.phase = "completing" /\ work'[t].at = "complete"
               /\ work'[t].result = "none"
            \/ /\ keeper # t /\ UNCHANGED <<original, keeper>> /\ work'[t].at = "idle"
            \/ /\ keeper = t /\ keeper' = None /\ original'.phase \in {"collecting", "none"}
               /\ work'[t].at = "idle"
         /\ original'.status = original.status /\ original'.upload = original.upload
         /\ original'.received = original.received
         /\ original'.room = original.room
         /\ UNCHANGED <<cleanup, cleaner, permit, reading, source, sourceOwner, urlUse,
                        mail, bucket, platform>>
<1> USE TasksOK DEF OriginalInv, OriginalTypes, OriginalRow, remote, storeVars, sourceVars
<1>1. \A u \in Task \ {t} : work'[u] = work[u]
  BY DEF ArmComplete, Unclaimed, OnObject, Work, Rests, NoWork, WorkRow
<1>2. work[t].at = "collected"
  BY DEF ArmComplete, Unclaimed, OnObject, Work, Rests, NoWork, WorkRow
<1>3. \/ /\ keeper = t /\ original.status = "receiving" /\ UNCHANGED keeper
         /\ original'.phase = "completing" /\ work'[t].at = "complete"
         /\ work'[t].result = "none"
      \/ /\ keeper # t /\ UNCHANGED <<original, keeper>> /\ work'[t].at = "idle"
      \/ /\ keeper = t /\ keeper' = None /\ original'.phase \in {"collecting", "none"}
         /\ work'[t].at = "idle"
  <2>1. CASE keeper # t
    BY <2>1 DEF ArmComplete, Unclaimed, OnObject, Work, Rests, NoWork, WorkRow
  <2>2. CASE keeper = t /\ work[t].result = "good" /\ original.status = "receiving"
    BY <2>2 DEF ArmComplete, Unclaimed, OnObject, Work, Rests, NoWork, WorkRow
  <2>3. CASE keeper = t /\ ~(work[t].result = "good" /\ original.status = "receiving")
    <3>1. \E c \in {"collecting", "none"} : original' = [Unclaimed(original) EXCEPT !.phase = c]
      BY <2>3 DEF ArmComplete
    <3>2. keeper' = None /\ Rests(t)
      BY <2>3 DEF ArmComplete
    <3>3. original'.phase \in {"collecting", "none"}
      BY <3>1 DEF Unclaimed
    <3>4. work'[t].at = "idle"
      BY <3>2 DEF Rests, NoWork
    <3> QED BY <2>3, <3>2, <3>3, <3>4
  <2> QED BY <2>1, <2>2, <2>3 DEF ArmComplete, Unclaimed, OnObject, Work, Rests, NoWork,
    WorkRow
<1>4. /\ original'.status = original.status /\ original'.upload = original.upload
      /\ original'.received = original.received
  BY ZenonT(90) DEF ArmComplete, Unclaimed, OnObject, Work, Rests, NoWork, WorkRow
<1>5. original'.room = original.room
  BY ZenonT(90) DEF ArmComplete, Unclaimed, OnObject, Work, Rests, NoWork, WorkRow
<1>6. UNCHANGED <<cleanup, cleaner, permit, reading, source, sourceOwner, urlUse, mail,
                  bucket, platform>>
  BY DEF ArmComplete, Unclaimed, OnObject, Work, Rests, NoWork, WorkRow
<1> QED BY <1>1, <1>2, <1>3, <1>4, <1>5, <1>6

\* Complete, carried out or not.
LEMMA CallCompleteDoes ==
  ASSUME OriginalInv, NEW t \in Task, CallComplete(t)
  PROVE  /\ \A u \in Task \ {t} : work'[u] = work[u]
         /\ work[t].at = "complete" /\ work'[t].at \in {"head", "failing"}
         /\ work'[t].result = "none"
         /\ \/ /\ bucket.upload = "open" /\ bucket'.upload = "completed" /\ bucket'.object
               /\ bucket'.creates = bucket.creates
               /\ bucket'.completes = bucket.completes + 1
            \/ bucket' = bucket
         /\ UNCHANGED <<original, keeper, cleanup, cleaner, permit, reading, source,
                        sourceOwner, urlUse, mail, platform>>
<1> USE TasksOK DEF OriginalInv, OriginalTypes, BucketRow, remote, storeVars, sourceVars
<1>1. \A u \in Task \ {t} : work'[u] = work[u]
  BY DEF CallComplete, Calls, Work, Rests, NoWork, WorkRow
<1>2. /\ work[t].at = "complete" /\ work'[t].at \in {"head", "failing"}
      /\ work'[t].result = "none"
  BY DEF CallComplete, Calls, Work, Rests, NoWork, WorkRow
<1>3. \/ /\ bucket.upload = "open" /\ bucket'.upload = "completed" /\ bucket'.object
         /\ bucket'.creates = bucket.creates /\ bucket'.completes = bucket.completes + 1
      \/ bucket' = bucket
  BY ZenonT(90) DEF CallComplete, Calls, Work, Rests, NoWork, WorkRow
<1>4. UNCHANGED <<original, keeper, cleanup, cleaner, permit, reading, source, sourceOwner,
                  urlUse, mail, platform>>
  BY DEF CallComplete, Calls, Work, Rests, NoWork, WorkRow
<1> QED BY <1>1, <1>2, <1>3, <1>4

\* The end of a Complete: permits are only released.
LEMMA StoreCompleteDoes ==
  ASSUME OriginalInv, NEW t \in Task, StoreComplete(t)
  PROVE  /\ \A u \in Task \ {t} : work'[u] = work[u]
         /\ work[t].at = "stored" /\ work'[t].at = "idle"
         /\ \/ keeper # t /\ UNCHANGED <<original, permit, keeper>>
            \/ /\ keeper = t /\ keeper' = None /\ original'.received
               /\ original'.phase = "none"
               /\ original'.status \in {"cleanup_pending", "stored"}
               /\ original'.upload = original.upload
               /\ original'.room = original.room
               /\ \A p \in Permit : /\ permit'[p].put = permit[p].put
                                    /\ permit'[p].receipt = permit[p].receipt
                                    /\ permit'[p].use # permit[p].use =>
                                         /\ permit[p].use = "active"
                                         /\ permit'[p].use = "released"
         /\ UNCHANGED <<cleanup, cleaner, reading, source, sourceOwner, urlUse, mail,
                        bucket, platform>>
<1> USE TasksOK DEF OriginalInv, OriginalTypes, OriginalRow, PermitRow, remote, storeVars,
    sourceVars
<1>1. \A u \in Task \ {t} : work'[u] = work[u]
  BY DEF StoreComplete, Unclaimed, Work, Rests, NoWork, WorkRow
<1>2. work[t].at = "stored" /\ work'[t].at = "idle"
  BY DEF StoreComplete, Unclaimed, Work, Rests, NoWork, WorkRow
<1>3. \/ keeper # t /\ UNCHANGED <<original, permit, keeper>>
      \/ /\ keeper = t /\ keeper' = None /\ original'.received /\ original'.phase = "none"
         /\ original'.status \in {"cleanup_pending", "stored"}
         /\ original'.upload = original.upload
         /\ original'.room = original.room
         /\ \A p \in Permit : /\ permit'[p].put = permit[p].put
                              /\ permit'[p].receipt = permit[p].receipt
                              /\ permit'[p].use # permit[p].use =>
                                   permit[p].use = "active" /\ permit'[p].use = "released"
  <2>1. CASE keeper # t
    BY <2>1 DEF StoreComplete
  <2>2. CASE keeper = t
    <3>1. \A p \in Permit : permit'[p] = IF permit[p].use = "active"
                                       THEN [permit[p] EXCEPT !.use = "released"] ELSE permit[p]
      BY <2>2 DEF StoreComplete
    <3>2. \A p \in Permit : permit[p] \in PermitRow
      OBVIOUS
    <3>3. /\ keeper' = None /\ original'.received /\ original'.phase = "none"
          /\ original'.status \in {"cleanup_pending", "stored"}
          /\ original'.upload = original.upload
          /\ original'.room = original.room
      <4>1. \E s \in {"cleanup_pending", "stored"} : original' =
              [Unclaimed(original) EXCEPT !.received = TRUE, !.phase = "none", !.status = s]
        BY <2>2 DEF StoreComplete
      <4>2. keeper' = None
        BY <2>2 DEF StoreComplete
      <4>3. /\ Unclaimed(original) \in OriginalRow
            /\ Unclaimed(original).upload = original.upload
            /\ Unclaimed(original).room = original.room
        BY DEF Unclaimed
      <4>4. PICK s \in {"cleanup_pending", "stored"} : original' =
              [Unclaimed(original) EXCEPT !.received = TRUE, !.phase = "none", !.status = s]
        BY <4>1
      <4>5. /\ original'.received /\ original'.phase = "none"
            /\ original'.status \in {"cleanup_pending", "stored"}
        BY <4>3, <4>4
      <4>6. original'.upload = original.upload /\ original'.room = original.room
        BY <4>3, <4>4
      <4> QED BY <4>2, <4>5, <4>6
    <3>4. \A p \in Permit : /\ permit'[p].put = permit[p].put
                            /\ permit'[p].receipt = permit[p].receipt
                            /\ permit'[p].use # permit[p].use =>
                                 permit[p].use = "active" /\ permit'[p].use = "released"
      <4> TAKE p \in Permit
      <4>1. permit[p] \in PermitRow
        BY <3>2
      <4>2. CASE permit[p].use = "active"
        <5>1. permit'[p] = [permit[p] EXCEPT !.use = "released"]
          BY <3>1, <4>2
        <5> QED BY <4>1, <4>2, <5>1
      <4>3. CASE permit[p].use # "active"
        BY <3>1, <4>3
      <4> QED BY <4>2, <4>3
    <3> QED BY <2>2, <3>3, <3>4
  <2> QED BY <2>1, <2>2
<1>4. UNCHANGED <<cleanup, cleaner, reading, source, sourceOwner, urlUse, mail, bucket,
                  platform>>
  BY DEF StoreComplete, Unclaimed, Work, Rests, NoWork, WorkRow
<1> QED BY <1>1, <1>2, <1>3, <1>4

\* of complete_file,
LEMMA CompletionKeeps ==
  ASSUME OriginalInv, NEW t \in Task,
         Completes(t) \/ CallListParts(t) \/ ArmComplete(t) \/ CallComplete(t) \/
         CallHead(t) \/ StoreComplete(t) \/ CompleteFails(t)
  PROVE  OriginalCore'
<1> USE TasksOK, OriginalOK DEF OriginalInv, OriginalCore, BucketBooks, CreatesAlone, Creating,
    OriginalBooks, CleanupBooks, WorkKnown, WorkKnows, KeeperBooks, OwnerBooks, SourceBooks,
    PermitBooks, FreedIsClosed, NothingComes, OriginalTypes, OriginalRow, CleanupRow, SourceRow,
    BucketRow, PlatformRow, WorkRow, PermitRow, Requested, Collecting, Completing, Cleans, Sent,
    Closed, CreatePhases, CompletePhases, Undecided, remote, storeVars, sourceVars, Work, Rests,
    NoWork
<1>1. CASE Completes(t)
  BY SMTT(90), <1>1 DEF Completes, OnObject
<1>2. CASE CallListParts(t)
  BY SMTT(90), <1>2 DEF CallListParts, Calls
<1>3. CASE ArmComplete(t)
  <2>1. BucketBooks'
    BY SMTT(90), <1>3, ArmCompleteDoes
  <2>2. CreatesAlone'
    <3>1. \A u \in Task : Creating(u)' => Creating(u)
      BY SMTT(90), <1>3, ArmCompleteDoes
    <3>2. /\ bucket'.upload = bucket.upload /\ original'.upload = original.upload
          /\ original'.phase \in CreatePhases <=> original.phase \in CreatePhases
      BY SMTT(90), <1>3, ArmCompleteDoes
    <3> QED BY SMTT(90), <3>1, <3>2
  <2>3. OriginalBooks'
    BY SMTT(90), <1>3, ArmCompleteDoes
  <2>4. CleanupBooks'
    BY SMTT(90), <1>3, ArmCompleteDoes
  <2>5. WorkKnown'
    BY SMTT(90), <1>3, ArmCompleteDoes
  <2>6. KeeperBooks'
    BY SMTT(90), <1>3, ArmCompleteDoes
  <2>7. OwnerBooks'
    <3>1. sourceOwner # t
      BY SMTT(90), <1>3, ArmCompleteDoes
    <3>2. \A u \in Task : sourceOwner' = u => u # t /\ work'[u] = work[u] /\ sourceOwner = u
      BY SMTT(90), <3>1, <1>3, ArmCompleteDoes
    <3>3. \A u \in Task : work'[u].at \in Requested => work[u].at \in Requested
      BY SMTT(90), <1>3, ArmCompleteDoes
    <3>4. UNCHANGED <<source, platform>>
      BY SMTT(90), <1>3, ArmCompleteDoes
    <3> QED BY SMTT(90), <3>2, <3>3, <3>4
  <2>8. SourceBooks'
    <3>1. UNCHANGED <<source, platform, urlUse>>
      BY SMTT(90), <1>3, ArmCompleteDoes
    <3>2. \A u \in Task : work'[u].at \in Requested => work[u].at \in Requested
      BY <1>3, ArmCompleteDoes
    <3> QED BY SMTT(90), <3>1, <3>2
  <2>9. PermitBooks'
    BY SMTT(90), <1>3, ArmCompleteDoes
  <2>10. FreedIsClosed'
    BY SMTT(90), <1>3, ArmCompleteDoes
  <2> QED BY SMTT(90), <2>1, <2>2, <2>3, <2>4, <2>5, <2>6, <2>7, <2>8, <2>9, <2>10
<1>4. CASE CallComplete(t)
  <2>1. BucketBooks'
    BY SMTT(90), <1>4, CallCompleteDoes
  <2>2. CreatesAlone'
    <3>1. \A u \in Task : Creating(u)' => Creating(u)
      BY SMTT(90), <1>4, CallCompleteDoes
    <3>2. bucket'.upload = "none" <=> bucket.upload = "none"
      BY SMTT(90), <1>4, CallCompleteDoes
    <3>3. UNCHANGED original
      BY SMTT(90), <1>4, CallCompleteDoes
    <3> QED BY SMTT(90), <3>1, <3>2, <3>3
  <2>3. OriginalBooks'
    BY SMTT(90), <1>4, CallCompleteDoes
  <2>4. CleanupBooks'
    BY SMTT(90), <1>4, CallCompleteDoes
  <2>5. WorkKnown'
    BY SMTT(90), <1>4, CallCompleteDoes
  <2>6. KeeperBooks'
    BY SMTT(90), <1>4, CallCompleteDoes
  <2>7. OwnerBooks'
    <3>1. sourceOwner # t
      BY SMTT(90), <1>4, CallCompleteDoes
    <3>2. \A u \in Task : sourceOwner' = u => u # t /\ work'[u] = work[u] /\ sourceOwner = u
      BY SMTT(90), <3>1, <1>4, CallCompleteDoes
    <3>3. \A u \in Task : work'[u].at \in Requested => work[u].at \in Requested
      BY SMTT(90), <1>4, CallCompleteDoes
    <3>4. UNCHANGED <<source, platform>>
      BY SMTT(90), <1>4, CallCompleteDoes
    <3> QED BY <3>2, <3>3, <3>4
  <2>8. SourceBooks'
    <3>1. UNCHANGED <<source, platform, urlUse>>
      BY SMTT(90), <1>4, CallCompleteDoes
    <3>2. \A u \in Task : work'[u].at \in Requested => work[u].at \in Requested
      BY <1>4, CallCompleteDoes
    <3> QED BY <3>1, <3>2
  <2>9. PermitBooks'
    BY SMTT(90), <1>4, CallCompleteDoes
  <2>10. FreedIsClosed'
    BY <1>4, CallCompleteDoes, SMTT(90)
  <2> QED BY <2>1, <2>2, <2>3, <2>4, <2>5, <2>6, <2>7, <2>8, <2>9, <2>10
<1>5. CASE CallHead(t)
  <2>1. CASE Work(t, "stored", "none")
    BY SMTT(90), <1>5, <2>1 DEF CallHead, Calls, NoAnswer, Fault
  <2>2. CASE Work(t, "failing", "none")
    BY SMTT(90), <1>5, <2>2 DEF CallHead, Calls, NoAnswer, Fault
  <2> QED BY SMTT(90), <1>5, <2>1, <2>2 DEF CallHead, Calls, NoAnswer, Fault
<1>6. CASE StoreComplete(t)
  <2>1. BucketBooks'
    BY SMTT(90), <1>6, StoreCompleteDoes
  <2>2. CreatesAlone'
    <3>1. \A u \in Task : Creating(u)' => Creating(u)
      BY SMTT(90), <1>6, StoreCompleteDoes
    <3>2. /\ bucket'.upload = bucket.upload /\ original'.upload = original.upload
          /\ original'.phase \in CreatePhases <=> original.phase \in CreatePhases
      BY SMTT(90), <1>6, StoreCompleteDoes
    <3> QED BY <3>1, <3>2
  <2>3. OriginalBooks'
    BY SMTT(90), <1>6, StoreCompleteDoes
  <2>4. CleanupBooks'
    BY SMTT(90), <1>6, StoreCompleteDoes
  <2>5. WorkKnown'
    BY SMTT(90), <1>6, StoreCompleteDoes
  <2>6. KeeperBooks'
    BY SMTT(90), <1>6, StoreCompleteDoes
  <2>7. OwnerBooks'
    <3>1. sourceOwner # t
      BY SMTT(90), <1>6, StoreCompleteDoes
    <3>2. \A u \in Task : sourceOwner' = u => u # t /\ work'[u] = work[u] /\ sourceOwner = u
      BY SMTT(90), <3>1, <1>6, StoreCompleteDoes
    <3>3. \A u \in Task : work'[u].at \in Requested => work[u].at \in Requested
      BY SMTT(90), <1>6, StoreCompleteDoes
    <3>4. UNCHANGED <<source, platform>>
      BY SMTT(90), <1>6, StoreCompleteDoes
    <3> QED BY <3>2, <3>3, <3>4
  <2>8. SourceBooks'
    <3>1. UNCHANGED <<source, platform, urlUse>>
      BY SMTT(90), <1>6, StoreCompleteDoes
    <3>2. \A u \in Task : work'[u].at \in Requested => work[u].at \in Requested
      BY <1>6, StoreCompleteDoes
    <3> QED BY <3>1, <3>2
  <2>9. PermitBooks'
    BY SMTT(90), <1>6, StoreCompleteDoes
  <2>10. FreedIsClosed'
    BY SMTT(90), <1>6, StoreCompleteDoes
  <2> QED BY <2>1, <2>2, <2>3, <2>4, <2>5, <2>6, <2>7, <2>8, <2>9, <2>10
<1>7. CASE CompleteFails(t)
  BY <1>7 DEF CompleteFails, Unclaimed, OnObject
<1> QED BY SMTT(90), <1>1, <1>2, <1>3, <1>4, <1>5, <1>6, <1>7

\* The end of a validation.
LEMMA StoreValidationDoes ==
  ASSUME OriginalInv, NEW t \in Task, StoreValidation(t)
  PROVE  /\ \A u \in Task \ {t} : work'[u] = work[u]
         /\ work[t].at = "validated" /\ work'[t].at = "idle" /\ reading' = reading \ {t}
         /\ \/ keeper # t /\ UNCHANGED <<original, keeper>>
            \/ /\ keeper = t /\ keeper' = None
               /\ original'.status \in {"verified", "stored"}
               /\ original'.received = original.received /\ original'.phase = original.phase
               /\ original'.upload = original.upload /\ original'.room = original.room
         /\ UNCHANGED <<cleanup, cleaner, permit, source, sourceOwner, urlUse, bucket,
                        platform>>
<1> USE TasksOK DEF OriginalInv, OriginalTypes, OriginalRow, remote, storeVars, sourceVars
<1>1. \A u \in Task \ {t} : work'[u] = work[u]
  BY DEF StoreValidation, StillClaimed, Unclaimed, Work, Rests, NoWork, WorkRow
<1>2. work[t].at = "validated" /\ work'[t].at = "idle" /\ reading' = reading \ {t}
  BY DEF StoreValidation, StillClaimed, Unclaimed, Work, Rests, NoWork, WorkRow
<1>3. \/ keeper # t /\ UNCHANGED <<original, keeper>>
      \/ /\ keeper = t /\ keeper' = None /\ original'.status \in {"verified", "stored"}
         /\ original'.received = original.received /\ original'.phase = original.phase
         /\ original'.upload = original.upload /\ original'.room = original.room
  BY ZenonT(90) DEF StoreValidation, StillClaimed, Unclaimed, Work, Rests, NoWork, WorkRow
<1>4. UNCHANGED <<cleanup, cleaner, permit, source, sourceOwner, urlUse, bucket, platform>>
  BY DEF StoreValidation, StillClaimed, Unclaimed, Work, Rests, NoWork, WorkRow
<1> QED BY <1>1, <1>2, <1>3, <1>4

\* of validate_original,
LEMMA ValidationKeeps ==
  ASSUME OriginalInv, NEW t \in Task,
         Validate(t) \/ ReadOriginal(t) \/ StoreValidation(t)
  PROVE  OriginalCore'
<1> USE TasksOK, OriginalOK DEF OriginalInv, OriginalCore, BucketBooks, CreatesAlone, Creating,
    OriginalBooks, CleanupBooks, WorkKnown, WorkKnows, KeeperBooks, OwnerBooks, SourceBooks,
    PermitBooks, FreedIsClosed, NothingComes, OriginalTypes, OriginalRow, CleanupRow, SourceRow,
    BucketRow, PlatformRow, WorkRow, PermitRow, Requested, Collecting, Completing, Cleans, Sent,
    Closed, CreatePhases, CompletePhases, Undecided, remote, storeVars, sourceVars, Work, Rests,
    NoWork
<1>1. CASE Validate(t)
  BY SMTT(90), <1>1 DEF Validate
<1>2. CASE ReadOriginal(t)
  BY SMTT(90), <1>2 DEF ReadOriginal, Calls
<1>3. CASE StoreValidation(t)
  <2>1. BucketBooks'
    BY SMTT(90), <1>3, StoreValidationDoes
  <2>2. CreatesAlone'
    <3>1. \A u \in Task : Creating(u)' => Creating(u)
      BY SMTT(90), <1>3, StoreValidationDoes
    <3>2. /\ bucket'.upload = bucket.upload /\ original'.upload = original.upload
          /\ original'.phase \in CreatePhases <=> original.phase \in CreatePhases
      BY SMTT(90), <1>3, StoreValidationDoes
    <3> QED BY SMTT(90), <3>1, <3>2
  <2>3. OriginalBooks'
    BY SMTT(90), <1>3, StoreValidationDoes
  <2>4. CleanupBooks'
    BY SMTT(90), <1>3, StoreValidationDoes
  <2>5. WorkKnown'
    BY SMTT(90), <1>3, StoreValidationDoes
  <2>6. KeeperBooks'
    BY SMTT(90), <1>3, StoreValidationDoes
  <2>7. OwnerBooks'
    <3>1. sourceOwner # t
      BY SMTT(90), <1>3, StoreValidationDoes
    <3>2. \A u \in Task : sourceOwner' = u => u # t /\ work'[u] = work[u] /\ sourceOwner = u
      BY SMTT(90), <3>1, <1>3, StoreValidationDoes
    <3>3. \A u \in Task : work'[u].at \in Requested => work[u].at \in Requested
      BY SMTT(90), <1>3, StoreValidationDoes
    <3>4. UNCHANGED <<source, platform>>
      BY SMTT(90), <1>3, StoreValidationDoes
    <3> QED BY SMTT(90), <3>2, <3>3, <3>4
  <2>8. SourceBooks'
    <3>1. UNCHANGED <<source, platform, urlUse>>
      BY SMTT(90), <1>3, StoreValidationDoes
    <3>2. \A u \in Task : work'[u].at \in Requested => work[u].at \in Requested
      BY <1>3, StoreValidationDoes
    <3> QED BY SMTT(90), <3>1, <3>2
  <2>9. PermitBooks'
    BY SMTT(90), <1>3, StoreValidationDoes
  <2>10. FreedIsClosed'
    BY <1>3, StoreValidationDoes
  <2> QED BY SMTT(90), <2>1, <2>2, <2>3, <2>4, <2>5, <2>6, <2>7, <2>8, <2>9, <2>10
<1> QED BY SMTT(90), <1>1, <1>2, <1>3

\* send_armed, or a failure before it.
LEMMA ArmUploadDoes ==
  ASSUME OriginalInv, NEW t \in Task, ArmUpload(t)
  PROVE  /\ \A u \in Task \ {t} : work'[u] = work[u]
         /\ work[t].at = "url" /\ ~source.armed /\ source'.video = source.video
         /\ \/ /\ sourceOwner = t /\ original.status = "verified" /\ source'.armed
               /\ source'.status = "sending"
               /\ work'[t].at = "armed"
            \/ UNCHANGED source /\ work'[t].at = "url_failing" /\ work'[t].result = "unsent"
         /\ UNCHANGED <<original, keeper, cleanup, cleaner, permit, reading, sourceOwner,
                        urlUse, mail, bucket, platform>>
<1> USE TasksOK DEF OriginalInv, OriginalTypes, SourceRow, remote, storeVars, sourceVars
<1>1. \A u \in Task \ {t} : work'[u] = work[u]
  BY DEF ArmUpload, onSource, Work, Rests, NoWork, WorkRow
<1>2. work[t].at = "url" /\ ~source.armed /\ source'.video = source.video
  BY ZenonT(90) DEF ArmUpload, onSource, Work, Rests, NoWork, WorkRow
<1>3. \/ /\ sourceOwner = t /\ original.status = "verified" /\ source'.armed
         /\ source'.status = "sending"
         /\ work'[t].at = "armed"
      \/ UNCHANGED source /\ work'[t].at = "url_failing" /\ work'[t].result = "unsent"
  <2>1. CASE sourceOwner = t /\ original.status = "verified"
    <3>1. work'[t].at = "armed"
      BY <2>1 DEF ArmUpload, Work
    <3>2. source' = [source EXCEPT !.status = "sending", !.armed = TRUE]
      BY <2>1 DEF ArmUpload
    <3>3. source'.armed /\ source'.status = "sending"
      BY <3>2
    <3> QED BY <2>1, <3>1, <3>3
  <2>2. CASE ~(sourceOwner = t /\ original.status = "verified")
    BY <2>2 DEF ArmUpload, onSource, Work, Rests, NoWork, WorkRow
  <2> QED BY <2>1, <2>2 DEF ArmUpload, onSource, Work, Rests, NoWork, WorkRow
<1>4. UNCHANGED <<original, keeper, cleanup, cleaner, permit, reading, sourceOwner, urlUse,
                  mail, bucket, platform>>
  BY SMTT(90) DEF ArmUpload, onSource, Work, Rests, NoWork, WorkRow
<1> QED BY <1>1, <1>2, <1>3, <1>4

\* of run_url_source_upload up to its marker,
LEMMA ClaimingKeeps ==
  ASSUME OriginalInv, NEW t \in Task,
         NewUpload(t) \/ ClaimUpload(t) \/ ArmUpload(t) \/ UploadDenied(t)
  PROVE  OriginalCore'
<1> USE TasksOK, OriginalOK DEF OriginalInv, OriginalCore, BucketBooks, CreatesAlone, Creating,
    OriginalBooks, CleanupBooks, WorkKnown, WorkKnows, KeeperBooks, OwnerBooks, SourceBooks,
    PermitBooks, FreedIsClosed, NothingComes, OriginalTypes, OriginalRow, CleanupRow, SourceRow,
    BucketRow, PlatformRow, WorkRow, PermitRow, Requested, Collecting, Completing, Cleans, Sent,
    Closed, CreatePhases, CompletePhases, Undecided, remote, storeVars, sourceVars, Work, Rests,
    NoWork
<1>1. CASE NewUpload(t)
  BY SMTT(90), <1>1 DEF NewUpload, onSource
<1>2. CASE ClaimUpload(t)
  BY SMTT(90), <1>2 DEF ClaimUpload, onSource, SourceDue, SourceKind, Expected
<1>3. CASE ArmUpload(t)
  <2>1. BucketBooks'
    BY SMTT(90), <1>3, ArmUploadDoes
  <2>2. CreatesAlone'
    <3>1. \A u \in Task : Creating(u)' => Creating(u)
      BY SMTT(90), <1>3, ArmUploadDoes
    <3>2. bucket'.upload = "none" <=> bucket.upload = "none"
      BY SMTT(90), <1>3, ArmUploadDoes
    <3>3. UNCHANGED original
      BY SMTT(90), <1>3, ArmUploadDoes
    <3> QED BY SMTT(90), <3>1, <3>2, <3>3
  <2>3. OriginalBooks'
    BY SMTT(90), <1>3, ArmUploadDoes
  <2>4. CleanupBooks'
    BY SMTT(90), <1>3, ArmUploadDoes
  <2>5. WorkKnown'
    BY SMTT(90), <1>3, ArmUploadDoes
  <2>6. KeeperBooks'
    BY SMTT(90), <1>3, ArmUploadDoes
  <2>7. OwnerBooks'
    BY SMTT(90), <1>3, ArmUploadDoes
  <2>8. SourceBooks'
    BY <1>3, ArmUploadDoes, SMTT(90)
  <2>9. PermitBooks'
    BY SMTT(90), <1>3, ArmUploadDoes
  <2>10. FreedIsClosed'
    BY SMTT(90), <1>3, ArmUploadDoes
  <2> QED BY <2>1, <2>2, <2>3, <2>4, <2>5, <2>6, <2>7, <2>8, <2>9, <2>10
<1>4. CASE UploadDenied(t)
  BY <1>4, SMTT(90) DEF UploadDenied, onSource
<1> QED BY <1>1, <1>2, <1>3, <1>4

\* up to its answer,
LEMMA SendingKeeps ==
  ASSUME OriginalInv, NEW t \in Task,
         SignUrl(t) \/ PostUrl(t) \/ StoreUrlReceipt(t) \/ LookUpload(t)
  PROVE  OriginalCore'
<1> USE TasksOK, OriginalOK DEF OriginalInv, OriginalCore, BucketBooks, CreatesAlone, Creating,
    OriginalBooks, CleanupBooks, WorkKnown, WorkKnows, KeeperBooks, OwnerBooks, SourceBooks,
    PermitBooks, FreedIsClosed, NothingComes, OriginalTypes, OriginalRow, CleanupRow, SourceRow,
    BucketRow, PlatformRow, WorkRow, PermitRow, Requested, Collecting, Completing, Cleans, Sent,
    Closed, CreatePhases, CompletePhases, Undecided, remote, storeVars, sourceVars, Work, Rests,
    NoWork
<1>1. CASE SignUrl(t)
  <2>1. CASE Work(t, "signed", "none")
    BY SMTT(90), <1>1, <2>1 DEF SignUrl, onSource
  <2>2. CASE Work(t, "url_failing", "unsent")
    BY <1>1, <2>2, SMTT(90) DEF SignUrl, onSource
  <2> QED BY SMTT(90), <1>1, <2>1, <2>2 DEF SignUrl, onSource
<1>2. CASE PostUrl(t)
  <2>1. CASE Work(t, "posted", "good")
    BY SMTT(90), <1>2, <2>1 DEF PostUrl
  <2>2. CASE platform' # platform /\ Work(t, "url_failing", "unknown")
    BY SMTT(90), <1>2, <2>2 DEF PostUrl
  <2>3. CASE platform' = platform /\ Work(t, "url_failing", "unknown")
    BY SMTT(90), <1>2, <2>3 DEF PostUrl
  <2> QED BY SMTT(90), <1>2, <2>1, <2>2, <2>3 DEF PostUrl
<1>3. CASE StoreUrlReceipt(t)
  BY SMTT(90), <1>3 DEF StoreUrlReceipt, onSource
<1>4. CASE LookUpload(t)
  BY <1>4 DEF LookUpload, onSource
<1> QED BY <1>1, <1>2, <1>3, <1>4

\* A failed upload is unsent, or unknown.
LEMMA UploadFailsDoes ==
  ASSUME OriginalInv, NEW t \in Task, UploadFails(t)
  PROVE  /\ \A u \in Task \ {t} : work'[u] = work[u]
         /\ work[t].at = "url_failing" /\ sourceOwner = t /\ sourceOwner' = None
         /\ work'[t].at = "idle"
         /\ \/ /\ work[t].result \in {"unsent", "deferred"} /\ ~source'.armed
               /\ source'.video = source.video
               /\ source'.status \in {"pending", "failed"} /\ ~urlUse'
            \/ /\ work[t].result \notin {"unsent", "deferred"}
               /\ source'.armed = source.armed /\ source'.video = source.video
               /\ source'.status = (IF source.video THEN "verifying" ELSE "result_unknown")
               /\ urlUse' = urlUse
         /\ UNCHANGED <<original, keeper, cleanup, cleaner, permit, reading, bucket,
                        platform>>
<1> USE TasksOK DEF OriginalInv, OriginalTypes, SourceRow, remote, storeVars, sourceVars
<1>1. \A u \in Task \ {t} : work'[u] = work[u]
  BY DEF UploadFails, onSource, Work, Rests, NoWork, WorkRow
<1>2. /\ work[t].at = "url_failing" /\ sourceOwner = t /\ sourceOwner' = None
      /\ work'[t].at = "idle"
  BY DEF UploadFails, onSource, Work, Rests, NoWork, WorkRow
<1>3. \/ /\ work[t].result \in {"unsent", "deferred"} /\ ~source'.armed
         /\ source'.video = source.video
         /\ source'.status \in {"pending", "failed"} /\ ~urlUse'
      \/ /\ work[t].result \notin {"unsent", "deferred"} /\ source'.armed = source.armed
         /\ source'.video = source.video
         /\ source'.status = (IF source.video THEN "verifying" ELSE "result_unknown")
         /\ urlUse' = urlUse
  BY ZenonT(90) DEF UploadFails, onSource, Work, Rests, NoWork, WorkRow
<1>4. UNCHANGED <<original, keeper, cleanup, cleaner, permit, reading, bucket, platform>>
  BY DEF UploadFails, onSource, Work, Rests, NoWork, WorkRow
<1> QED BY <1>1, <1>2, <1>3, <1>4

\* and to its end,
LEMMA FinishingKeeps ==
  ASSUME OriginalInv, NEW t \in Task,
         FinishUpload(t) \/ UploadFails(t) \/ FinishFails(t) \/ UploadTaken(t)
  PROVE  OriginalCore'
<1> USE TasksOK, OriginalOK DEF OriginalInv, OriginalCore, BucketBooks, CreatesAlone, Creating,
    OriginalBooks, CleanupBooks, WorkKnown, WorkKnows, KeeperBooks, OwnerBooks, SourceBooks,
    PermitBooks, FreedIsClosed, NothingComes, OriginalTypes, OriginalRow, CleanupRow, SourceRow,
    BucketRow, PlatformRow, WorkRow, PermitRow, Requested, Collecting, Completing, Cleans, Sent,
    Closed, CreatePhases, CompletePhases, Undecided, remote, storeVars, sourceVars, Work, Rests,
    NoWork
<1>1. CASE FinishUpload(t)
  BY SMTT(90), <1>1 DEF FinishUpload, Intent
<1>2. CASE UploadFails(t)
  <2>1. BucketBooks'
    BY SMTT(90), <1>2, UploadFailsDoes
  <2>2. CreatesAlone'
    <3>1. \A u \in Task : Creating(u)' => Creating(u)
      BY SMTT(90), <1>2, UploadFailsDoes
    <3>2. bucket'.upload = "none" <=> bucket.upload = "none"
      BY SMTT(90), <1>2, UploadFailsDoes
    <3>3. UNCHANGED original
      BY SMTT(90), <1>2, UploadFailsDoes
    <3> QED BY <3>1, <3>2, <3>3
  <2>3. OriginalBooks'
    BY SMTT(90), <1>2, UploadFailsDoes
  <2>4. CleanupBooks'
    BY SMTT(90), <1>2, UploadFailsDoes
  <2>5. WorkKnown'
    BY SMTT(90), <1>2, UploadFailsDoes
  <2>6. KeeperBooks'
    BY SMTT(90), <1>2, UploadFailsDoes
  <2>7. OwnerBooks'
    BY SMTT(90), <1>2, UploadFailsDoes
  <2>8. SourceBooks'
    BY SMTT(90), <1>2, UploadFailsDoes
  <2>9. PermitBooks'
    BY SMTT(90), <1>2, UploadFailsDoes
  <2>10. FreedIsClosed'
    BY SMTT(90), <1>2, UploadFailsDoes
  <2> QED BY <2>1, <2>2, <2>3, <2>4, <2>5, <2>6, <2>7, <2>8, <2>9, <2>10
<1>3. CASE FinishFails(t)
  BY SMTT(90), <1>3 DEF FinishFails, onSource
<1>4. CASE UploadTaken(t)
  BY <1>4 DEF UploadTaken, onSource
<1> QED BY <1>1, <1>2, <1>3, <1>4

\* Delete or Abort, carried out or not.
LEMMA CallDeleteDoes ==
  ASSUME OriginalInv, NEW t \in Task, CallDelete(t)
  PROVE  /\ \A u \in Task \ {t} : work'[u] = work[u]
         /\ work[t].at = "clean"
         /\ work'[t].at = "check" \/ (work'[t].at = "cleaned" /\ work'[t].result = "bad")
         /\ bucket'.creates = bucket.creates /\ bucket'.completes = bucket.completes
         /\ \/ /\ cleanup.sent = "delete" /\ bucket'.upload = bucket.upload
               /\ ~bucket'.object
            \/ /\ bucket'.upload = (IF bucket.upload = "open" THEN "aborted" ELSE bucket.upload)
               /\ bucket'.object = bucket.object
            \/ bucket' = bucket
         /\ UNCHANGED <<original, keeper, cleanup, cleaner, permit, reading, source,
                        sourceOwner, urlUse, mail, platform>>
<1> USE TasksOK DEF OriginalInv, OriginalTypes, BucketRow, remote, storeVars, sourceVars
<1>1. \A u \in Task \ {t} : work'[u] = work[u]
  BY DEF CallDelete, Calls, NoAnswer, Fault, Work, Rests, NoWork, WorkRow
<1>2. work[t].at = "clean"
  BY DEF CallDelete, Calls, NoAnswer, Fault, Work, Rests, NoWork, WorkRow
<1>3. work'[t].at = "check" \/ (work'[t].at = "cleaned" /\ work'[t].result = "bad")
  <2>1. CASE Work(t, "check", "good")
    BY <2>1 DEF CallDelete, Calls, NoAnswer, Fault, Work, Rests, NoWork, WorkRow
  <2>2. CASE Work(t, "cleaned", "bad")
    BY <2>2 DEF CallDelete, Calls, NoAnswer, Fault, Work, Rests, NoWork, WorkRow
  <2> QED BY <2>1, <2>2 DEF CallDelete, Calls, NoAnswer, Fault, Work, Rests, NoWork, WorkRow
<1>4. bucket'.creates = bucket.creates /\ bucket'.completes = bucket.completes
  BY ZenonT(90) DEF CallDelete, Calls, NoAnswer, Fault, Work, Rests, NoWork, WorkRow
<1>5. \/ /\ cleanup.sent = "delete" /\ bucket'.upload = bucket.upload /\ ~bucket'.object
      \/ /\ bucket'.upload = (IF bucket.upload = "open" THEN "aborted" ELSE bucket.upload)
         /\ bucket'.object = bucket.object
      \/ bucket' = bucket
  BY ZenonT(90) DEF CallDelete, Calls, NoAnswer, Fault, Work, Rests, NoWork, WorkRow
<1>6. UNCHANGED <<original, keeper, cleanup, cleaner, permit, reading, source, sourceOwner,
                  urlUse, mail, platform>>
  BY DEF CallDelete, Calls, NoAnswer, Fault, Work, Rests, NoWork, WorkRow
<1> QED BY SMTT(90), <1>1, <1>2, <1>3, <1>4, <1>5, <1>6

\* The end of a deletion: room is released only if the storage has nothing left.
LEMMA StoreCleanupDoes ==
  ASSUME OriginalInv, NEW t \in Task, StoreCleanup(t)
  PROVE  /\ \A u \in Task \ {t} : work'[u] = work[u]
         /\ work[t].at = "cleaned" /\ work'[t].at = "idle" /\ cleanup'.sent = cleanup.sent
         /\ cleanup'.reason = cleanup.reason
         /\ \/ UNCHANGED <<original, cleanup, permit>>
            \/ /\ cleanup'.status \in {"deleted", "delete_unknown"}
               /\ original'.status = cleanup'.status
               /\ original'.phase \in {"none", original.phase}
               /\ original'.upload = original.upload
               /\ original'.received = original.received
               /\ original'.room \in {original.room, "released"}
               /\ \A p \in Permit : /\ permit'[p].put = permit[p].put
                                    /\ permit'[p].receipt = permit[p].receipt
                                    /\ permit'[p].use # permit[p].use =>
                                          /\ permit[p].use = "active"
                                          /\ permit'[p].use = "released"
                                          /\ permit[p].receipt # "signed"
               /\ original'.room # original.room =>
                    /\ work[t].result = "good"
                    /\ cleanup.sent = "abort" => \A p \in Permit : permit'[p].use # "active"
         /\ reading' \subseteq reading
         /\ UNCHANGED <<keeper, source, sourceOwner, urlUse, mail, bucket, platform>>
<1> USE TasksOK DEF OriginalInv, OriginalTypes, CleanupRow, OriginalRow, PermitRow, remote,
    storeVars, sourceVars
<1>1. \A u \in Task \ {t} : work'[u] = work[u]
  BY DEF StoreCleanup, Acknowledged, Readings, Work, Rests, NoWork, WorkRow
<1>2. work[t].at = "cleaned" /\ work'[t].at = "idle" /\ cleanup'.sent = cleanup.sent
  BY ZenonT(90) DEF StoreCleanup, Acknowledged, Readings, Work, Rests, NoWork, WorkRow
<1>3. cleanup'.reason = cleanup.reason
  BY ZenonT(90) DEF StoreCleanup, Acknowledged, Readings, Work, Rests, NoWork, WorkRow
<1>4. \/ UNCHANGED <<original, cleanup, permit>>
      \/ /\ cleanup'.status \in {"deleted", "delete_unknown"}
         /\ original'.status = cleanup'.status
         /\ original'.phase \in {"none", original.phase}
         /\ original'.upload = original.upload
         /\ original'.received = original.received
         /\ original'.room \in {original.room, "released"}
         /\ \A p \in Permit : /\ permit'[p].put = permit[p].put
                              /\ permit'[p].receipt = permit[p].receipt
                              /\ permit'[p].use # permit[p].use =>
                                    /\ permit[p].use = "active"
                                    /\ permit'[p].use = "released"
                                    /\ permit[p].receipt # "signed"
         /\ original'.room # original.room =>
              /\ work[t].result = "good"
              /\ cleanup.sent = "abort" => \A p \in Permit : permit'[p].use # "active"
  <2>1. CASE cleaner # t
    BY <2>1 DEF StoreCleanup
  <2>2. CASE cleaner = t
    <3>1. \A p \in Permit : permit[p] \in PermitRow
      OBVIOUS
    <3>2. permit' = permit \/ permit' = Acknowledged
      BY <2>2 DEF StoreCleanup
    <3>3. \A p \in Permit : /\ permit'[p].put = permit[p].put
                            /\ permit'[p].receipt = permit[p].receipt
                            /\ permit'[p].use # permit[p].use =>
                                  /\ permit[p].use = "active" /\ permit'[p].use = "released"
                                  /\ permit[p].receipt # "signed"
      BY <3>1, <3>2 DEF Acknowledged
    <3>4. /\ cleanup'.status \in {"deleted", "delete_unknown"}
          /\ original'.status = cleanup'.status
          /\ original'.phase \in {"none", original.phase}
          /\ original'.upload = original.upload
          /\ original'.received = original.received
          /\ original'.room \in {original.room, "released"}
      <4>1. \/ /\ original' = [original EXCEPT !.status = "deleted", !.phase = "none",
                                               !.room = "released"]
               /\ cleanup' = [cleanup EXCEPT !.status = "deleted", !.live = FALSE]
            \/ /\ original' = [original EXCEPT !.status = "delete_unknown"]
               /\ cleanup' = [cleanup EXCEPT !.status = "delete_unknown", !.live = FALSE]
        <5> DEFINE G == /\ work[t].result = "good"
                        /\ cleanup.sent = "abort" =>
                             /\ \A p \in Permit : permit'[p].use # "active"
                                                     /\ Readings = {} /\ ~urlUse
        <5>1. CASE G
          BY <2>2, <5>1 DEF StoreCleanup
        <5>2. CASE ~G
          BY <2>2, <5>2 DEF StoreCleanup
        <5> HIDE DEF G
        <5> QED BY <5>1, <5>2
      <4>2. CASE /\ original' = [original EXCEPT !.status = "deleted", !.phase = "none",
                                                 !.room = "released"]
                 /\ cleanup' = [cleanup EXCEPT !.status = "deleted", !.live = FALSE]
        <5>1. cleanup'.status = "deleted"
          BY <4>2
        <5>2. /\ original'.status = "deleted" /\ original'.phase = "none"
              /\ original'.room = "released"
              /\ original'.upload = original.upload
              /\ original'.received = original.received
          BY <4>2
        <5> QED BY <5>1, <5>2
      <4>3. CASE /\ original' = [original EXCEPT !.status = "delete_unknown"]
                 /\ cleanup' = [cleanup EXCEPT !.status = "delete_unknown", !.live = FALSE]
        <5>1. cleanup'.status = "delete_unknown"
          BY <4>3
        <5>2. /\ original'.status = "delete_unknown" /\ original'.phase = original.phase
              /\ original'.room = original.room
              /\ original'.upload = original.upload
              /\ original'.received = original.received
          BY <4>3
        <5> QED BY <5>1, <5>2
      <4> QED BY <4>1, <4>2, <4>3
    <3>5. original'.room # original.room =>
            /\ work[t].result = "good"
            /\ cleanup.sent = "abort" => \A p \in Permit : permit'[p].use # "active"
      <4> DEFINE Gone == /\ work[t].result = "good"
                         /\ cleanup.sent = "abort" =>
                              \A p \in Permit : permit'[p].use # "active"
      <4>1. CASE Gone
        BY <4>1
      <4>2. CASE ~Gone
        <5>1. original' = [original EXCEPT !.status = "delete_unknown"]
          BY <2>2, <4>2 DEF StoreCleanup
        <5> QED BY <5>1
      <4> QED BY <4>1, <4>2
    <3> QED BY <3>3, <3>4, <3>5
  <2> QED BY <2>1, <2>2
<1>5. UNCHANGED <<keeper, source, sourceOwner, urlUse, mail, bucket, platform>>
  BY SMTT(90) DEF StoreCleanup, Acknowledged, Readings, Work, Rests, NoWork, WorkRow
<1>6. reading' \subseteq reading
  BY SMTT(90) DEF StoreCleanup, Readings
<1> QED BY <1>1, <1>2, <1>3, <1>4, <1>5, <1>6

\* of run_cleanup and a kill,
LEMMA CleanupKeeps ==
  ASSUME OriginalInv, NEW t \in Task,
         StartCleanup(t) \/ CallDelete(t) \/ CheckDeleted(t) \/ StoreCleanup(t) \/
         KillWork(t)
  PROVE  OriginalCore'
<1> USE TasksOK, OriginalOK DEF OriginalInv, OriginalCore, BucketBooks, CreatesAlone, Creating,
    OriginalBooks, CleanupBooks, WorkKnown, WorkKnows, KeeperBooks, OwnerBooks, SourceBooks,
    PermitBooks, FreedIsClosed, NothingComes, OriginalTypes, OriginalRow, CleanupRow, SourceRow,
    BucketRow, PlatformRow, WorkRow, PermitRow, Requested, Collecting, Completing, Cleans, Sent,
    Closed, CreatePhases, CompletePhases, Undecided, remote, storeVars, sourceVars, Work, Rests,
    NoWork
<1>1. CASE StartCleanup(t)
  BY SMTT(90), <1>1 DEF StartCleanup, CleanupDue, NothingUnknown, Transport, Readings,
     InUse,
     LateListing
<1>2. CASE CallDelete(t)
  <2>1. BucketBooks'
    BY <1>2, CallDeleteDoes, SMTT(90)
  <2>2. CreatesAlone'
    <3>1. \A u \in Task : Creating(u)' => Creating(u)
      BY SMTT(90), <1>2, CallDeleteDoes
    <3>2. bucket'.upload = "none" <=> bucket.upload = "none"
      BY SMTT(90), <1>2, CallDeleteDoes
    <3>3. UNCHANGED original
      BY SMTT(90), <1>2, CallDeleteDoes
    <3> QED BY SMTT(90), <3>1, <3>2, <3>3
  <2>3. OriginalBooks'
    BY SMTT(90), <1>2, CallDeleteDoes
  <2>4. CleanupBooks'
    BY SMTT(90), <1>2, CallDeleteDoes
  <2>5. WorkKnown'
    BY SMTT(90), <1>2, CallDeleteDoes
  <2>6. KeeperBooks'
    BY SMTT(90), <1>2, CallDeleteDoes
  <2>7. OwnerBooks'
    <3>1. sourceOwner # t
      BY SMTT(90), <1>2, CallDeleteDoes
    <3>2. \A u \in Task : sourceOwner' = u => u # t /\ work'[u] = work[u] /\ sourceOwner = u
      BY SMTT(90), <3>1, <1>2, CallDeleteDoes
    <3>3. \A u \in Task : work'[u].at \in Requested => work[u].at \in Requested
      BY SMTT(90), <1>2, CallDeleteDoes
    <3>4. UNCHANGED <<source, platform>>
      BY SMTT(90), <1>2, CallDeleteDoes
    <3> QED BY SMTT(90), <3>2, <3>3, <3>4
  <2>8. SourceBooks'
    <3>1. UNCHANGED <<source, platform, urlUse>>
      BY SMTT(90), <1>2, CallDeleteDoes
    <3>2. \A u \in Task : work'[u].at \in Requested => work[u].at \in Requested
      BY <1>2, CallDeleteDoes
    <3> QED BY SMTT(90), <3>1, <3>2
  <2>9. PermitBooks'
    BY SMTT(90), <1>2, CallDeleteDoes
  <2>10. FreedIsClosed'
    BY <1>2, CallDeleteDoes, SMTT(90)
  <2> QED BY SMTT(90), <2>1, <2>2, <2>3, <2>4, <2>5, <2>6, <2>7, <2>8, <2>9, <2>10
<1>3. CASE CheckDeleted(t)
  <2>1. CASE Work(t, "cleaned", "good") /\ cleanup.sent = "delete"
    BY SMTT(90), <1>3, <2>1 DEF CheckDeleted, Calls, NoAnswer, Fault
  <2>2. CASE Work(t, "cleaned", "good") /\ cleanup.sent # "delete"
    BY SMTT(90), <1>3, <2>2 DEF CheckDeleted, Calls, NoAnswer, Fault
  <2>3. CASE Work(t, "clean", "bad")
    BY SMTT(90), <1>3, <2>3 DEF CheckDeleted, Calls, NoAnswer, Fault
  <2>4. CASE Work(t, "cleaned", "bad")
    BY SMTT(90), <1>3, <2>4 DEF CheckDeleted, Calls, NoAnswer, Fault
  <2> QED BY <1>3, <2>1, <2>2, <2>3, <2>4, SMTT(90) DEF CheckDeleted, Calls, NoAnswer, Fault
<1>4. CASE StoreCleanup(t)
  <2>1. BucketBooks'
    BY SMTT(90), <1>4, StoreCleanupDoes
  <2>2. CreatesAlone'
    <3>1. \A u \in Task : Creating(u)' => Creating(u)
      BY SMTT(90), <1>4, StoreCleanupDoes
    <3>2. bucket'.upload = bucket.upload /\ original'.upload = original.upload
      BY SMTT(90), <1>4, StoreCleanupDoes
    <3>3. original.phase \in CreatePhases => original'.phase = original.phase
      <4>1. original'.phase # original.phase => cleanup.sent # "none"
        BY SMTT(90), <1>4, StoreCleanupDoes
      <4> QED BY SMTT(90), <4>1
    <3> QED BY SMTT(90), <3>1, <3>2, <3>3
  <2>3. OriginalBooks'
    <3>1. /\ original'.upload = original.upload /\ original'.received = original.received
          /\ UNCHANGED <<source, urlUse, bucket>> /\ cleanup'.sent = cleanup.sent
          /\ cleanup'.reason = cleanup.reason
      BY SMTT(90), <1>4, StoreCleanupDoes
    <3>2. original'.status \in {original.status, "deleted", "delete_unknown"}
      BY SMTT(90), <1>4, StoreCleanupDoes
    <3>3. original.received => original'.phase = "none"
      BY ZenonT(90), <1>4, StoreCleanupDoes
    <3> QED BY SMTT(90), <3>1, <3>2, <3>3
  <2>4. CleanupBooks'
    BY <1>4, StoreCleanupDoes
  <2>5. WorkKnown'
    BY SMTT(90), <1>4, StoreCleanupDoes
  <2>6. KeeperBooks'
    BY SMTT(90), <1>4, StoreCleanupDoes
  <2>7. OwnerBooks'
    <3>1. sourceOwner # t
      BY SMTT(90), <1>4, StoreCleanupDoes
    <3>2. \A u \in Task : sourceOwner' = u => u # t /\ work'[u] = work[u] /\ sourceOwner = u
      BY SMTT(90), <3>1, <1>4, StoreCleanupDoes
    <3>3. \A u \in Task : work'[u].at \in Requested => work[u].at \in Requested
      BY SMTT(90), <1>4, StoreCleanupDoes
    <3>4. UNCHANGED <<source, platform>>
      BY SMTT(90), <1>4, StoreCleanupDoes
    <3> QED BY <3>2, <3>3, <3>4
  <2>8. SourceBooks'
    <3>1. UNCHANGED <<source, platform, urlUse>>
      BY SMTT(90), <1>4, StoreCleanupDoes
    <3>2. \A u \in Task : work'[u].at \in Requested => work[u].at \in Requested
      BY <1>4, StoreCleanupDoes
    <3> QED BY <3>1, <3>2
  <2>9. PermitBooks'
    BY SMTT(90), <1>4, StoreCleanupDoes
  <2>10. FreedIsClosed'
    <3>1. CASE original'.room = original.room
      <4>1. NothingComes => NothingComes'
        BY SMTT(90), <1>4, StoreCleanupDoes
      <4> QED BY SMTT(90), <3>1, <4>1
    <3>2. CASE original'.room # original.room
      <4>1. work[t].result = "good"
        BY SMTT(90), <3>2, <1>4, StoreCleanupDoes
      <4>2. cleanup.sent = "abort" => \A p \in Permit : permit'[p].use # "active"
        BY SMTT(90), <3>2, <1>4, StoreCleanupDoes
      <4>3. ~bucket.object /\ bucket.upload # "open" /\ UNCHANGED bucket
        BY SMTT(90), <4>1, <1>4, StoreCleanupDoes
      <4>4. ASSUME NEW p \in Permit, permit'[p].put = "flying" PROVE bucket.upload = "completed"
        <5>1. /\ permit[p].put = "flying" /\ permit[p].use # "none"
              /\ permit[p].receipt = "signed"
          BY SMTT(90), <4>4, <1>4, StoreCleanupDoes
        <5>2. permit'[p].use = permit[p].use
          BY SMTT(90), <5>1, <1>4, StoreCleanupDoes
        <5>3. cleanup.sent = "delete" => bucket.upload = "completed"
          BY ZenonT(90)
        <5>4. cleanup.sent # "none"
          BY SMTT(90), <1>4, StoreCleanupDoes
        <5>5. cleanup.sent \in {"delete", "abort"}
          BY ZenonT(90), <5>4
        <5> QED BY SMTT(90), <4>2, <5>1, <5>2, <5>3, <5>5
      <4> QED BY SMTT(90), <4>3, <4>4
    <3> QED BY SMTT(90), <3>1, <3>2
  <2> QED BY <2>1, <2>2, <2>3, <2>4, <2>5, <2>6, <2>7, <2>8, <2>9, <2>10
<1>5. CASE KillWork(t)
  BY <1>5 DEF KillWork, Fault
<1> QED BY <1>1, <1>2, <1>3, <1>4, <1>5, SMTT(90)

\* A cancellation closes the object, and adds a deletion where there is none.
LEMMA CancelDoes ==
  ASSUME OriginalInv, Cancel
  PROVE  /\ original'.status = original.status \/ original'.status = "cleanup_pending"
         /\ original'.phase = original.phase /\ original'.upload = original.upload
         /\ original'.received = original.received
         /\ original'.room = original.room
         /\ cleanup'.sent = cleanup.sent
         /\ (cleanup.status # "none" => cleanup'.status = cleanup.status)
         /\ cleanup'.reason = cleanup.reason \/ cleanup'.reason = "user_cancelled"
         /\ (keeper' = keeper /\ original.status # "validating") \/ keeper' = None
         /\ UNCHANGED <<cleaner, permit, reading, source, sourceOwner, urlUse, mail, bucket,
                        platform>> /\ UNCHANGED work
<1> USE TasksOK DEF OriginalInv, OriginalTypes, OriginalRow, CleanupRow, remote, storeVars,
    sourceVars
<1>1. original'.status = original.status \/ original'.status = "cleanup_pending"
  BY ZenonT(90) DEF Cancel, Untouched, Intent
<1>2. /\ original'.phase = original.phase /\ original'.upload = original.upload
      /\ original'.received = original.received
  BY ZenonT(90) DEF Cancel, Untouched, Intent
<1>3. original'.room = original.room
  BY ZenonT(90) DEF Cancel, Untouched, Intent
<1>4. /\ cleanup'.sent = cleanup.sent
      /\ (cleanup.status # "none" => cleanup'.status = cleanup.status)
  BY ZenonT(90) DEF Cancel, Untouched, Intent
<1>5. cleanup'.reason = cleanup.reason \/ cleanup'.reason = "user_cancelled"
  BY ZenonT(90) DEF Cancel, Untouched, Intent
<1>6. (keeper' = keeper /\ original.status # "validating") \/ keeper' = None
  BY DEF Cancel, Untouched, Intent
<1>7. UNCHANGED <<cleaner, permit, reading, source, sourceOwner, urlUse, mail, bucket,
                  platform>> /\ UNCHANGED work
  BY SMTT(90) DEF Cancel, Untouched, Intent
<1> QED BY SMTT(90), <1>1, <1>2, <1>3, <1>4, <1>5, <1>6, <1>7

\* and those of no task.
LEMMA OthersKeep ==
  ASSUME OriginalInv,
         Cancel \/ Abandon \/ UploadExpired \/ PlatformFetches \/ RetryUpload \/
         CleanupDeferred \/ ObjectClaimLapses \/ CleanupClaimLapses \/ SourceClaimLapses
  PROVE  OriginalCore'
<1> USE TasksOK, OriginalOK DEF OriginalInv, OriginalCore, BucketBooks, CreatesAlone, Creating,
    OriginalBooks, CleanupBooks, WorkKnown, WorkKnows, KeeperBooks, OwnerBooks, SourceBooks,
    PermitBooks, FreedIsClosed, NothingComes, OriginalTypes, OriginalRow, CleanupRow, SourceRow,
    BucketRow, PlatformRow, WorkRow, PermitRow, Requested, Collecting, Completing, Cleans, Sent,
    Closed, CreatePhases, CompletePhases, Undecided, remote, storeVars, sourceVars, Work, Rests,
    NoWork
<1>1. CASE Cancel
  <2>1. BucketBooks'
    BY SMTT(90), <1>1, CancelDoes
  <2>2. CreatesAlone'
    <3>1. \A u \in Task : Creating(u)' => Creating(u)
      BY SMTT(90), <1>1, CancelDoes
    <3>2. /\ bucket'.upload = bucket.upload /\ original'.upload = original.upload
          /\ original'.phase \in CreatePhases <=> original.phase \in CreatePhases
      BY SMTT(90), <1>1, CancelDoes
    <3> QED BY SMTT(90), <3>1, <3>2
  <2>3. OriginalBooks'
    BY SMTT(90), <1>1, CancelDoes
  <2>4. CleanupBooks'
    BY SMTT(90), <1>1, CancelDoes
  <2>5. WorkKnown'
    BY SMTT(90), <1>1, CancelDoes
  <2>6. KeeperBooks'
    BY SMTT(90), <1>1, CancelDoes
  <2>7. OwnerBooks'
    BY SMTT(90), <1>1, CancelDoes
  <2>8. SourceBooks'
    BY SMTT(90), <1>1, CancelDoes
  <2>9. PermitBooks'
    BY SMTT(90), <1>1, CancelDoes
  <2>10. FreedIsClosed'
    BY SMTT(90), <1>1, CancelDoes
  <2> QED BY SMTT(90), <2>1, <2>2, <2>3, <2>4, <2>5, <2>6, <2>7, <2>8, <2>9, <2>10
<1>2. CASE Abandon
  BY SMTT(90), <1>2 DEF Abandon, Intent
<1>3. CASE UploadExpired
  BY SMTT(90), <1>3 DEF UploadExpired, onSource, SourceDue, SourceKind, Expected
<1>4. CASE PlatformFetches
  BY SMTT(90), <1>4 DEF PlatformFetches
<1>5. CASE RetryUpload
  BY SMTT(90), <1>5 DEF RetryUpload, onSource
<1>6. CASE CleanupDeferred
  BY SMTT(90), <1>6 DEF CleanupDeferred, CleanupDue, NothingUnknown, Transport, Readings,
     InUse,
      LateListing, Fence
<1>7. CASE ObjectClaimLapses
  BY SMTT(90), <1>7 DEF ObjectClaimLapses, Lapses, Fault
<1>8. CASE CleanupClaimLapses
  BY SMTT(90), <1>8 DEF CleanupClaimLapses, Lapses, Fault
<1>9. CASE SourceClaimLapses
  BY <1>9 DEF SourceClaimLapses, Lapses, Fault
<1> QED BY SMTT(90), <1>1, <1>2, <1>3, <1>4, <1>5, <1>6, <1>7, <1>8, <1>9

\* The invariant holds at first,
LEMMA OriginalStarts == OriginalInit => OriginalInv
<1> SUFFICES ASSUME OriginalInit PROVE OriginalInv
  OBVIOUS
<1> USE TasksOK, OriginalOK DEF OriginalInit, NoWork, OriginalRow, CleanupRow, SourceRow,
    BucketRow, PlatformRow, WorkRow, PermitRow, Places, Results, Closed, CreatePhases,
    CompletePhases, Undecided
<1>1. OriginalTypes
  <2>1. original \in OriginalRow /\ cleanup \in CleanupRow /\ source \in SourceRow
    OBVIOUS
  <2>2. permit \in [Permit -> PermitRow] /\ work \in [Task -> WorkRow]
    OBVIOUS
  <2>3. bucket \in BucketRow /\ platform \in PlatformRow
    OBVIOUS
  <2>4. originalFaults \in 0 .. MaxCrashes
    OBVIOUS
  <2> QED BY <2>1, <2>2, <2>3, <2>4 DEF OriginalTypes
<1>2. BucketBooks /\ OriginalBooks /\ CleanupBooks /\ KeeperBooks /\ OwnerBooks
  BY DEF BucketBooks, OriginalBooks, CleanupBooks, KeeperBooks, OwnerBooks
<1>3. CreatesAlone /\ WorkKnown
  BY DEF CreatesAlone, Creating, WorkKnown, WorkKnows, Collecting, Completing, Cleans,
     Requested
<1>4. SourceBooks /\ PermitBooks /\ FreedIsClosed
  BY SMTT(90) DEF SourceBooks, PermitBooks, FreedIsClosed, Sent, Requested
<1> QED BY SMTT(90), <1>1, <1>2, <1>3, <1>4 DEF OriginalInv, OriginalCore

\* survives a step that changes nothing,
LEMMA OriginalStutters == OriginalInv /\ UNCHANGED originalVars => OriginalInv'
BY DEF OriginalInv, OriginalTypes, OriginalCore, BucketBooks, CreatesAlone, Creating,
   OriginalBooks,
       CleanupBooks, WorkKnown, WorkKnows, KeeperBooks, OwnerBooks, SourceBooks, PermitBooks,
       FreedIsClosed, NothingComes, originalVars, storeVars, sourceVars

\* and every other;
LEMMA OriginalCoreStays ==
  ASSUME OriginalInv, OriginalNext
  PROVE  OriginalCore'
<1>1. ASSUME NEW t \in Task,
             Resume(t) \/ Completes(t) \/ Validate(t) \/ Transports(t) \/ UploadDenied(t)
               \/ FinishFails(t) \/ Cleaning(t) \/ KillWork(t)
      PROVE  OriginalCore'
  BY <1>1, CreationKeeps, CompletionKeeps, ValidationKeeps, ClaimingKeeps, FinishingKeeps,
     CleanupKeeps
     DEF Transports, Cleaning
<1>2. ASSUME NEW t \in Task, SourceTask(t) PROVE OriginalCore'
  BY <1>2, ClaimingKeeps, SendingKeeps, FinishingKeeps DEF SourceTask
<1>3. ASSUME NEW p \in Permit,
             SignPart(p) \/ PutStarts(p) \/ PutEnds(p) \/ PermitExpires(p) \/ Acknowledge(p)
      PROVE  OriginalCore'
  BY <1>3, BrowserKeeps
<1>4. CASE \/ Cancel \/ Abandon \/ UploadExpired \/ PlatformFetches \/ RetryUpload
           \/ CleanupDeferred \/ ClaimsLapse
  BY <1>4, OthersKeep DEF ClaimsLapse
<1> QED BY <1>1, <1>2, <1>3, <1>4 DEF OriginalNext

\* and it implies what must hold.
LEMMA OriginalInvMeans == OriginalInv => OriginalSafe
<1> SUFFICES ASSUME OriginalInv PROVE OriginalSafe
  OBVIOUS
<1> USE DEF OriginalInv, OriginalCore
<1>1. OriginalTypeOK
  BY TypesAreTyped
<1>2. SentOnce
  BY DEF SentOnce, BucketBooks
<1>3. UsedIsKept
  <2>1. \/ platform.fetches
        \/ \E t \in Task : work[t].at = "signed" \/ (work[t].at = "read" /\ t \in reading)
        => original.received /\ cleanup.sent = "none"
    BY DEF SourceBooks, WorkKnown, WorkKnows, OriginalBooks
  <2>2. original.received /\ cleanup.sent = "none" => bucket.object
    BY DEF OriginalBooks, BucketBooks
  <2> QED BY <2>1, <2>2 DEF UsedIsKept
<1>4. FreedIsClosed
  OBVIOUS
<1>5. UnsentIsUnmade
  BY DEF UnsentIsUnmade, SourceBooks, Sent
<1>6. AnewIsSafe
  <2> SUFFICES ASSUME AnewAllowed PROVE NothingComes /\ ~platform.fetches /\ ~platform.made
    BY DEF AnewIsSafe
  <2>1. ~platform.fetches /\ ~platform.made
    BY DEF AnewAllowed, SourceBooks, Sent, Undecided
  <2>2. NothingComes
    <3>1. CASE original.room = "released"
      BY <3>1 DEF FreedIsClosed
    <3>2. CASE ~original.upload /\ original.phase = "none"
      <4>1. bucket.upload = "none"
        BY <3>2 DEF CreatesAlone, CreatePhases
      <4>2. ~bucket.object
        BY <4>1 DEF BucketBooks
      <4>3. \A p \in Permit : permit[p].put # "flying"
        BY <3>2 DEF PermitBooks
      <4> QED BY <4>1, <4>2, <4>3 DEF NothingComes
    <3> QED BY <3>1, <3>2 DEF AnewAllowed
  <2> QED BY <2>1, <2>2
<1>7. SentIsClosed
  BY DEF SentIsClosed, CleanupBooks
<1> QED BY SMTT(90), <1>1, <1>2, <1>3, <1>4, <1>5, <1>6, <1>7 DEF OriginalSafe

\* For any number of tasks, permits and faults: Create and Complete are carried out once, the
\* object is kept while the platform may fetch it or a validation whose use is not over reads
\* it, and a validation that stalled past its use opens nothing that is being deleted; the
\* room is given back and an original asked for anew only when nothing can arrive any more,
\* and what may be uploaded again was not (resume_file, complete_file, validate_original,
\* run_cleanup, run_url_source_upload).
THEOREM OriginalIsSafe == OriginalSpec => []OriginalSafe
<1>1. OriginalInit => OriginalInv
  BY OriginalStarts
<1>2. OriginalInv /\ [OriginalNext]_originalVars => OriginalInv'
  BY OriginalTypesStay, OriginalCoreStays, OriginalStutters DEF OriginalInv
<1>3. OriginalInv => OriginalSafe
  BY OriginalInvMeans
<1> QED BY <1>1, <1>2, <1>3, PTL DEF OriginalSpec
=============================================================================
