---------------------------- MODULE Distribution ----------------------------
(***************************************************************************)
(* One material and one target account: the builds that wait for it there  *)
(* (material_distribution), the operations that bring it there or look for *)
(* it (material_asset_operation), and the account on the platform.         *)
(*                                                                         *)
(* An operation is claimed in one transaction, armed in a second one, sent *)
(* outside of any, and concluded in a third; a claim that expires after    *)
(* the arming leaves a result that can only be looked up.  A claim raises  *)
(* the operation's revision, so that every message of an earlier revision  *)
(* becomes stale; a message left with the claim recovers it.               *)
(*                                                                         *)
(* Searching by name and reading by identity are one look that may or may  *)
(* not find the copy.  Left out: conflicting receipts, manual re-reads;    *)
(* batches of shares are in ShareBatch.                                    *)
(***************************************************************************)
EXTENDS Tasks, FiniteSets

CONSTANTS Op,         \* rows of material_asset_operation
          Source,     \* those a source upload owns (material_upload_attempt)
          Dist,       \* rows of material_distribution
          MaxSurprises  \* bound: proofs that grow old, permissions lost, and messages that
                        \*   the broker delivers twice, taken together

ASSUME DistributionOK ==
  None \notin Op \cup Dist /\ Source \subseteq Op /\ MaxSurprises \in Nat

VARIABLES
  op,          \* material_asset_operation: status, what it does, attempt_token
               \*   set, claimed_until in the future
  opHolder,    \* the run whose token the operation carries
  dist,        \* material_distribution: status, operation
  waiting,     \* per distribution, its messages on the way
  taken,       \* per distribution, its messages that were delivered
  mapping,     \* account_material: none, stale or fresh
  allowed,     \* the submitter may build and upload there
  assetRun,    \* the task's place in run_distribution
  made,        \* on the platform: copies made by an operation's requests
  surprises, assetKills

messages == <<waiting, taken>>
world    == <<allowed, surprises>>
assetVars == <<op, opHolder, dist, messages, mapping, assetRun, made, world, assetKills>>

Unresolved == {"pending", "sending", "result_unknown", "verifying"}
Active     == {"queued", "preparing", "verifying", "result_unknown"}

\* What a message asks for, and whether it is of the present revision (or claim) of
\* the present operation, of an earlier one ("old"), or of another operation.
Recovery == {"recover_prepare", "recover_verify"}
Message  == {"prepare", "verify", "observe", "old", "foreign"} \cup Recovery
Kind(m)  == IF m \in {"prepare", "recover_prepare"} THEN "prepare" ELSE "verify"

DistributionTypeOK ==
  /\ op \in [Op -> [status : {"none", "succeeded", "failed"} \cup Unresolved,
                    does : {"share", "relay", "file"}, token : BOOLEAN, live : BOOLEAN]]
  /\ opHolder \in [Op -> Task \cup {None}]
  /\ dist \in [Dist -> [status : {"none", "ready", "blocked"} \cup Active,
                        op : Op \cup {None}]]
  /\ waiting \in [Dist -> SUBSET Message] /\ taken \in [Dist -> SUBSET Message]
  /\ mapping \in {"none", "stale", "fresh"} /\ allowed \in BOOLEAN
  /\ assetRun \in [Task -> [at : {"idle", "claimed", "armed", "posted", "answered",
                                  "looked", "failing"},
                            dist : Dist \cup {None}, op : Op \cup {None},
                            kind : {"prepare", "verify"},
                            sent : BOOLEAN, outcome : {"none", "good", "bad", "deferred"},
                            before : {"none"} \cup Unresolved]]
  /\ made \in [Op -> Nat]
  /\ surprises \in 0 .. MaxSurprises /\ assetKills \in 0 .. MaxCrashes

NoRun == [at |-> "idle", dist |-> None, op |-> None, kind |-> "verify", sent |-> FALSE,
          outcome |-> "none", before |-> "none"]

\* A source upload may have been going on when the account became a target.
DistributionInit ==
  /\ op \in [Op -> [status : {"none", "verifying"}, does : {"file"},
                    token : {FALSE}, live : {FALSE}]]
  /\ \A o \in Op : op[o].status = "verifying" => o \in Source
  /\ \A o, p \in Op : op[o].status = "verifying" /\ op[p].status = "verifying" => o = p
  /\ opHolder = [o \in Op |-> None]
  /\ dist = [d \in Dist |-> [status |-> "none", op |-> None]]
  /\ waiting = [d \in Dist |-> {}] /\ taken = [d \in Dist |-> {}]
  /\ mapping = "none" /\ allowed = TRUE
  /\ assetRun = [t \in Task |-> NoRun]
  /\ made = [o \in Op |-> 0]
  /\ surprises = 0 /\ assetKills = 0

-----------------------------------------------------------------------------
(* Messages.                                                               *)

Aged(ms, to) == IF ms \subseteq {"observe", "foreign"} THEN ms
                ELSE (ms \cap {"observe", "foreign"}) \cup {to}

\* m was delivered, and d gains the messages in more.
Delivered(d, m, more) ==
  /\ waiting' = [waiting EXCEPT ![d] = (@ \ {m}) \cup more]
  /\ taken' = [taken EXCEPT ![d] = (@ \cup {m}) \ more]

\* m was delivered and o claimed: its revision rises, and d gets the message that
\* recovers the claim.
ClaimRaises(d, m, o, recover) ==
  /\ waiting' = [e \in Dist |-> IF e = d THEN Aged(waiting[d] \ {m}, "old") \cup {recover}
                                ELSE IF dist[e].op = o THEN Aged(waiting[e], "old")
                                ELSE waiting[e]]
  /\ taken' = [e \in Dist |-> IF e = d THEN Aged(taken[d] \cup {m}, "old")
                              ELSE IF dist[e].op = o THEN Aged(taken[e], "old")
                              ELSE taken[e]]

\* m was delivered and d has another operation from now on.
Rebinds(d, m, more) ==
  /\ waiting' = [waiting EXCEPT ![d] = (IF @ \ {m} = {} THEN {} ELSE {"foreign"}) \cup more]
  /\ taken' = [taken EXCEPT ![d] = {"foreign"}]

\* The claim is over: the messages that recover it have nothing to recover.
ClaimOver(d, o, more) ==
  LET Spent(ms) == IF ms \cap Recovery = {} THEN ms ELSE (ms \ Recovery) \cup {"old"} IN
  /\ waiting' = [e \in Dist |->
       (IF dist[e].op = o THEN Spent(waiting[e]) ELSE waiting[e]) \cup (IF e = d THEN more ELSE {})]
  /\ taken' = [e \in Dist |-> IF dist[e].op = o THEN Spent(taken[e]) ELSE taken[e]]

-----------------------------------------------------------------------------
(* ensure_target_asset, within the submission of a build.                  *)

Reserved == {o \in Op : op[o].status \in Unresolved}
Unused   == {o \in Op \ Source : op[o].status = "none"}

\* reserve_asset_operation and _bind_operation: the unresolved operation if there is
\* one, or else a new one; an unsent one turns into a mere look when a copy is known.
Binds(o) == IF Reserved # {} THEN o \in Reserved ELSE o \in Unused

Bound(o, does, existing) ==
  IF o \in Source \/ op[o].status \notin {"none", "pending"} THEN op[o]
  ELSE [op[o] EXCEPT !.status = IF existing /\ mapping # "none" THEN "verifying" ELSE "pending",
                     !.does = IF op[o].status = "none" THEN does ELSE @]

\* choose_material_path: what is known to be there is looked up; it is not shared or
\* uploaded again.
Paths == IF mapping # "none" THEN {[does |-> "file", existing |-> TRUE]}
         ELSE {[does |-> does, existing |-> FALSE] : does \in {"share", "relay", "file"}}

\* uq_material_pending_distribution: no transaction makes d active beside another one.
UniquelyActive(d) == \A e \in Dist \ {d} : dist[e].status \notin Active

Ensure(d) ==
  /\ dist[d].status = "none" /\ allowed
  /\ mapping # "fresh"
  /\ \A e \in Dist : dist[e].status \notin Active
  /\ \E o \in Op, path \in Paths :
       /\ Binds(o)
       /\ op' = [op EXCEPT ![o] = Bound(o, path.does, path.existing)]
       /\ dist' = [dist EXCEPT ![d] = [status |-> "queued", op |-> o]]
       /\ waiting' = [waiting EXCEPT ![d] =
            {IF o \in Source THEN "observe"
             ELSE IF op'[o].status = "pending" THEN "prepare" ELSE "verify"}]
  /\ UNCHANGED <<opHolder, taken, mapping, assetRun, made, world, assetKills>>

-----------------------------------------------------------------------------
(* run_distribution, the claiming transaction.  A message m of d is taken; *)
(* every outcome but a claim ends the run.                                 *)

quiet == <<mapping, made, world, assetKills>>

Copied(o) == [made EXCEPT ![o] = @ + 1]
Copies == {o \in Op : made[o] > 0}

Ends(d, m, status, more) ==
  /\ dist' = [dist EXCEPT ![d].status = status]
  /\ Delivered(d, m, more)

Blocked(d, m) ==   \* the submitter lost the permission
  /\ ~allowed
  /\ Ends(d, m, "blocked", {})
  /\ UNCHANGED <<op, opHolder, assetRun>>

\* The checks that follow are for messages of the distribution's operation.
Foreign(d, m) ==
  /\ allowed /\ m = "foreign"
  /\ Delivered(d, m, {})
  /\ UNCHANGED <<op, opHolder, dist, assetRun>>

There(d) == mapping = "fresh" /\ (dist[d].op \in Source \/ op[dist[d].op].status \in {"pending", "succeeded"})

AlreadyThere(d, m) ==
  /\ allowed /\ m # "foreign" /\ There(d)
  /\ Ends(d, m, "ready", {})
  /\ UNCHANGED <<op, opHolder, assetRun>>

\* Another operation takes the place of d's, for an upload or for a look.
Rebind(d, m, existing, kind) ==
  \E o \in Op :
    /\ Binds(o)
    /\ op' = [op EXCEPT ![o] = Bound(o, "file", existing)]
    /\ dist' = [dist EXCEPT ![d].op = o]
    /\ Rebinds(d, m, {kind})
    /\ UNCHANGED <<opHolder, assetRun>>

\* Refused: require_upload_path finds no way to upload the original.
NoUpload(d, m) == Ends(d, m, "blocked", {}) /\ UNCHANGED <<op, opHolder, assetRun>>

SourceOwned(d, m) ==
  LET o == dist[d].op IN
  /\ allowed /\ m # "foreign" /\ o \in Source /\ ~There(d)
  /\ \/ op[o].status = "failed" /\ (Rebind(d, m, FALSE, "prepare") \/ NoUpload(d, m))
     \/ op[o].status = "succeeded" /\ Rebind(d, m, TRUE, "verify")
     \/ /\ op[o].status \in Unresolved
        /\ Ends(d, m, IF op[o].status = "result_unknown" THEN "result_unknown" ELSE "verifying",
                {"observe"})
        /\ UNCHANGED <<op, opHolder, assetRun>>

\* A message of the present revision or claim of the target's own operation.
Present(d, m) ==
  LET o == dist[d].op IN
  /\ allowed /\ o \notin Source /\ ~There(d)
  /\ m \notin {"foreign", "old"} /\ ~op[o].live

Dropped(d, m) ==   \* nothing to do, and nothing is left behind
  LET o == dist[d].op IN
  /\ allowed /\ o \notin Source /\ ~There(d) /\ m # "foreign"
  /\ \/ ~Present(d, m)
     \/ op[o].status = "succeeded"
     \/ op[o].status = "pending" /\ Kind(m) = "verify"
     \/ op[o].status \in {"verifying", "result_unknown"} /\ Kind(m) = "prepare"
  /\ Delivered(d, m, {})
  /\ UNCHANGED <<op, opHolder, dist, assetRun>>

\* An expired send met by a message for sending: it is handed to the lookup.
SendExpired(d, m) ==
  LET o == dist[d].op IN
  /\ Present(d, m) /\ op[o].status = "sending" /\ Kind(m) = "prepare"
  /\ op' = [op EXCEPT ![o].status = "result_unknown", ![o].token = FALSE]
  /\ opHolder' = [opHolder EXCEPT ![o] = None]
  /\ Ends(d, m, "result_unknown", {"verify"})
  /\ UNCHANGED assetRun

\* Mutant: an expired send is sent again.
Expects_Sending(o, kind) == IF kind = "prepare" THEN op[o].status \in {"pending", "sending"}
                            ELSE op[o].status \in {"result_unknown", "verifying"}

Expects(o, kind) == IF kind = "prepare" THEN op[o].status = "pending"
                    ELSE op[o].status \in {"sending", "result_unknown", "verifying"}

\* Sources, sizes or configuration do not allow it any more.
Refused(d, m) ==
  LET o == dist[d].op IN
  /\ Present(d, m) /\ Expects(o, Kind(m))
  /\ Ends(d, m, "blocked", {})
  /\ op' = [op EXCEPT ![o].status = IF Kind(m) = "prepare" THEN "failed"
                                   ELSE IF @ = "sending" THEN "result_unknown" ELSE @]
  /\ UNCHANGED <<opHolder, assetRun>>

\* o, as a transaction that goes on to claim it has left it so far.
Claim(t, d, m, o, was) ==
  LET status == IF was.status = "sending" THEN "result_unknown" ELSE was.status IN
  /\ op' = [op EXCEPT ![o] = [was EXCEPT !.status = status, !.token = TRUE, !.live = TRUE]]
  /\ opHolder' = [opHolder EXCEPT ![o] = t]
  /\ dist' = [dist EXCEPT ![d] = [op |-> o, status |-> IF was.status = "sending"
                                                     THEN "result_unknown" ELSE @.status]]
  /\ ClaimRaises(d, m, o, IF Kind(m) = "prepare" THEN "recover_prepare" ELSE "recover_verify")
  /\ assetRun' = [assetRun EXCEPT ![t] = [at |-> "claimed", dist |-> d, op |-> o,
                                          kind |-> Kind(m), sent |-> FALSE,
                                          outcome |-> "none", before |-> status]]

ClaimOp(t, d, m) ==
  LET o == dist[d].op IN
  Present(d, m) /\ Expects(o, Kind(m)) /\ Claim(t, d, m, o, op[o])

\* A failed upload of the original certainly had no effect and may be tried anew; a
\* failed share is final.
Failed(t, d, m) ==
  LET f == dist[d].op IN
  /\ Present(d, m) /\ op[f].status = "failed"
  /\ \/ NoUpload(d, m)
     \/ op[f].does = "file" /\ Kind(m) = "verify" /\ Rebind(d, m, FALSE, "prepare")
     \/ /\ op[f].does = "file" /\ Kind(m) = "prepare"
        /\ \E o \in Op : Binds(o) /\
             LET was == Bound(o, "file", FALSE) IN
             IF was.status = "pending" THEN Claim(t, d, m, o, was)
             ELSE /\ dist' = [dist EXCEPT ![d].op = o]
                  /\ Rebinds(d, m, {})
                  /\ UNCHANGED <<op, opHolder, assetRun>>

\* A message that recovers a claim is due when the claim expires.
Due(d, m) == m \in Recovery => ~op[dist[d].op].live

TakeMessage(t) ==
  /\ assetRun[t].at = "idle"
  /\ \E d \in Dist : \E m \in waiting[d] :
       /\ Due(d, m)
       /\ \/ /\ dist[d].status \notin Active
             /\ Delivered(d, m, {})
             /\ UNCHANGED <<op, opHolder, dist, assetRun>>
          \/ /\ dist[d].status \in Active
             /\ \/ Blocked(d, m) \/ Foreign(d, m) \/ AlreadyThere(d, m) \/ SourceOwned(d, m)
                \/ Dropped(d, m) \/ Failed(t, d, m) \/ SendExpired(d, m)
                \/ Refused(d, m) \/ ClaimOp(t, d, m)
  /\ UNCHANGED quiet

-----------------------------------------------------------------------------
(* The work of a claim.                                                    *)

Owns(t) == LET r == assetRun[t] IN opHolder[r.op] = t /\ dist[r.dist].op = r.op

Over(t) ==
  /\ assetRun' = [assetRun EXCEPT ![t] = NoRun]
  /\ opHolder' = Forget(opHolder, t)

At(t, place) == assetRun' = [assetRun EXCEPT ![t].at = place]

\* The last transaction before the request.
ArmSend(t) ==
  LET r == assetRun[t] IN
  /\ r.at = "claimed" /\ r.kind = "prepare"
  /\ \/ /\ ~Owns(t) /\ Over(t) /\ UNCHANGED <<op, dist>>
     \/ /\ Owns(t) /\ allowed /\ UniquelyActive(r.dist)
        /\ op' = [op EXCEPT ![r.op].status = "sending"]
        /\ dist' = [dist EXCEPT ![r.dist].status = "preparing"]
        /\ assetRun' = [assetRun EXCEPT ![t].at = "armed", ![t].sent = TRUE]
        /\ UNCHANGED opHolder
  /\ UNCHANGED <<messages, quiet>>

\* The request: the platform carries it out or not, and the answer says so or is lost.
SendAsset(t) ==
  LET r == assetRun[t]
      Then(place, sent, outcome) ==
        assetRun' = [assetRun EXCEPT ![t].at = place, ![t].sent = sent, ![t].outcome = outcome]
  IN
  /\ r.at = "armed"
  /\ \/ /\ made' = Copied(r.op)
        /\ \/ Then(IF op[r.op].does = "share" THEN "answered" ELSE "posted", TRUE, "good")
           \/ Then("failing", TRUE, "none")
     \/ /\ \/ Then("failing", TRUE, "none")                       \* no answer
           \/ \E outcome \in {"none", "deferred"} :              \* certainly not sent
                Then("failing", FALSE, outcome)
           \/ op[r.op].does = "share" /\ Then("answered", TRUE, "bad")
        /\ UNCHANGED made
  /\ UNCHANGED <<op, opHolder, dist, messages, mapping, world, assetKills>>

\* _relay_receipt: the receipt of an upload is stored before anything is concluded.
StoreUploadReceipt(t) ==
  LET r == assetRun[t] IN
  /\ r.at = "posted"
  /\ \/ /\ Owns(t) => UniquelyActive(r.dist)
        /\ op' = IF Owns(t) THEN [op EXCEPT ![r.op].status = "verifying"] ELSE op
        /\ dist' = IF Owns(t) THEN [dist EXCEPT ![r.dist].status = "verifying"] ELSE dist
        /\ At(t, "answered")
     \/ At(t, "failing") /\ UNCHANGED <<op, dist>>
  /\ UNCHANGED <<opHolder, messages, quiet>>

\* Anything fails before the request (the source, admission, check_current).
BeforeRequest(t) ==
  /\ assetRun[t].at = "claimed"
  /\ \E outcome \in {"none", "deferred"} :
       assetRun' = [assetRun EXCEPT ![t].at = "failing", ![t].outcome = outcome]
  /\ UNCHANGED <<op, opHolder, dist, messages, quiet>>

\* A look at the account; a copy may not be visible yet.
Look(t) ==
  /\ assetRun[t].at = "claimed" /\ assetRun[t].kind = "verify"
  /\ \E outcome \in (IF Copies # {} THEN {"good", "bad"} ELSE {"bad"}) :
       assetRun' = [assetRun EXCEPT ![t].at = "looked", ![t].outcome = outcome]
  /\ UNCHANGED <<op, opHolder, dist, messages, quiet>>

\* A transaction that ends a claim; it is rolled back if a distribution would become
\* active beside another one (uq_material_pending_distribution).
Concludes(t, status, distStatus, more) ==
  LET r == assetRun[t] IN
  IF distStatus \in Active /\ ~UniquelyActive(r.dist)
  THEN UNCHANGED <<op, dist, messages>>
  ELSE /\ op' = [op EXCEPT ![r.op].status = status, ![r.op].token = FALSE, ![r.op].live = FALSE]
       /\ dist' = [dist EXCEPT ![r.dist].status = distStatus]
       /\ ClaimOver(r.dist, r.op, more)

\* The concluding transaction, fenced by the token.
Conclude(t) ==
  LET r == assetRun[t]
      found == r.at = "looked" /\ r.outcome = "good"
  IN
  /\ r.at \in {"answered", "looked"}
  /\ found /\ Owns(t) => allowed
  /\ mapping' = IF found /\ Owns(t) THEN "fresh" ELSE mapping
  /\ \/ ~Owns(t) /\ UNCHANGED <<op, dist, messages>>
     \/ /\ Owns(t) /\ r.at = "answered"
        /\ IF r.outcome = "bad" THEN Concludes(t, "failed", "blocked", {})   \* share rejected
           ELSE Concludes(t, "verifying", "verifying", {"verify"})
     \/ Owns(t) /\ found /\ Concludes(t, "succeeded", "ready", {})
     \/ /\ Owns(t) /\ r.at = "looked" /\ ~found
        /\ \E status \in {"verifying", "result_unknown"} :
             Concludes(t, status, status, {"verify"})
  /\ Over(t)
  /\ UNCHANGED <<made, world, assetKills>>

\* The handler of exceptions: definitely unsent, deferred, or unknown.  Publishing the
\* mapping raises when the permission is gone.
WorkFails(t) ==
  LET r == assetRun[t]
      deferred == r.outcome = "deferred"
      failed == ~deferred /\ ~r.sent /\ r.kind = "prepare"
  IN
  /\ \/ r.at = "failing"
     \/ r.at = "looked" /\ r.outcome = "good" /\ ~allowed /\ Owns(t)
  /\ IF ~Owns(t) THEN UNCHANGED <<op, dist, messages>>
     ELSE CASE deferred -> Concludes(t, r.before, "queued", {r.kind})
            [] failed   -> Concludes(t, "failed", "blocked", {})
            [] OTHER    -> Concludes(t, "result_unknown", "result_unknown", {"verify"})
  /\ Over(t)
  /\ UNCHANGED quiet

\* Killed; the delivery of a lost task comes again, but finds its revision gone, so
\* only the recovery message left with the claim counts.
KillAsset(t) ==
  /\ assetRun[t].at # "idle" /\ assetKills < MaxCrashes
  /\ assetKills' = assetKills + 1
  /\ LET r == assetRun[t] IN
     \/ UNCHANGED messages
     \/ /\ waiting' = [waiting EXCEPT ![r.dist] =
                           @ \cup {IF dist[r.dist].op = r.op THEN "old" ELSE "foreign"}]
        /\ UNCHANGED taken
  /\ Over(t)
  /\ UNCHANGED <<op, dist, mapping, made, world>>

\* claimed_until passes; the task's hard limit is shorter than that.
OpClaimLapses(o) ==
  /\ op[o].live /\ opHolder[o] = None
  /\ op' = [op EXCEPT ![o].live = FALSE]
  /\ UNCHANGED <<opHolder, dist, messages, quiet, assetRun>>

-----------------------------------------------------------------------------
(* repair_material_dispatches: a delivered message that is still the live  *)
(* one of an active distribution is sent again after a while.              *)

LiveMessage(d, m) ==
  LET o == dist[d].op IN
  \/ m = "observe" /\ o \in Source
  \/ /\ op[o].status \in Unresolved
     /\ IF op[o].token THEN m \in Recovery /\ ~op[o].live ELSE m \in {"prepare", "verify"}

SentAgain(d, m) ==
  /\ waiting' = [waiting EXCEPT ![d] = @ \cup {m}]
  /\ taken' = [taken EXCEPT ![d] = @ \ {m}]
  /\ UNCHANGED <<op, opHolder, dist, mapping, assetRun, made, allowed, assetKills>>

RepairMaterial(d) ==
  /\ dist[d].status \in Active
  /\ \E m \in taken[d] : LiveMessage(d, m) /\ SentAgain(d, m)
  /\ UNCHANGED surprises

Surprise == surprises < MaxSurprises /\ surprises' = surprises + 1

\* The broker delivers at least once.
DeliveredAgain(d) ==
  /\ Surprise
  /\ \E m \in taken[d] : SentAgain(d, m)

-----------------------------------------------------------------------------
(* The surroundings.                                                       *)

\* A source upload ends: the original is there, or it certainly is not.
SourceEnds(o) ==
  /\ o \in Source /\ op[o].status = "verifying"
  /\ \/ /\ op' = [op EXCEPT ![o].status = "succeeded"]
        /\ mapping' = "fresh" /\ made' = Copied(o)
     \/ /\ op' = [op EXCEPT ![o].status = "failed"]
        /\ UNCHANGED <<mapping, made>>
  /\ UNCHANGED <<opHolder, dist, messages, assetRun, world, assetKills>>

ProofAges ==
  /\ mapping = "fresh" /\ Surprise
  /\ mapping' = "stale"
  /\ UNCHANGED <<op, opHolder, dist, messages, assetRun, made, allowed, assetKills>>

PermissionChanges ==
  /\ allowed' = ~allowed
  /\ IF allowed THEN Surprise ELSE UNCHANGED surprises
  /\ UNCHANGED <<op, opHolder, dist, messages, mapping, assetRun, made, assetKills>>

-----------------------------------------------------------------------------
AssetTask(t) ==
  \/ TakeMessage(t) \/ ArmSend(t) \/ SendAsset(t) \/ StoreUploadReceipt(t)
  \/ Look(t) \/ Conclude(t) \/ WorkFails(t)

DistributionNext ==
  \/ \E d \in Dist : Ensure(d) \/ RepairMaterial(d) \/ DeliveredAgain(d)
  \/ \E t \in Task : AssetTask(t) \/ BeforeRequest(t) \/ KillAsset(t)
  \/ \E o \in Op : OpClaimLapses(o) \/ SourceEnds(o)
  \/ ProofAges \/ PermissionChanges

\* Tasks run, messages arrive, the repair task is periodic, and clocks go on.
DistributionFairness ==
  /\ \A t \in Task : WF_assetVars(AssetTask(t))
  /\ \A d \in Dist : WF_assetVars(RepairMaterial(d))
  /\ \A o \in Op : WF_assetVars(OpClaimLapses(o))

DistributionSpec == DistributionInit /\ [][DistributionNext]_assetVars /\ DistributionFairness

-----------------------------------------------------------------------------
(* What must hold.                                                         *)

\* The material is brought into the account once, however many builds wait for it and
\* whatever is lost or killed: a second request is only made when the first certainly
\* had no effect (run_distribution, reserve_asset_operation).
OneCopy == Cardinality(Copies) <= 1 /\ \A o \in Copies : made[o] = 1

\* What a failed operation says is true, because a new one may take its place.
FailedMadeNothing == \A o \in Copies : op[o].status \notin {"none", "pending", "failed"}

\* At most one operation is unresolved, the rule of the partial unique index, which
\* no transaction may run into (reserve_asset_operation).
OneUnresolved == \A o, p \in Reserved : o = p

\* What a build is told to use is there (run_distribution, _publish_mapping).
ReadyIsThere ==
  (mapping # "none" \/ \E d \in Dist : dist[d].status = "ready") => Copies # {}

\* A distribution that waits for a request whose result is not known for certain has it
\* looked up on the platform (run_distribution, repair_material_dispatches).
InDoubt(d) == /\ dist[d].status \in Active /\ dist[d].op \in Op \ Source
              /\ op[dist[d].op].status \in {"sending", "result_unknown", "verifying"}
DoubtIsLookedUp ==
  \A d \in Dist : InDoubt(d) ~> ~InDoubt(d) \/ \E t \in Task : /\ assetRun[t].dist = d
                                                            /\ assetRun[t].kind = "verify"

DistributionSafe ==
  DistributionTypeOK /\ OneCopy /\ FailedMadeNothing /\ OneUnresolved /\ ReadyIsThere
=============================================================================
