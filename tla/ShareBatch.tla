----------------------------- MODULE ShareBatch -----------------------------
(***************************************************************************)
(* Many materials shared to many accounts with one request: the operations *)
(* of one source, target route and submitter, the batches that claim       *)
(* several of them, and the runs that share one operation by itself.       *)
(*                                                                         *)
(* A batch claims its members together, arms them together, sends one      *)
(* request and finishes them together; if its worker is killed, whichever  *)
(* member's recovery message comes first finishes the batch for all, as    *)
(* not sent or as unknown.                                                 *)
(*                                                                         *)
(* The rectangle of sources and targets is any set of operations; a        *)
(* distribution has the status its operation implies (Distribution has the *)
(* rest of run_distribution, permissions and uploads among it).            *)
(***************************************************************************)
EXTENDS Tasks, FiniteSets

CONSTANTS Share,   \* material_asset_operation rows of one frozen scope
          Batch    \* rows of material_share_batch

ASSUME ShareBatchOK == None \notin Share \cup Batch /\ "single" \notin Batch

VARIABLES
  share,       \* operation: status, what its token belongs to, claim unexpired,
               \*   send_armed, share_batch_id
  shareHolder, \* the run whose single claim the operation carries
  batch,       \* material_share_batch, its members and receipts
  shareWaiting,\* messages on the way, by operation
  shareTaken,  \* messages that were delivered
  shareRun,    \* the task's place in try_prepare_batch or run_distribution
  shared,      \* on the platform: shares of the operation that took effect
  shareFaults

shareMessages == <<shareWaiting, shareTaken>>
shareVars == <<share, shareHolder, batch, shareMessages, shareRun, shared, shareFaults>>

ShareDoubt  == {"sending", "result_unknown", "verifying"}
ShareStatus == {"pending", "failed", "succeeded"} \cup ShareDoubt
BatchOpen   == {"pending", "sending"}
BatchStatus == BatchOpen \cup {"none", "acknowledged", "result_unknown", "not_sent", "failed",
                               "completed"}
ShareRecovery == {"recover_prepare", "recover_verify"}
ShareMessage  == {"prepare", "verify", "old"} \cup ShareRecovery
ShareKind(r)  == IF r \in {"prepare", "recover_prepare"} THEN "prepare" ELSE "verify"

ShareTypeOK ==
  /\ share \in [Share -> [status : ShareStatus, token : {None, "single"} \cup Batch,
                          live : BOOLEAN, armed : BOOLEAN, batch : Batch \cup {None}]]
  /\ shareHolder \in [Share -> Task \cup {None}]
  /\ batch \in [Batch -> [status : BatchStatus, members : SUBSET Share, ready : SUBSET Share,
                          receipts : Nat]]
  /\ shareWaiting \in [Share -> SUBSET ShareMessage]
  /\ shareTaken \in [Share -> SUBSET ShareMessage]
  /\ shareRun \in [Task -> [at : {"idle", "batch", "sources", "sending", "done",
                                  "claimed", "armed", "receipt", "looked"},
                            batch : Batch \cup {None}, share : Share \cup {None},
                            kind : {"prepare", "verify"}, rejected : SUBSET Share,
                            outcome : {"none", "ACKNOWLEDGED", "UNKNOWN", "NOT_SENT", "FAILED",
                                       "found", "missing"}]]
  /\ shared \in [Share -> Nat]
  /\ shareFaults \in 0 .. MaxCrashes

NoShareRun == [at |-> "idle", batch |-> None, share |-> None, kind |-> "verify",
               rejected |-> {}, outcome |-> "none"]

ShareIdle ==
  /\ share = [m \in Share |-> [status |-> "pending", token |-> None, live |-> FALSE,
                               armed |-> FALSE, batch |-> None]]
  /\ shareHolder = [m \in Share |-> None]
  /\ batch = [b \in Batch |-> [status |-> "none", members |-> {}, ready |-> {}, receipts |-> 0]]
  /\ shareTaken = [m \in Share |-> {}]
  /\ shareRun = [t \in Task |-> NoShareRun]
  /\ shared = [m \in Share |-> 0]
  /\ shareFaults = 0

\* ensure_target_asset has reserved the operations and queued their messages.
ShareInit  == ShareIdle /\ shareWaiting = [m \in Share |-> {"prepare"}]
ShareRests == ShareIdle /\ shareWaiting = [m \in Share |-> {}]

-----------------------------------------------------------------------------
(* Messages.                                                               *)

ShareAged(rows) == IF rows = {} THEN {} ELSE {"old"}
ShareSpent(rows) == IF rows \cap ShareRecovery = {} THEN rows
                    ELSE (rows \ ShareRecovery) \cup {"old"}

ShareDelivered(m, r, more) ==
  /\ shareWaiting' = [shareWaiting EXCEPT ![m] = (@ \ {r}) \cup more]
  /\ shareTaken' = [shareTaken EXCEPT ![m] = (@ \cup {r}) \ more]

\* r of m was delivered, and each of ms claimed: their revisions rise.
ShareClaimRaises(m, r, ms, recover) ==
  /\ shareWaiting' = [n \in Share |->
        IF n \in ms THEN ShareAged(shareWaiting[n] \ (IF n = m THEN {r} ELSE {})) \cup {recover}
        ELSE shareWaiting[n]]
  /\ shareTaken' = [n \in Share |->
        IF n \in ms THEN ShareAged(shareTaken[n] \cup (IF n = m THEN {r} ELSE {}))
        ELSE shareTaken[n]]

\* The claims of ms are over, and each gets the messages in more[n].
ShareClaimsOver(ms, more) ==
  /\ shareWaiting' = [n \in Share |-> IF n \in ms THEN ShareSpent(shareWaiting[n]) \cup more[n]
                                     ELSE shareWaiting[n]]
  /\ shareTaken' = [n \in Share |-> IF n \in ms THEN ShareSpent(shareTaken[n])
                                   ELSE shareTaken[n]]

-----------------------------------------------------------------------------
(* _finish: a batch ends, once, for all members it still has the claims    *)
(* of.                                                                     *)

HeldBy(b) == {m \in batch[b].members : share[m].token = b}

MemberEffect(m, effect, failed) == IF m \in failed THEN "FAILED" ELSE effect

StatusAfter(effect) == CASE effect = "ACKNOWLEDGED" -> "verifying"
                         [] effect = "UNKNOWN"      -> "result_unknown"
                         [] effect = "NOT_SENT"     -> "pending"
                         [] effect = "FAILED"       -> "failed"

BatchAfter(effect) == CASE effect = "ACKNOWLEDGED" -> "acknowledged"
                        [] effect = "UNKNOWN"      -> "result_unknown"
                        [] effect = "NOT_SENT"     -> "not_sent"
                        [] effect = "FAILED"       -> "failed"

FinishBatch(b, effect, failed) ==
  /\ batch[b].status \in BatchOpen
  /\ batch' = [batch EXCEPT ![b].status = BatchAfter(effect), ![b].receipts = @ + 1]
  /\ share' = [m \in Share |->
       IF m \notin HeldBy(b) THEN share[m]
       ELSE LET own == MemberEffect(m, effect, failed) IN
            [share[m] EXCEPT !.status = StatusAfter(own), !.token = None, !.live = FALSE,
                             !.armed = @ /\ own # "NOT_SENT"]]
  /\ ShareClaimsOver(HeldBy(b),
       [m \in Share |-> IF MemberEffect(m, effect, failed) = "FAILED" THEN {}
                        ELSE IF effect = "NOT_SENT" THEN {"prepare"} ELSE {"verify"}])

-----------------------------------------------------------------------------
(* try_prepare_batch, its transactions before the request.                 *)

\* Mutant: only a batch that was not armed is recovered.
Abandoned_Unarmed(b) ==
  /\ batch[b].status = "pending"
  /\ \A n \in batch[b].members : share[n].status = "pending" /\ ~share[n].live

\* A recovery message finds a batch whose claims have all expired as they were made.
Abandoned(b) ==
  /\ batch[b].status \in BatchOpen
  /\ \A n \in batch[b].members :
       /\ share[n].status = batch[b].status /\ share[n].token = b /\ ~share[n].live
       /\ share[n].armed = (batch[b].status = "sending")

BatchRecovers(m, r) ==
  /\ r = "recover_prepare" /\ share[m].status \in BatchOpen
  /\ share[m].batch # None /\ Abandoned(share[m].batch)

\* Mutant: what was never answered counts as not sent.
RecoverBatch_Unsent(m, r) ==
  /\ BatchRecovers(m, r)
  /\ FinishBatch(share[m].batch, "NOT_SENT", {})
  /\ UNCHANGED <<shareHolder, shareRun>>

RecoverBatch(m, r) ==
  /\ BatchRecovers(m, r)
  /\ FinishBatch(share[m].batch,
                 IF share[m].status = "sending" THEN "UNKNOWN" ELSE "NOT_SENT", {})
  /\ UNCHANGED <<shareHolder, shareRun>>

Candidates == {n \in Share : share[n].status = "pending" /\ ~share[n].armed /\ ~share[n].live}

\* The message is of the present revision or claim of an operation that may be sent.
Anchors(m, r) == /\ share[m].status = "pending"
                 /\ r \in {"prepare", "recover_prepare"} /\ ~BatchRecovers(m, r)

\* A member of an earlier batch needs the receipt that nothing of it was sent.
Replayed(n) == share[n].batch # None /\ batch[share[n].batch].status # "not_sent"

ClaimBatch(t, m, r) ==
  /\ Anchors(m, r) /\ m \in Candidates
  /\ \E b \in Batch, ms \in SUBSET Candidates :
       /\ batch[b].status = "none"
       /\ m \in ms /\ Cardinality(ms) >= 2
       /\ IF \E n \in ms : Replayed(n)
          THEN /\ ShareDelivered(m, r, {})      \* material_batch_replay_forbidden
               /\ UNCHANGED <<share, shareHolder, batch, shareRun>>
          ELSE /\ batch' = [batch EXCEPT ![b].status = "pending", ![b].members = ms]
               /\ share' = [n \in Share |->
                    IF n \in ms THEN [share[n] EXCEPT !.token = b, !.live = TRUE, !.batch = b]
                    ELSE share[n]]
               /\ shareHolder' = [n \in Share |-> IF n \in ms THEN None ELSE shareHolder[n]]
               /\ ShareClaimRaises(m, r, ms, "recover_prepare")
               /\ shareRun' = [shareRun EXCEPT ![t] = [NoShareRun EXCEPT
                                 !.at = "batch", !.batch = b, !.kind = "prepare"]]

-----------------------------------------------------------------------------
(* run_distribution for one operation, when no batch was formed.           *)

Single(m, r) ==   \* the message still has something to do
  /\ r # "old" /\ ~share[m].live /\ ~BatchRecovers(m, r)

ShareDropped(m, r) ==
  /\ \/ r = "old" \/ share[m].live
     \/ share[m].status \in {"succeeded", "failed"}
     \/ share[m].status = "pending" /\ ShareKind(r) = "verify"
     \/ share[m].status \in {"verifying", "result_unknown"} /\ ShareKind(r) = "prepare"
  /\ ShareDelivered(m, r, {})
  /\ UNCHANGED <<share, shareHolder, batch, shareRun>>

ShareExpired(m, r) ==
  /\ Single(m, r) /\ share[m].status = "sending" /\ ShareKind(r) = "prepare"
  /\ share' = [share EXCEPT ![m].status = "result_unknown", ![m].token = None]
  /\ shareHolder' = [shareHolder EXCEPT ![m] = None]
  /\ ShareDelivered(m, r, {"verify"})
  /\ UNCHANGED <<batch, shareRun>>

ClaimSingle(t, m, r) ==
  /\ Single(m, r)
  /\ IF ShareKind(r) = "prepare" THEN share[m].status = "pending" ELSE share[m].status \in ShareDoubt
  /\ share' = [share EXCEPT ![m].token = "single", ![m].live = TRUE,
                            ![m].status = IF @ = "sending" THEN "result_unknown" ELSE @]
  /\ shareHolder' = [shareHolder EXCEPT ![m] = t]
  /\ ShareClaimRaises(m, r, {m}, IF ShareKind(r) = "prepare" THEN "recover_prepare"
                                 ELSE "recover_verify")
  /\ shareRun' = [shareRun EXCEPT ![t] = [NoShareRun EXCEPT
                    !.at = "claimed", !.share = m, !.kind = ShareKind(r)]]
  /\ UNCHANGED batch

TakeShare(t) ==
  /\ shareRun[t].at = "idle"
  /\ \E m \in Share : \E r \in shareWaiting[m] :
       /\ r \in ShareRecovery => ~share[m].live
       /\ \/ RecoverBatch(m, r) \/ ClaimBatch(t, m, r) \/ ShareDropped(m, r)
          \/ ShareExpired(m, r) \/ ClaimSingle(t, m, r)
  /\ UNCHANGED <<shared, shareFaults>>

-----------------------------------------------------------------------------
(* _send_batch.                                                            *)

BatchGoes(t, at, outcome, rejected) ==
  shareRun' = [shareRun EXCEPT ![t].at = at, ![t].outcome = outcome, ![t].rejected = rejected]

unsent == <<share, shareHolder, batch, shareMessages, shared, shareFaults>>

\* The sources are read; some of them may be missing by now.
ReadSources(t) ==
  LET b == shareRun[t].batch IN
  /\ shareRun[t].at = "batch"
  /\ \/ BatchGoes(t, "sources", "none", {})
     \/ \E gone \in SUBSET batch[b].members \ {{}} : BatchGoes(t, "done", "NOT_SENT", gone)
  /\ UNCHANGED unsent

\* Admission, permissions and claims are checked until the batch is armed.
BatchDenied(t) ==
  /\ shareRun[t].at \in {"batch", "sources"}
  /\ \E effect \in {"NOT_SENT", "FAILED"} : BatchGoes(t, "done", effect, {})
  /\ UNCHANGED unsent

ArmBatch(t) ==
  LET b == shareRun[t].batch IN
  /\ shareRun[t].at = "sources"
  /\ IF HeldBy(b) = batch[b].members
     THEN /\ share' = [m \in Share |-> IF m \in HeldBy(b)
                                      THEN [share[m] EXCEPT !.status = "sending", !.armed = TRUE]
                                      ELSE share[m]]
          /\ batch' = [batch EXCEPT ![b].status = "sending"]
          /\ BatchGoes(t, "sending", "none", {})
     ELSE BatchGoes(t, "done", "FAILED", {}) /\ UNCHANGED <<share, batch>>
  /\ UNCHANGED <<shareHolder, shareMessages, shared, shareFaults>>

\* The platform shares to some of the targets, and says so or does not.
PostBatch(t) ==
  LET b == shareRun[t].batch IN
  /\ shareRun[t].at = "sending"
  /\ \/ BatchGoes(t, "done", "NOT_SENT", {}) /\ UNCHANGED shared
     \/ \E done \in SUBSET batch[b].members :
          /\ shared' = [m \in Share |-> IF m \in done THEN shared[m] + 1 ELSE shared[m]]
          /\ \/ BatchGoes(t, "done", "UNKNOWN", {})
             \/ BatchGoes(t, "done", "ACKNOWLEDGED", batch[b].members \ done)
  /\ UNCHANGED <<share, shareHolder, batch, shareMessages, shareFaults>>

ShareRunEnds(t) == /\ shareRun' = [shareRun EXCEPT ![t] = NoShareRun]
                   /\ shareHolder' = Forget(shareHolder, t)

EndBatch(t) ==
  LET run == shareRun[t] IN
  /\ run.at = "done" /\ run.batch # None
  /\ \/ FinishBatch(run.batch, run.outcome, run.rejected)
     \/ batch[run.batch].status \notin BatchOpen /\ UNCHANGED <<share, batch, shareMessages>>
  /\ ShareRunEnds(t)
  /\ UNCHANGED <<shared, shareFaults>>

-----------------------------------------------------------------------------
(* A run of one operation.                                                 *)

ShareOwned(t) == shareHolder[shareRun[t].share] = t

ArmSingle(t) ==
  LET m == shareRun[t].share IN
  /\ shareRun[t].at = "claimed" /\ shareRun[t].kind = "prepare"
  /\ \/ /\ ShareOwned(t)
        /\ share' = [share EXCEPT ![m].status = "sending", ![m].armed = TRUE]
        /\ BatchGoes(t, "armed", "none", {}) /\ UNCHANGED shareHolder
     \/ ~ShareOwned(t) /\ ShareRunEnds(t) /\ UNCHANGED share
     \/ /\ \E outcome \in {"NOT_SENT", "FAILED"} : BatchGoes(t, "receipt", outcome, {})
        /\ UNCHANGED <<share, shareHolder>>
  /\ UNCHANGED <<batch, shareMessages, shared, shareFaults>>

PostSingle(t) ==
  LET m == shareRun[t].share IN
  /\ shareRun[t].at = "armed"
  /\ \/ /\ shared' = [shared EXCEPT ![m] = @ + 1]
        /\ \E outcome \in {"ACKNOWLEDGED", "UNKNOWN"} : BatchGoes(t, "receipt", outcome, {})
     \/ /\ \E outcome \in {"UNKNOWN", "NOT_SENT", "FAILED"} : BatchGoes(t, "receipt", outcome, {})
        /\ UNCHANGED shared
  /\ UNCHANGED <<share, shareHolder, batch, shareMessages, shareFaults>>

\* try_verify_batch or a single look at the account.
LookShare(t) ==
  LET m == shareRun[t].share IN
  /\ shareRun[t].at = "claimed" /\ shareRun[t].kind = "verify"
  /\ \E outcome \in {"missing", "UNKNOWN"} \cup (IF shared[m] > 0 THEN {"found"} ELSE {}) :
       BatchGoes(t, "looked", outcome, {})
  /\ UNCHANGED unsent

\* sync_batch_member, for a transaction that leaves m with the given status.
Synced(m, status) ==
  LET b == share[m].batch IN
  IF b = None THEN batch
  ELSE LET ready == IF status = "succeeded" THEN batch[b].ready \cup {m} ELSE batch[b].ready \ {m}
           open  == batch[b].status = "sending"
       IN [batch EXCEPT ![b].ready = ready, ![b].receipts = IF open THEN @ + 1 ELSE @,
                        ![b].status = IF ready = batch[b].members THEN "completed"
                                      ELSE IF open THEN "result_unknown" ELSE @]

Leaves(m, status, more) ==
  /\ share' = [share EXCEPT ![m].status = status, ![m].token = None, ![m].live = FALSE,
                            ![m].armed = @ /\ status # "pending"]
  /\ ShareClaimsOver({m}, [n \in Share |-> more])

ConcludeShare(t) ==
  LET m == shareRun[t].share  outcome == shareRun[t].outcome IN
  /\ shareRun[t].at \in {"receipt", "looked"}
  /\ IF ~ShareOwned(t) THEN UNCHANGED <<share, shareMessages, batch>>
     ELSE \/ outcome = "ACKNOWLEDGED" /\ Leaves(m, "verifying", {"verify"})
             /\ batch' = Synced(m, "verifying")
          \/ outcome = "UNKNOWN" /\ Leaves(m, "result_unknown", {"verify"}) /\ UNCHANGED batch
          \/ outcome = "NOT_SENT" /\ Leaves(m, "pending", {"prepare"}) /\ UNCHANGED batch
          \/ outcome = "FAILED" /\ Leaves(m, "failed", {}) /\ UNCHANGED batch
          \/ outcome = "found" /\ Leaves(m, "succeeded", {}) /\ batch' = Synced(m, "succeeded")
          \/ /\ outcome = "missing"
             /\ \E status \in {"verifying", "result_unknown"} :
                  Leaves(m, status, {"verify"}) /\ batch' = Synced(m, status)
  /\ ShareRunEnds(t)
  /\ UNCHANGED <<shared, shareFaults>>

-----------------------------------------------------------------------------
(* Faults and repair.                                                      *)

\* The broker gives the delivery of a lost task to another one; its revision is gone.
KillShare(t) ==
  /\ shareRun[t].at # "idle" /\ shareFaults < MaxCrashes
  /\ shareFaults' = shareFaults + 1
  /\ ShareRunEnds(t)
  /\ UNCHANGED <<share, batch, shareMessages, shared>>

Worked(m) == \/ shareHolder[m] # None
             \/ \E t \in Task : shareRun[t].batch # None /\ shareRun[t].batch = share[m].token

\* A claim outlasts its run's own deadlines; a host that stalls is a fault.  The
\* members of a batch were claimed with one time.
ShareClaimLapses(m) ==
  /\ share[m].live
  /\ share' = [n \in Share |-> IF n = m \/ (share[n].token = share[m].token /\ share[m].token \in Batch)
                              THEN [share[n] EXCEPT !.live = FALSE] ELSE share[n]]
  /\ \/ ~Worked(m) /\ UNCHANGED shareFaults
     \/ Worked(m) /\ shareFaults < MaxCrashes /\ shareFaults' = shareFaults + 1
  /\ UNCHANGED <<shareHolder, batch, shareMessages, shareRun, shared>>

\* repair_material_dispatches
RepairShare(m) ==
  /\ share[m].status \in {"pending"} \cup ShareDoubt
  /\ \E r \in shareTaken[m] :
       /\ IF share[m].token # None THEN r \in ShareRecovery /\ ~share[m].live
          ELSE r \in {"prepare", "verify"}
       /\ shareWaiting' = [shareWaiting EXCEPT ![m] = @ \cup {r}]
       /\ shareTaken' = [shareTaken EXCEPT ![m] = @ \ {r}]
  /\ UNCHANGED <<share, shareHolder, batch, shareRun, shared, shareFaults>>

-----------------------------------------------------------------------------
ShareTask(t) ==
  \/ TakeShare(t) \/ ReadSources(t) \/ BatchDenied(t) \/ ArmBatch(t) \/ PostBatch(t)
  \/ EndBatch(t) \/ ArmSingle(t) \/ PostSingle(t) \/ LookShare(t) \/ ConcludeShare(t)

ShareNext ==
  \/ \E t \in Task : ShareTask(t) \/ KillShare(t)
  \/ \E m \in Share : ShareClaimLapses(m) \/ RepairShare(m)

\* Tasks run, messages arrive, the repair task is periodic, and clocks go on.
ShareFairness ==
  /\ \A t \in Task : WF_shareVars(ShareTask(t))
  /\ \A m \in Share : WF_shareVars(RepairShare(m)) /\ WF_shareVars(ShareClaimLapses(m))

ShareSpec == ShareInit /\ [][ShareNext]_shareVars /\ ShareFairness

-----------------------------------------------------------------------------
(* What must hold.                                                         *)

\* A material is shared to an account once, be it in a batch, by itself, or in a batch
\* after an attempt that was not sent (try_prepare_batch, run_distribution); what may be
\* sent again, or has failed, was certainly not shared.
SharedOnce ==
  \A m \in Share : /\ shared[m] <= 1
                   /\ shared[m] = 1 => share[m].status \notin {"pending", "failed"}

\* One request has one receipt: a batch is finished once, by its sender, by a member's
\* recovery or by the look at one of its members (_finish, sync_batch_member).
OneReceipt ==
  \A b \in Batch :
    batch[b].receipts = IF batch[b].status \in BatchOpen \cup {"none"} THEN 0 ELSE 1

\* The members of an open batch stand as the batch does, so that a recovery message of
\* any of them can finish it for all (Abandoned is unanimous or never true).
MembersStandTogether ==
  \A b \in Batch : batch[b].status \in BatchOpen =>
    \A m \in batch[b].members :
      /\ share[m].status = batch[b].status /\ share[m].token = b
      /\ share[m].armed = (batch[b].status = "sending")

ShareBatchSafe == ShareTypeOK /\ SharedOnce /\ OneReceipt /\ MembersStandTogether

\* A batch whose worker is gone does not stay open (try_prepare_batch, recover_armed and
\* recover_unarmed).
BatchSettles == \A b \in Batch : batch[b].status \in BatchOpen ~> batch[b].status \notin BatchOpen
=============================================================================
