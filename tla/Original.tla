------------------------------ MODULE Original ------------------------------
(***************************************************************************)
(* The temporary original of one material: its room in the storage budget, *)
(* the browser's multipart upload, the validation, the upload to the       *)
(* platform from a signed URL, and the deletion.                           *)
(*                                                                         *)
(* Create and Complete are sent at most once: a phase marker is committed  *)
(* before each, and a claim that is lost leaves it for a recovery that     *)
(* only reads.  Everything that may still touch the object is a use of it; *)
(* the deletion waits for the uses and for unknown results, and the room   *)
(* is given back only when the storage says that nothing is left.  The use *)
(* of a validation ends with the time of its process: one that stalled for *)
(* longer may find the object gone, and changes nothing any more.          *)
(*                                                                         *)
(* One generation is modelled, of one part that is put with any of the     *)
(* signed permits.  Left out: previews (five minutes), the pages of parts, *)
(* the budget's arithmetic, metadata and digests, the operator's switches. *)
(***************************************************************************)
EXTENDS Tasks

CONSTANT Permit   \* signed part permissions (original_use, purpose part_put)

ASSUME OriginalOK == "left" \notin Task   \* the use of a run that was killed is nobody's

VARIABLES
  original,   \* temporary_material_object: status, phase (error_code), claim unexpired,
              \*   s3_upload_id known, received_at set, reservation, user_cancelled
  keeper,     \* the run whose claim token it carries
  cleanup,    \* object_cleanup: status, reason, the request sent, claim unexpired
  cleaner,    \* the run whose claim token the cleanup carries
  permit,     \* part permissions: use, receipt, expired, and the browser's PUT
  reading,    \* active uses for validation: of a run, or left by a killed one
  source,     \* the upload operation: status, send_armed, video_id known, claim unexpired
  sourceOwner,\* the run whose token it carries
  urlUse,     \* its use of the original (purpose ingest) is active
  mail,       \* the message the upload goes on with (ingest_session_file.dispatch_id)
  work,       \* the task's place
  bucket,     \* the storage: multipart upload, parts, object, requests carried out
  platform,   \* may it still fetch the URL, did it make the video
  originalFaults  \* tasks killed, hosts that stalled, calls the storage did not answer

storeVars  == <<original, keeper, cleanup, cleaner, permit, reading>>
sourceVars == <<source, sourceOwner, urlUse, mail>>
originalVars == <<storeVars, sourceVars, work, bucket, platform, originalFaults>>

CreatePhases   == {"creating", "create_unknown"}

\* Mutant: a Complete is only recovered when its failure was noticed.
CompletePhases_Unknown == {"complete_unknown"}
CompletePhases == {"completing", "complete_unknown"}
Closed  == {"cleanup_pending", "deleting", "delete_unknown", "deleted"}
Undecided    == {"pending", "sending", "result_unknown", "verifying"}   \* unresolved uploads

OriginalTypeOK ==
  /\ original \in [status : {"waiting_capacity", "reserved", "receiving", "stored",
                             "validating", "verified"} \cup Closed,
                   phase : {"none", "unavailable", "collecting"} \cup CreatePhases \cup CompletePhases,
                   live : BOOLEAN, upload : BOOLEAN, received : BOOLEAN,
                   room : {"none", "reserved", "released"}, cancelled : BOOLEAN]
  /\ {keeper, cleaner, sourceOwner} \subseteq Task \cup {None}
  /\ cleanup \in [status : {"none", "pending", "deleting", "delete_unknown", "deleted"},
                  reason : {"none", "user_cancelled", "abandoned", "verified_source"},
                  sent : {"none", "delete", "abort"}, live : BOOLEAN]
  /\ permit \in [Permit -> [use : {"none", "active", "released"}, expired : BOOLEAN,
                            receipt : {"signed", "completed", "unused"},
                            put : {"idle", "flying", "landed", "lost"}]]
  /\ reading \subseteq Task \cup {"left"}
  /\ source \in [status : {"none", "failed", "succeeded"} \cup Undecided,
                 armed : BOOLEAN, video : BOOLEAN, live : BOOLEAN]
  /\ urlUse \in BOOLEAN
  /\ mail \in {"none", "first", "upload", "verify", "claim_upload", "claim_verify"}
  /\ work \in [Task -> [at : {"idle", "create", "relist", "created", "collect", "collected",
                              "complete", "head", "stored", "failing", "read", "validated",
                              "clean", "check", "cleaned", "url", "armed", "signed",
                              "posted", "received", "looked", "url_failing"},
                        result : {"none", "good", "bad", "unknown", "deferred", "unsent"}]]
  /\ bucket \in [upload : {"none", "open", "completed", "aborted"}, parts : BOOLEAN,
                 object : BOOLEAN, creates : Nat, completes : Nat]
  /\ platform \in [fetches : BOOLEAN, made : BOOLEAN]
  /\ originalFaults \in 0 .. MaxCrashes

NoWork == [at |-> "idle", result |-> "none"]

OriginalInit ==
  /\ original = [status |-> "waiting_capacity", phase |-> "none", live |-> FALSE, upload |-> FALSE,
                 received |-> FALSE, room |-> "none", cancelled |-> FALSE]
  /\ keeper = None /\ cleaner = None /\ sourceOwner = None
  /\ cleanup = [status |-> "none", reason |-> "none", sent |-> "none", live |-> FALSE]
  /\ permit = [p \in Permit |-> [use |-> "none", expired |-> FALSE, receipt |-> "signed",
                                 put |-> "idle"]]
  /\ reading = {} /\ urlUse = FALSE /\ mail = "none"
  /\ source = [status |-> "none", armed |-> FALSE, video |-> FALSE, live |-> FALSE]
  /\ work = [t \in Task |-> NoWork]
  /\ bucket = [upload |-> "none", parts |-> FALSE, object |-> FALSE, creates |-> 0, completes |-> 0]
  /\ platform = [fetches |-> FALSE, made |-> FALSE]
  /\ originalFaults = 0

-----------------------------------------------------------------------------
(* Steps of a run.                                                         *)

Work(t, place, result) == work' = [work EXCEPT ![t] = [at |-> place, result |-> result]]
Rests(t) == work' = [work EXCEPT ![t] = NoWork]

remote == <<bucket, platform, originalFaults>>

Fault == originalFaults < MaxCrashes /\ originalFaults' = originalFaults + 1

\* A call to the storage, that is answered or not: nothing of the database changes.
Calls == UNCHANGED <<storeVars, sourceVars, platform, originalFaults>>
NoAnswer == Fault /\ UNCHANGED <<storeVars, sourceVars, platform, bucket>>

\* A transaction on the object only.
OnObject == UNCHANGED <<cleanup, cleaner, permit, reading, sourceVars, remote>>

\* The claim of the object ends with the transaction.
Unclaimed(o) == [o EXCEPT !.live = FALSE]

-----------------------------------------------------------------------------
(* resume_file: room, then Create, or the reading of what Create did.      *)

\* Mutant: a Create is only recovered when its failure was noticed.
Recoverable_Unknown == original.phase = "create_unknown"
Recoverable == original.phase \in CreatePhases

\* locked, claimed and fenced in one transaction
Resume(t) ==
  /\ work[t].at = "idle"
  /\ ~original.upload /\ ~original.live
  /\ IF Recoverable
     THEN original.status \notin Closed \/ (original.cancelled /\ original.status = "cleanup_pending")
     ELSE original.status \notin Closed /\ ~original.cancelled
  /\ original' = IF Recoverable THEN [original EXCEPT !.live = TRUE, !.phase = "creating"]
                 ELSE [original EXCEPT !.live = TRUE, !.phase = "creating", !.status = "reserved",
                                       !.room = "reserved"]
  /\ keeper' = t
  /\ Work(t, IF Recoverable THEN "relist" ELSE "create", "none")
  /\ OnObject

CallCreate(t) ==
  /\ work[t].at = "create"
  /\ \/ /\ bucket' = [bucket EXCEPT !.upload = "open", !.creates = @ + 1]
        /\ \E result \in {"good", "unknown"} : Work(t, "created", result)
     \/ /\ \E result \in {"unsent", "unknown"} : Work(t, "created", result)
        /\ UNCHANGED bucket
  /\ Calls

\* ListMultipartUploads finds the one upload, or leaves it unknown.
Relist(t) ==
  /\ work[t].at = "relist"
  /\ \/ bucket.upload = "open" /\ Work(t, "created", "good") /\ UNCHANGED bucket /\ Calls
     \/ bucket.upload # "open" /\ Work(t, "created", "unknown") /\ UNCHANGED bucket /\ Calls
     \/ Work(t, "created", "unknown") /\ NoAnswer

StoreCreate(t) ==
  /\ work[t].at = "created"
  /\ original' =
       IF keeper # t THEN original
       ELSE IF work[t].result = "good"
       THEN [Unclaimed(original) EXCEPT !.upload = TRUE, !.phase = "none",
               !.status = IF original.cancelled THEN "cleanup_pending" ELSE "receiving"]
       ELSE [Unclaimed(original) EXCEPT
               !.phase = IF work[t].result = "unsent" THEN "unavailable" ELSE "create_unknown"]
  /\ keeper' = IF keeper = t THEN None ELSE keeper
  /\ Rests(t)
  /\ OnObject

-----------------------------------------------------------------------------
(* Parts: signing, the browser, its receipts.                              *)

SignPart(p) ==
  /\ original.status = "receiving" /\ original.upload /\ original.room = "reserved"
  /\ ~original.cancelled /\ original.phase \notin {"collecting"} \cup CompletePhases
  /\ cleanup.status = "none"
  /\ permit[p].use = "none"
  /\ permit' = [permit EXCEPT ![p].use = "active"]
  /\ UNCHANGED <<original, keeper, cleanup, cleaner, reading, sourceVars, work, remote>>

browser == <<original, keeper, cleanup, cleaner, reading, sourceVars, work, platform, originalFaults>>

PutStarts(p) ==
  /\ permit[p].use # "none" /\ ~permit[p].expired
  /\ permit[p].receipt = "signed" /\ permit[p].put = "idle"
  /\ permit' = [permit EXCEPT ![p].put = IF bucket.upload = "open" THEN "flying" ELSE "lost"]
  /\ UNCHANGED <<browser, bucket>>

\* The request may reach the storage after the answer got lost; a part
\* that was on its way when the upload was aborted may be kept all the same.
PutEnds(p) ==
  /\ permit[p].put = "flying"
  /\ \/ /\ bucket.upload \in {"open", "aborted"}
        /\ bucket' = [bucket EXCEPT !.parts = TRUE]
        /\ \E end \in {"landed", "lost"} : permit' = [permit EXCEPT ![p].put = end]
     \/ permit' = [permit EXCEPT ![p].put = "lost"] /\ UNCHANGED bucket
  /\ UNCHANGED browser

PermitExpires(p) ==
  /\ permit[p].use # "none" /\ ~permit[p].expired
  /\ permit' = [permit EXCEPT ![p].expired = TRUE]
  /\ UNCHANGED <<browser, bucket>>

\* acknowledge_parts: a part that landed is listed first; "unused" is the browser's word
\* that it never will start.
Acknowledge(p) ==
  /\ permit[p].use # "none" /\ permit[p].receipt = "signed"
  /\ \/ /\ permit[p].put = "landed"
        /\ permit[p].use = "active" => bucket.parts
        /\ permit' = [permit EXCEPT ![p].receipt = "completed"]
     \/ permit[p].put = "idle" /\ permit' = [permit EXCEPT ![p].receipt = "unused"]
  /\ UNCHANGED <<browser, bucket>>

-----------------------------------------------------------------------------
(* complete_file: collect, arm, Complete, HEAD, store.                     *)

Completes(t) ==
  LET recovers == original.phase \in CompletePhases IN
  /\ work[t].at = "idle"
  /\ original.upload /\ ~original.received /\ ~original.live
  /\ \/ recovers /\ original.cancelled /\ original.status = "cleanup_pending"
     \/ original.status = "receiving" /\ ~original.cancelled
  /\ original' = [original EXCEPT !.live = TRUE,
                    !.phase = IF recovers THEN "complete_unknown" ELSE "collecting"]
  /\ keeper' = t
  /\ Work(t, IF recovers THEN "head" ELSE "collect", "none")
  /\ OnObject

CallListParts(t) ==
  /\ work[t].at = "collect"
  /\ \E result \in {IF bucket.parts /\ bucket.upload = "open" THEN "good" ELSE "bad", "unknown"} :
       Work(t, "collected", result)
  /\ UNCHANGED bucket /\ Calls

\* Armed if every part is there and nobody has closed the object meanwhile.
ArmComplete(t) ==
  /\ work[t].at = "collected"
  /\ IF keeper = t /\ work[t].result = "good" /\ original.status = "receiving"
     THEN /\ original' = [original EXCEPT !.phase = "completing"]
          /\ Work(t, "complete", "none") /\ UNCHANGED keeper
     ELSE /\ original' = IF keeper # t THEN original
                         ELSE [Unclaimed(original) EXCEPT !.phase =
                                 IF work[t].result = "unknown" THEN "collecting" ELSE "none"]
          /\ keeper' = IF keeper = t THEN None ELSE keeper
          /\ Rests(t)
  /\ OnObject

CallComplete(t) ==
  /\ work[t].at = "complete"
  /\ \/ /\ bucket.upload = "open"
        /\ bucket' = [bucket EXCEPT !.upload = "completed", !.parts = FALSE, !.object = TRUE,
                                    !.completes = @ + 1]
        /\ (Work(t, "head", "none") \/ Work(t, "failing", "none"))
     \/ Work(t, "failing", "none") /\ UNCHANGED bucket
  /\ Calls

CallHead(t) ==
  /\ work[t].at = "head"
  /\ \/ bucket.object /\ Work(t, "stored", "none") /\ UNCHANGED bucket /\ Calls
     \/ ~bucket.object /\ Work(t, "failing", "none") /\ UNCHANGED bucket /\ Calls
     \/ Work(t, "failing", "none") /\ NoAnswer

\* _stored: accounted, the permits released, and the validation queued; an object that
\* was cancelled stays closed.
StoreComplete(t) ==
  /\ work[t].at = "stored"
  /\ IF keeper = t
     THEN /\ original' = [Unclaimed(original) EXCEPT !.received = TRUE, !.phase = "none",
                            !.status = IF original.cancelled THEN "cleanup_pending" ELSE "stored"]
          /\ permit' = [p \in Permit |-> IF permit[p].use = "active"
                                        THEN [permit[p] EXCEPT !.use = "released"] ELSE permit[p]]
          /\ keeper' = None
     ELSE UNCHANGED <<original, permit, keeper>>
  /\ Rests(t)
  /\ UNCHANGED <<cleanup, cleaner, reading, sourceVars, remote>>

CompleteFails(t) ==
  /\ work[t].at = "failing"
  /\ original' = IF keeper = t THEN [Unclaimed(original) EXCEPT !.phase = "complete_unknown"]
                 ELSE original
  /\ keeper' = IF keeper = t THEN None ELSE keeper
  /\ Rests(t)
  /\ OnObject

-----------------------------------------------------------------------------
(* cancel_file, and the scan for abandoned objects.                        *)

Untouched == original.status = "waiting_capacity"

\* A cleanup row is made once.
Intent(reason) == IF cleanup.status = "none"
                  THEN [cleanup EXCEPT !.status = "pending", !.reason = reason] ELSE cleanup

\* A validation is of one revision, and the cancellation is a new one.
Cancel ==
  /\ original.status # "deleted"
  /\ IF Untouched THEN /\ original' = [original EXCEPT !.cancelled = TRUE] /\ UNCHANGED cleanup
     ELSE /\ original' = [original EXCEPT !.cancelled = TRUE, !.status = "cleanup_pending"]
          /\ cleanup' = Intent("user_cancelled")
  /\ keeper' = IF original.status = "validating" THEN None ELSE keeper
  /\ UNCHANGED <<cleaner, permit, reading, sourceVars, work, remote>>

Abandon ==
  /\ cleanup.status = "none" /\ original.room = "reserved" /\ ~original.live
  /\ original.phase \notin CreatePhases \cup CompletePhases
  /\ source.status \in {"none", "failed"} /\ ~urlUse /\ reading = {}
  /\ \A p \in Permit : permit[p].use = "active" => permit[p].expired
  /\ original' = [original EXCEPT !.status = "cleanup_pending"]
  /\ cleanup' = Intent("abandoned")
  /\ UNCHANGED <<keeper, cleaner, permit, reading, sourceVars, work, remote>>

-----------------------------------------------------------------------------
(* validate_original.                                                      *)

Validate(t) ==
  /\ work[t].at = "idle"
  /\ original.status \in {"stored", "validating"} /\ ~original.live /\ cleanup.status = "none"
  /\ original' = [original EXCEPT !.status = "validating", !.live = TRUE]
  /\ keeper' = t
  /\ reading' = reading \cup {t}
  /\ Work(t, "read", "none")
  /\ UNCHANGED <<cleanup, cleaner, permit, sourceVars, remote>>

ReadOriginal(t) ==
  /\ work[t].at = "read"
  /\ \E result \in (IF bucket.object THEN {"good"} ELSE {}) \cup {"bad"} :
       Work(t, "validated", result)
  /\ UNCHANGED bucket /\ Calls

\* Mutant: the result of a validation is stored whoever has the claim by now.
StillClaimed_Whoever(t) == TRUE
StillClaimed(t) == keeper = t

StoreValidation(t) ==
  /\ work[t].at = "validated"
  /\ reading' = reading \ {t}
  /\ IF ~StillClaimed(t) THEN UNCHANGED <<original, keeper, mail>>
     ELSE /\ keeper' = None
          /\ IF work[t].result = "good"
             THEN original' = [Unclaimed(original) EXCEPT !.status = "verified"] /\ mail' = "first"
             ELSE original' = [Unclaimed(original) EXCEPT !.status = "stored"] /\ UNCHANGED mail
  /\ Rests(t)
  /\ UNCHANGED <<cleanup, cleaner, permit, source, sourceOwner, urlUse, remote>>

-----------------------------------------------------------------------------
(* run_url_source_upload: the platform fetches the original from a URL.    *)

onSource == <<original, keeper, cleanup, cleaner, permit, reading, remote>>

SourceKind == IF mail \in {"verify", "claim_verify"} THEN "verify" ELSE "upload"
SourceDue  == mail \in {"claim_upload", "claim_verify"} => ~source.live
Expected   == IF source.armed THEN "verify" ELSE "upload"

\* The first message makes the operation; a source account must have room for it.
NewUpload(t) ==
  /\ work[t].at = "idle" /\ mail = "first" /\ source.status = "none"
  /\ original.status = "verified"
  /\ source' = [source EXCEPT !.status = "pending", !.live = TRUE]
  /\ sourceOwner' = t /\ mail' = "claim_upload"
  /\ Work(t, "url", "none")
  /\ UNCHANGED <<urlUse, onSource>>

ClaimUpload(t) ==
  /\ work[t].at = "idle" /\ mail # "none" /\ SourceDue
  /\ source.status \in Undecided /\ ~source.live /\ Expected = SourceKind
  /\ source' = [source EXCEPT !.live = TRUE]
  /\ sourceOwner' = t
  /\ mail' = IF SourceKind = "verify" THEN "claim_verify" ELSE "claim_upload"
  /\ Work(t, "url", "none")
  /\ UNCHANGED <<urlUse, onSource>>

\* A message for an upload meets one that was armed: a send is handed to the lookup.
UploadExpired ==
  /\ mail # "none" /\ SourceDue /\ source.status \in Undecided /\ ~source.live
  /\ Expected # SourceKind /\ source.status = "sending"
  /\ source' = [source EXCEPT !.status = "result_unknown"]
  /\ sourceOwner' = None /\ mail' = "verify"
  /\ UNCHANGED <<urlUse, work, onSource>>

ArmUpload(t) ==
  /\ work[t].at = "url" /\ ~source.armed
  /\ IF sourceOwner = t /\ original.status = "verified"
     THEN /\ source' = [source EXCEPT !.status = "sending", !.armed = TRUE]
          /\ Work(t, "armed", "none")
     ELSE Work(t, "url_failing", "unsent") /\ UNCHANGED source
  /\ UNCHANGED <<sourceOwner, urlUse, mail, onSource>>

\* Permissions, admission and connections may fail before the request.
UploadDenied(t) ==
  /\ work[t].at \in {"url", "signed"}
  /\ \E result \in {"unsent", "deferred"} :
       Work(t, "url_failing", IF work[t].at = "url" /\ source.armed THEN "unknown" ELSE result)
  /\ UNCHANGED <<sourceVars, onSource>>

SignUrl(t) ==
  /\ work[t].at = "armed"
  /\ IF original.status = "verified" /\ cleanup.status = "none" /\ source.status = "sending"
     THEN urlUse' = TRUE /\ Work(t, "signed", "none")
     ELSE Work(t, "url_failing", "unsent") /\ UNCHANGED urlUse
  /\ UNCHANGED <<source, sourceOwner, mail, onSource>>

\* The platform fetches before it answers; without an answer it may still do so.
PostUrl(t) ==
  /\ work[t].at = "signed"
  /\ \/ /\ platform' = [platform EXCEPT !.made = TRUE] /\ bucket.object
        /\ Work(t, "posted", "good")
     \/ platform' = [platform EXCEPT !.fetches = TRUE] /\ Work(t, "url_failing", "unknown")
     \/ UNCHANGED platform /\ Work(t, "url_failing", "unknown")
  /\ UNCHANGED <<storeVars, sourceVars, bucket, originalFaults>>

PlatformFetches ==
  /\ platform.fetches
  /\ \E made \in (IF bucket.object THEN BOOLEAN ELSE {platform.made}) :
       platform' = [fetches |-> FALSE, made |-> made \/ platform.made]
  /\ UNCHANGED <<storeVars, sourceVars, work, bucket, originalFaults>>

\* _receipt, in a transaction of its own.
StoreUrlReceipt(t) ==
  /\ work[t].at = "posted"
  /\ source' = [source EXCEPT !.video = TRUE,
                  !.status = IF sourceOwner = t THEN "verifying" ELSE @]
  /\ Work(t, "received", "good")
  /\ UNCHANGED <<sourceOwner, urlUse, mail, onSource>>

\* A page of the search, or the video by its identity.
LookUpload(t) ==
  /\ work[t].at = "url" /\ source.armed
  /\ \E result \in (IF platform.made THEN {"good"} ELSE {}) \cup {"bad"} : Work(t, "looked", result)
  /\ UNCHANGED <<sourceVars, onSource>>

\* _finish: the upload is concluded and the deletion scheduled, or looked up again.
FinishUpload(t) ==
  LET concluded == work[t].result = "good" /\ source.video IN
  /\ work[t].at \in {"received", "looked"} /\ sourceOwner = t
  /\ source' = [source EXCEPT !.live = FALSE,
                  !.video = @ \/ work[t].result = "good",
                  !.status = IF concluded THEN "succeeded"
                             ELSE IF source.video \/ work[t].result = "good" THEN "verifying"
                             ELSE "result_unknown"]
  /\ sourceOwner' = None
  /\ mail' = IF concluded THEN "none" ELSE "verify"
  /\ urlUse' = (urlUse /\ ~concluded)
  /\ cleanup' = IF ~concluded \/ cleanup.status = "deleted" THEN cleanup
                ELSE [Intent("verified_source") EXCEPT !.reason = "verified_source"]
  /\ original' = IF concluded /\ original.status \in {"verified", "stored"}
                 THEN [original EXCEPT !.status = "cleanup_pending"] ELSE original
  /\ Rests(t)
  /\ UNCHANGED <<keeper, cleaner, permit, reading, remote>>

\* _failure: only the run that armed it can tell that an upload was not sent.
UploadFails(t) ==
  LET result == work[t].result  unsent == result \in {"unsent", "deferred"} IN
  /\ work[t].at = "url_failing" /\ sourceOwner = t
  /\ IF unsent
     THEN /\ source' = [source EXCEPT !.armed = FALSE, !.live = FALSE,
                          !.status = IF result = "deferred" THEN "pending" ELSE "failed"]
          /\ mail' = IF result = "deferred" THEN "upload" ELSE "none"
          /\ urlUse' = FALSE
     ELSE /\ source' = [source EXCEPT !.live = FALSE,
                          !.status = IF source.video THEN "verifying" ELSE "result_unknown"]
          /\ mail' = "verify" /\ UNCHANGED urlUse
  /\ sourceOwner' = None
  /\ Rests(t)
  /\ UNCHANGED onSource

\* The publication fails after the receipt (permission, ambiguity): looked up later.
FinishFails(t) ==
  /\ work[t].at = "received" /\ sourceOwner = t
  /\ Work(t, "url_failing", "unknown")
  /\ UNCHANGED <<sourceVars, onSource>>

UploadTaken(t) ==   \* somebody else has the operation
  /\ work[t].at \in {"received", "looked", "url_failing"} /\ sourceOwner # t
  /\ Rests(t) /\ UNCHANGED <<sourceVars, onSource>>

\* request_url_retry
RetryUpload ==
  /\ source.status = "failed" /\ original.status = "verified"
  /\ source' = [status |-> "pending", armed |-> FALSE, video |-> FALSE, live |-> FALSE]
  /\ mail' = "upload"
  /\ UNCHANGED <<sourceOwner, urlUse, work, onSource>>

-----------------------------------------------------------------------------
(* run_cleanup.                                                            *)

\* abandon_transport: what must be over before an object that is not known on the
\* platform may be deleted; which request deletes it.
NothingUnknown ==
  /\ ~original.live
  /\ original.phase \notin CreatePhases \cup CompletePhases
  /\ source.status # "none" => source.status = "failed" /\ ~source.armed /\ ~source.live

Transport == IF original.received \/ cleanup.reason = "verified_source" THEN "delete"
             ELSE IF original.upload THEN "abort" ELSE "none"

\* _active_uses: the use of a validation ends 30 seconds after its time limit, which is
\* when the claim it was given with lapses, unless the object is claimed again.
Readings == IF original.live THEN reading ELSE {}
InUse == \/ Readings # {} \/ urlUse
         \/ Transport # "abort" /\ \E p \in Permit : permit[p].use = "active"

\* A late ListParts is fenced off, whether the deletion can go on or not.
LateListing == /\ cleanup.reason # "verified_source" /\ ~original.live
               /\ original.phase = "collecting"
Fence == IF LateListing THEN keeper' = None /\ original' = [original EXCEPT !.phase = "none"]
         ELSE UNCHANGED <<keeper, original>>

CleanupDue == cleanup.status \notin {"none", "deleted"} /\ ~cleanup.live

CleanupDeferred ==
  /\ CleanupDue /\ cleanup.sent = "none"
  /\ \/ cleanup.reason # "verified_source" /\ ~NothingUnknown
     \/ Transport = "none" \/ InUse
  /\ reading' = IF (cleanup.reason = "verified_source" \/ NothingUnknown) /\ Transport # "none"
                THEN Readings ELSE reading
  /\ Fence
  /\ UNCHANGED <<cleanup, cleaner, permit, sourceVars, work, remote>>

StartCleanup(t) ==
  LET readback == cleanup.sent # "none" IN
  /\ work[t].at = "idle" /\ CleanupDue
  /\ ~readback => /\ cleanup.reason = "verified_source" \/ NothingUnknown
                  /\ Transport # "none" /\ ~InUse
  /\ cleanup' = [cleanup EXCEPT !.live = TRUE,
                   !.status = IF readback THEN "delete_unknown" ELSE "deleting",
                   !.sent = IF readback THEN @ ELSE Transport]
  /\ cleaner' = t
  /\ reading' = IF readback THEN reading ELSE Readings
  /\ keeper' = IF LateListing /\ ~readback THEN None ELSE keeper
  /\ original' = [original EXCEPT !.status = cleanup'.status,
                                  !.phase = IF LateListing /\ ~readback THEN "none" ELSE @]
  /\ Work(t, IF readback THEN "check" ELSE "clean", "none")
  /\ UNCHANGED <<permit, sourceVars, remote>>

\* Delete or Abort; in a readback only if the check finds something left.
CallDelete(t) ==
  /\ work[t].at = "clean"
  /\ \/ /\ bucket' = IF cleanup.sent = "delete" THEN [bucket EXCEPT !.object = FALSE]
                     ELSE [bucket EXCEPT !.upload = IF @ = "open" THEN "aborted" ELSE @,
                                         !.parts = FALSE]
        /\ (Work(t, "check", "good") \/ Work(t, "cleaned", "bad"))
        /\ Calls
     \/ (Work(t, "check", "good") \/ Work(t, "cleaned", "bad")) /\ NoAnswer

\* ListParts and HEAD.
CheckDeleted(t) ==
  LET left == IF cleanup.sent = "delete" THEN bucket.object
              ELSE bucket.upload = "open" \/ bucket.parts \/ bucket.object IN
  /\ work[t].at = "check"
  /\ \/ ~left /\ Work(t, "cleaned", "good") /\ UNCHANGED bucket /\ Calls
     \/ /\ left /\ Work(t, IF work[t].result = "none" THEN "clean" ELSE "cleaned", "bad")
        /\ UNCHANGED bucket /\ Calls
     \/ Work(t, "cleaned", "bad") /\ NoAnswer

\* _close_acknowledged_parts
Acknowledged == [p \in Permit |->
  IF permit[p].use = "active" /\ permit[p].expired /\ permit[p].receipt # "signed"
  THEN [permit[p] EXCEPT !.use = "released"] ELSE permit[p]]

\* _finish_deleted and release_object_reservation, or _defer.
StoreCleanup(t) ==
  LET gone == work[t].result = "good" IN
  /\ work[t].at = "cleaned"
  /\ IF cleaner # t THEN UNCHANGED <<original, cleanup, cleaner, permit, reading>>
     ELSE /\ reading' = IF gone /\ cleanup.sent = "abort" THEN Readings ELSE reading
          /\ permit' = IF gone /\ cleanup.sent = "abort" THEN Acknowledged ELSE permit
          /\ IF gone /\ (cleanup.sent = "abort" =>
                           /\ \A p \in Permit : permit'[p].use # "active"
                           /\ Readings = {} /\ ~urlUse)
             THEN /\ cleanup' = [cleanup EXCEPT !.status = "deleted", !.live = FALSE]
                  /\ original' = [original EXCEPT !.status = "deleted", !.phase = "none",
                                                  !.room = "released"]
             ELSE /\ cleanup' = [cleanup EXCEPT !.status = "delete_unknown", !.live = FALSE]
                  /\ original' = [original EXCEPT !.status = "delete_unknown"]
          /\ cleaner' = None
  /\ Rests(t)
  /\ UNCHANGED <<keeper, sourceVars, remote>>

-----------------------------------------------------------------------------
(* Kills and clocks.                                                       *)

KillWork(t) ==
  /\ work[t].at # "idle" /\ Fault
  /\ Rests(t)
  /\ keeper' = IF keeper = t THEN None ELSE keeper
  /\ cleaner' = IF cleaner = t THEN None ELSE cleaner
  /\ sourceOwner' = IF sourceOwner = t THEN None ELSE sourceOwner
  /\ reading' = IF t \in reading THEN (reading \ {t}) \cup {"left"} ELSE reading
  /\ UNCHANGED <<original, cleanup, permit, source, urlUse, mail, bucket, platform>>

\* Claims outlast the hard time limits of their tasks; a host that stalls is a fault.
Lapses(owner) == IF owner = None THEN UNCHANGED originalFaults ELSE Fault

\* (Also if the claim of a validation that still reads was cancelled.)
ObjectClaimLapses ==
  /\ original.live
  /\ IF keeper = None /\ reading \cap Task = {} THEN UNCHANGED originalFaults ELSE Fault
  /\ original' = [original EXCEPT !.live = FALSE]
  /\ UNCHANGED <<keeper, cleanup, cleaner, permit, reading, sourceVars, work, bucket, platform>>

CleanupClaimLapses ==
  /\ cleanup.live /\ Lapses(cleaner)
  /\ cleanup' = [cleanup EXCEPT !.live = FALSE]
  /\ UNCHANGED <<original, keeper, cleaner, permit, reading, sourceVars, work, bucket, platform>>

SourceClaimLapses ==
  /\ source.live /\ Lapses(sourceOwner)
  /\ source' = [source EXCEPT !.live = FALSE]
  /\ UNCHANGED <<storeVars, sourceOwner, urlUse, mail, work, bucket, platform>>

-----------------------------------------------------------------------------
Transports(t) ==
  \/ CallCreate(t) \/ Relist(t) \/ StoreCreate(t) \/ CallListParts(t) \/ ArmComplete(t)
  \/ CallComplete(t) \/ CallHead(t) \/ StoreComplete(t) \/ CompleteFails(t)
  \/ ReadOriginal(t) \/ StoreValidation(t)
SourceTask(t) ==
  \/ NewUpload(t) \/ ClaimUpload(t) \/ ArmUpload(t) \/ SignUrl(t) \/ PostUrl(t) \/ StoreUrlReceipt(t)
  \/ LookUpload(t) \/ FinishUpload(t) \/ UploadFails(t) \/ UploadTaken(t)
Cleaning(t) == StartCleanup(t) \/ CallDelete(t) \/ CheckDeleted(t) \/ StoreCleanup(t)
ClaimsLapse == ObjectClaimLapses \/ CleanupClaimLapses \/ SourceClaimLapses

OriginalNext ==
  \/ \E t \in Task : \/ Resume(t) \/ Completes(t) \/ Validate(t) \/ Transports(t)
                     \/ SourceTask(t) \/ UploadDenied(t) \/ FinishFails(t)
                     \/ Cleaning(t) \/ KillWork(t)
  \/ \E p \in Permit : SignPart(p) \/ PutStarts(p) \/ PutEnds(p) \/ PermitExpires(p) \/ Acknowledge(p)
  \/ Cancel \/ Abandon \/ UploadExpired \/ PlatformFetches \/ RetryUpload \/ CleanupDeferred
  \/ ClaimsLapse

\* What was begun with the storage is taken up by the repairs.
TakesUp(t) == \/ Recoverable /\ Resume(t)
              \/ original.phase \in CompletePhases /\ Completes(t)
              \/ cleanup.sent # "none" /\ StartCleanup(t)

\* Tasks run, messages arrive, the repairs are periodic and reach every row in the end,
\* clocks go on.
OriginalFairness ==
  /\ \A t \in Task : /\ WF_originalVars(Transports(t)) /\ WF_originalVars(SourceTask(t))
                     /\ WF_originalVars(Cleaning(t))
  /\ SF_originalVars(\E t \in Task : TakesUp(t))
  /\ WF_originalVars(UploadExpired) /\ WF_originalVars(ClaimsLapse)
  /\ \A p \in Permit : WF_originalVars(PermitExpires(p)) /\ WF_originalVars(PutEnds(p))

OriginalSpec == OriginalInit /\ [][OriginalNext]_originalVars /\ OriginalFairness

-----------------------------------------------------------------------------
(* What must hold.                                                         *)

\* Create and Complete are sent once, whatever is lost or killed (resume_file,
\* complete_file): a second one could leave an upload that nobody knows of.
SentOnce == bucket.creates <= 1 /\ bucket.completes <= 1

\* The original is neither gone nor being deleted while the platform may fetch it or a
\* validation reads it whose use is not over (run_cleanup, acquire_original_use).
UsedIsKept ==
  \/ platform.fetches
  \/ \E t \in Task : work[t].at = "signed" \/ (work[t].at = "read" /\ t \in reading)
  => bucket.object /\ cleanup.sent = "none"

\* An object whose deletion was sent stays closed, also when a validation that stalled
\* past its use, and may have read nothing, stores what it found (validate_original).
SentIsClosed == cleanup.sent # "none" => original.status \in Closed

\* Room in the storage budget is given back when the object and its upload are gone and
\* no request of a browser can bring anything any more (_finish_deleted,
\* release_object_reservation).
NothingComes == /\ ~bucket.object /\ bucket.upload # "open"
                /\ \A p \in Permit : permit[p].put = "flying" => bucket.upload = "completed"
FreedIsClosed == original.room = "released" => NothingComes

\* Nor is there a part left of it: one that came late must keep the room
\* (_close_acknowledged_parts).
FreedIsGone == original.room = "released" => ~bucket.parts

\* What may be uploaded to the platform again certainly was not (_failure, request_url_retry).
UnsentIsUnmade ==
  source.status \in {"none", "pending", "failed"} /\ (\A t \in Task : work[t].at # "signed")
    => ~platform.fetches /\ ~platform.made

\* new_generation: an original is asked for anew only if nothing of the former one can
\* still arrive, in the storage or on the platform.
AnewAllowed ==
  /\ \/ original.status = "deleted" /\ original.room = "released"
     \/ Untouched /\ original.room = "none" /\ ~original.upload /\ original.phase = "none"
  /\ source.status \notin Undecided \cup {"succeeded"}
  /\ reading = {} /\ ~urlUse /\ \A p \in Permit : permit[p].use # "active"
  /\ ~original.live
AnewIsSafe == AnewAllowed => NothingComes /\ ~platform.fetches /\ ~platform.made

OriginalSafe == /\ OriginalTypeOK /\ SentOnce /\ UsedIsKept /\ SentIsClosed
                /\ FreedIsClosed /\ UnsentIsUnmade /\ AnewIsSafe

\* A lost answer of Create or Complete is learned in the end, without sending it again
\* (repair_ingest_transports, reconcile_ingest_transport); a deletion that was sent gives
\* the room back, unless the browser cannot tell what became of a part.
PartsAccounted == \A p \in Permit : permit[p].use = "active" => permit[p].receipt # "signed"
OriginalSettles ==
  /\ bucket.upload = "open" ~> original.upload
  /\ bucket.object ~> original.received
  /\ cleanup.sent # "none" /\ PartsAccounted ~> original.room = "released"

\* An upload whose result is not known for certain is looked up on the platform
\* (run_url_source_upload).
UploadInDoubt == source.status \in {"sending", "result_unknown", "verifying"}
UploadIsLookedUp ==
  UploadInDoubt ~> ~UploadInDoubt \/ \E t \in Task : work[t].at = "url" /\ source.armed
=============================================================================
