----------------------------- MODULE LinkSteps -----------------------------
(***************************************************************************)
(* Promotion links of a provider.  A line of a preparation names a drama;  *)
(* it is looked up, given a channel (jiashu) or a promotion (wangyan) at   *)
(* the provider, and the link found there is published.  Each delivery     *)
(* does one unit of work with at most one remote request: process_item     *)
(* queues a watchdog, run_link_item claims the line, works on a copy of    *)
(* its work record, and stores that copy if the claim is still its own;    *)
(* process_item then queues the next unit.                                 *)
(*                                                                         *)
(* All lines here name the same drama of the same application, so that     *)
(* they share one remote scope, which one of them holds at a time.  What   *)
(* a write did is kept in an effect, whose key is the request.  A message  *)
(* of an older revision does nothing; only the current one is kept here.   *)
(*                                                                         *)
(* Left out: pages of the search, records that are corrupt (they are       *)
(* quarantined), effects of reads (an audit), and texts.                   *)
(***************************************************************************)
EXTENDS Tasks, FiniteSets

CONSTANTS Line,         \* rows of link_preparation_item
          Episode       \* configurations a preparation may ask for

ASSUME LinkStepsOK == None \notin Line \cup Nat /\ 0 \notin Line \cup Episode

Terminal == {"ready", "needs_resolution", "failed", "config_conflict", "blocked_auth"}
Writes == {"create", "generate", "save"}
Recovering == {"recover_create", "recover_generate", "recover_save"}
Uncertain == {"sending", "result_unknown"}
Version == 0 .. MaxCrashes   \* bound: a replacement of the credentials counts as a fault
LinkRows == Line \cup {None}     \* wangyan: the promotion of a line, or of earlier times;
                             \* jiashu: None is the channel

VARIABLES
  line,         \* link_preparation_item: status, whether its claim is live, and _work
  lineHolder,   \* the run whose claim_token it carries
  lineRunner,   \* the run whose dispatch_revision is the current one
  lineMessage,  \* the message of the current revision: taken or lost, due, or the watchdog's
  scopeHolder,  \* active_item_id of the remote scope
  effect,       \* rows of provider_effect
  link,         \* the ready promotion_link of a configuration: the row it names
  credentials,  \* credential_version and verification_token of the connection
  linkRun,      \* the task's place in process_item and its copy of the work
  provider,     \* kind of the connection
  config,       \* config of the line's preparation
  \* the provider
  shelf,        \* the page of its list where a row is, 0 if it does not exist
  jump,         \* jiashu: the configuration whose url is saved in the channel, or 0
  flying,       \* requests that were given up and may still arrive
  \* observation
  overwritten,  \* a saved url was replaced by another one
  linkFaults

linkVars == <<line, lineHolder, lineRunner, lineMessage, scopeHolder, effect, link, credentials,
              linkRun, provider, config, shelf, jump, flying, overwritten, linkFaults>>

\* The key of a write: for jiashu what the request says, for wangyan the line.
EffectOf(i, w) ==
  [step    |-> w.step,
   of      |-> IF provider = "wangyan" THEN i ELSE IF w.step = "create" THEN None ELSE config[i],
   version |-> w.version]

EffectKey == [step : Writes, of : Line \cup Episode \cup {None}, version : Version]

\* _work: step is the write that it does or recovers, doubt the attempt in
\* uncertain_attempt_token, and since the attempt that its lookup began after.
WorkType ==
  [stage : {"search", "lookup", "create", "read_before", "generate", "save", "verify", "done"}
           \cup Recovering,
   step : Writes, page : 1 .. 2, found : SUBSET LinkRows, total : Nat, row : LinkRows \cup {0},
   active : BOOLEAN, named : BOOLEAN, doubt : Nat, since : Nat, version : Version \cup {None}]

NewWork == [stage |-> "search", step |-> "create", page |-> 1, found |-> {}, total |-> 0,
            row |-> 0, active |-> FALSE, named |-> FALSE, doubt |-> 0, since |-> 0,
            version |-> None]

NoLinkRun == [at |-> "idle", line |-> None, work |-> NewWork, status |-> "pending",
              decides |-> "none", answer |-> "none", attempt |-> 0]

LinkTypeOK ==
  /\ line \in [Line -> [status : Terminal \cup {"none", "pending", "retryable_error",
                                              "result_unknown"},
                        live : BOOLEAN, work : WorkType]]
  /\ lineHolder \in [Line -> Task \cup {None}] /\ lineRunner \in [Line -> Task \cup {None}]
  /\ lineMessage \in [Line -> {"none", "due", "watchdog"}]
  /\ scopeHolder \in Line \cup {None}
  /\ DOMAIN effect \subseteq EffectKey
  /\ \A e \in DOMAIN effect :
       effect[e] \in [status : Uncertain \cup {"succeeded", "failed", "confirmed_absent"},
                      attempt : Nat, since : Nat, row : LinkRows \cup {0}]
  /\ link \in [Episode -> LinkRows \cup {0}]
  /\ credentials \in Version
  /\ linkRun \in [Task -> [at : {"idle", "queued", "working", "armed", "posted",
                                 "looked", "verified", "finish", "finished"},
                           line : Line \cup {None}, work : WorkType,
                           status : Terminal \cup {"pending", "busy", "retryable_error",
                                                  "result_unknown"},
                           attempt : Nat, decides : {"none", "succeeded", "confirmed_absent"},
                           answer : {"none", "accepted", "accepted_id", "rejected", "unknown"}]]
  /\ provider \in {"jiashu", "wangyan"} /\ config \in [Line -> Episode]
  /\ shelf \in [LinkRows -> 0 .. 2] /\ jump \in Episode \cup {0}
  /\ flying \subseteq EffectKey \X Line
  /\ overwritten \in BOOLEAN /\ linkFaults \in 0 .. MaxCrashes

\* The channel may be there from earlier times, and have a url; so may a promotion.
LinkInit ==
  /\ line = [i \in Line |-> [status |-> "none", live |-> FALSE, work |-> NewWork]]
  /\ lineHolder = [i \in Line |-> None] /\ lineRunner = [i \in Line |-> None]
  /\ lineMessage = [i \in Line |-> "none"]
  /\ scopeHolder = None /\ effect = <<>> /\ link = [e \in Episode |-> 0] /\ credentials = 0
  /\ linkRun = [t \in Task |-> NoLinkRun]
  /\ provider \in {"jiashu", "wangyan"}
  /\ config \in [Line -> Episode]
  /\ provider = "wangyan" => \A i, k \in Line : config[i] = config[k]
  /\ shelf \in {[r \in LinkRows |-> IF r = None THEN p ELSE 0] : p \in {0, 2}}
  /\ jump \in {0} \cup (IF provider = "jiashu" /\ shelf[None] # 0 THEN Episode ELSE {})
  /\ flying = {} /\ overwritten = FALSE /\ linkFaults = 0

-----------------------------------------------------------------------------
(* Deliveries: process_item and the claim of run_link_item.                *)

Runnable(i) == line[i].status \notin Terminal \cup {"none"}

\* create_preparation_request queues every line that it inserts; a request that comes
\* again finds them.
PrepareLine(i) ==
  /\ line[i].status = "none"
  /\ line' = [line EXCEPT ![i].status = "pending"]
  /\ lineMessage' = [lineMessage EXCEPT ![i] = "due"]
  /\ UNCHANGED <<lineHolder, lineRunner, scopeHolder, effect, link, credentials, linkRun,
                 provider, config, shelf, jump, flying, overwritten, linkFaults>>

\* select_preparation_candidate: the operator names the drama.
SelectCandidate(i) ==
  /\ line[i].status = "needs_resolution"
  /\ line' = [line EXCEPT ![i].status = "pending", ![i].live = FALSE, ![i].work.stage = "lookup"]
  /\ lineHolder' = [lineHolder EXCEPT ![i] = None] /\ lineRunner' = [lineRunner EXCEPT ![i] = None]
  /\ lineMessage' = [lineMessage EXCEPT ![i] = "due"]
  /\ UNCHANGED <<scopeHolder, effect, link, credentials, linkRun, provider, config, shelf, jump,
                 flying, overwritten, linkFaults>>

\* The first transaction of process_item: the watchdog is queued before anything is done.
TakeLine(t, i) ==
  /\ linkRun[t].at = "idle" /\ lineMessage[i] = "due"
  /\ IF Runnable(i) /\ ~line[i].live
     THEN /\ lineMessage' = [lineMessage EXCEPT ![i] = "watchdog"]
          /\ lineRunner' = [lineRunner EXCEPT ![i] = t]
          /\ linkRun' = [linkRun EXCEPT ![t].at = "queued", ![t].line = i]
     ELSE /\ lineMessage' = [lineMessage EXCEPT ![i] = "none"]
          /\ UNCHANGED <<lineRunner, linkRun>>
  /\ UNCHANGED <<line, lineHolder, scopeHolder, effect, link, credentials, provider, config, shelf,
                 jump, flying, overwritten, linkFaults>>

\* The run goes on to finish with this status and work.
ToFinish(t, status, work, decides) ==
  linkRun' = [linkRun EXCEPT ![t].at = "finish", ![t].status = status, ![t].work = work,
                             ![t].decides = decides]

\* _authority: the credentials are still those that the line began with.
Authorized(w) == w.version = credentials

\* _claim_unit, and run_link_item up to the request.  The credentials are those of the first
\* unit.  A link that is ready is taken over, if no write of this line is in doubt; otherwise
\* the line must hold the scope.
ClaimLine(t) ==
  LET i == linkRun[t].line
      w == IF line[i].work.version = None THEN [line[i].work EXCEPT !.version = credentials]
           ELSE line[i].work
      Goes(at, status) ==
        linkRun' = [linkRun EXCEPT ![t].at = at, ![t].status = status, ![t].work = w]
  IN
  /\ linkRun[t].at = "queued"
  /\ IF line[i].status \in Terminal \/ line[i].live
     THEN /\ linkRun' = [linkRun EXCEPT ![t].at = "finished"]
          /\ UNCHANGED <<line, lineHolder, scopeHolder>>
     ELSE /\ line' = [line EXCEPT ![i] = [status |-> "pending", live |-> TRUE, work |-> w]]
          /\ lineHolder' = [lineHolder EXCEPT ![i] = t]
          /\ IF ~Authorized(w) THEN Goes("finish", "blocked_auth") /\ UNCHANGED scopeHolder
             ELSE IF /\ provider = "jiashu" /\ w.stage # "search" /\ link[config[i]] # 0
                     /\ ~w.active /\ w.doubt = 0
             THEN Goes("finish", "ready") /\ UNCHANGED scopeHolder
             ELSE IF w.stage = "search" THEN Goes("working", "pending") /\ UNCHANGED scopeHolder
             ELSE IF scopeHolder \in {None, i} THEN Goes("working", "pending") /\ scopeHolder' = i
             ELSE Goes("finish", "busy") /\ UNCHANGED scopeHolder
  /\ UNCHANGED <<lineRunner, lineMessage, effect, link, credentials, provider, config,
                 shelf, jump, flying, overwritten, linkFaults>>

-----------------------------------------------------------------------------
(* What a unit does in its stage, on the run's copy of the work.           *)

OnlyRunAndRemote == UNCHANGED <<line, lineHolder, lineRunner, lineMessage, scopeHolder, link,
                                credentials, provider, config>>
OnlyRun == OnlyRunAndRemote /\ UNCHANGED <<effect, shelf, jump, flying, overwritten>>

\* The drama is found, or the operator must choose.
Search(t) ==
  LET w == linkRun[t].work IN
  /\ linkRun[t].at = "working" /\ w.stage = "search"
  /\ \/ ToFinish(t, "pending", [w EXCEPT !.stage = "lookup"], "none")
     \/ ToFinish(t, "needs_resolution", w, "none")
  /\ OnlyRun /\ UNCHANGED linkFaults

Looks(w) == w.stage \in {"lookup", "recover_create"}

\* Mutant: a lookup that begins again goes on where the last one ended.
Rescan_Page(w) == [w EXCEPT !.found = {}, !.total = 0, !.row = 0]

\* _scan, _reset_scan and lookup_cursor: the next lookup begins with the first page.
Rescan(w) == [w EXCEPT !.page = 1, !.found = {}, !.total = 0, !.row = 0]

\* The end of a lookup: what was found is read; jiashu, where the channel's name says it all,
\* also decides about a create in doubt, wangyan only ever finds the row.
LookupDone(t, w) ==
  LET over == Rescan(w) IN
  IF provider = "jiashu"
  THEN ToFinish(t, "pending",
                [over EXCEPT !.stage = IF w.found # {} THEN "read_before" ELSE "create"],
                IF w.stage = "lookup" THEN "none"
                ELSE IF w.found # {} THEN "succeeded" ELSE "confirmed_absent")
  ELSE \/ \E r \in w.found :
            ToFinish(t, "pending", [over EXCEPT !.stage = "verify", !.row = r], "none")
       \/ /\ w.found = {}
          /\ IF w.stage = "lookup"
             THEN ToFinish(t, "pending", [over EXCEPT !.stage = "create"], "none")
             ELSE ToFinish(t, "result_unknown", over, "none")

\* A page of find_existing.  wangyan tells the total, which must not change between pages,
\* and a scan that recovers counts the rows of its own name only; it needs none if the
\* receipt has come.
LookPage(t) ==
  LET i == linkRun[t].line
      w == linkRun[t].work
      e == EffectOf(i, w)
      own == provider = "wangyan" /\ w.stage = "recover_create"
      seen == {r \in LinkRows : shelf[r] = w.page /\ (own => r = i)}
      total == IF provider = "jiashu" THEN 0 ELSE Cardinality({r \in LinkRows : shelf[r] # 0})
      next == [w EXCEPT !.found = @ \cup seen, !.total = total, !.page = 2,
                        !.since = IF w.page = 1 THEN w.doubt ELSE @]
  IN
  /\ linkRun[t].at = "working" /\ w.stage \in {"lookup", "recover_create"}
  /\ IF own /\ effect[e].status = "failed" THEN ToFinish(t, "result_unknown", w, "none")
     ELSE IF own /\ effect[e].row # 0
     THEN ToFinish(t, "pending", [w EXCEPT !.stage = "verify", !.row = effect[e].row], "none")
     ELSE IF w.page = 1 THEN ToFinish(t, "pending", next, "none")
     ELSE IF w.total # total
     THEN ToFinish(t, IF own THEN "result_unknown" ELSE "failed", Rescan(w), "none")
     ELSE LookupDone(t, next)
  /\ OnlyRun /\ UNCHANGED linkFaults

AfterWrite(step) == CASE step = "create" -> "read_before" [] step = "generate" -> "save"
                      [] OTHER -> "verify"

RecoveryOf(step) == CASE step = "create"   -> "recover_create"
                      [] step = "generate" -> "recover_generate"
                      [] OTHER             -> "recover_save"

\* The work of a write whose result is not known.
Doubting(w, attempt) ==
  [Rescan(w) EXCEPT !.stage = RecoveryOf(w.step), !.doubt = attempt]

\* Mutant: a write that may have been sent is claimed again.
Sendable_Sending(e) ==
  e \notin DOMAIN effect \/ effect[e].status \in {"confirmed_absent", "sending"}

\* should_send, claim_effect
Sendable(e) == e \notin DOMAIN effect \/ effect[e].status = "confirmed_absent"

WithEffect(e, row) == [x \in DOMAIN effect \cup {e} |-> IF x = e THEN row ELSE effect[x]]

\* A write that was sent before: its success is used, its failure is the line's, and all else
\* is looked for and not sent again (_create of wangyan also for a success).
SentBefore(t, e, w) ==
  IF effect[e].status = "failed" THEN ToFinish(t, "failed", w, "none")
  ELSE IF effect[e].status = "succeeded" /\ provider = "jiashu"
  THEN ToFinish(t, "pending", [w EXCEPT !.stage = AfterWrite(w.step), !.active = FALSE], "none")
  ELSE IF effect[e].row # 0
  THEN ToFinish(t, "pending",
                [Doubting(w, effect[e].attempt) EXCEPT !.stage = "verify", !.row = effect[e].row],
                "none")
  ELSE ToFinish(t, IF provider = "jiashu" THEN "result_unknown" ELSE "pending",
                Doubting(w, effect[e].attempt), "none")

\* guard: wangyan also asks whether the claim is still live.
Late(i) == provider = "wangyan" /\ ~line[i].live

\* _effect_request and _create before the request.  The claim of the effect and the note
\* of it in the line are one transaction, which the line's holder alone can make.
ArmWrite(t) ==
  LET i == linkRun[t].line
      w == [linkRun[t].work EXCEPT !.step = linkRun[t].work.stage, !.named = provider = "wangyan"]
      e == EffectOf(i, w)
      attempt == IF e \in DOMAIN effect THEN effect[e].attempt + 1 ELSE 1
      armed == [w EXCEPT !.active = TRUE]
  IN
  /\ linkRun[t].at = "working" /\ linkRun[t].work.stage \in Writes
  /\ IF Sendable(e)
     THEN IF lineHolder[i] # t \/ Late(i)
          THEN ToFinish(t, "busy", w, "none") /\ UNCHANGED <<line, effect>>
          ELSE IF ~Authorized(w)
          THEN ToFinish(t, "blocked_auth", w, "none") /\ UNCHANGED <<line, effect>>
          ELSE /\ effect' = WithEffect(e, [status |-> "sending", attempt |-> attempt,
                                           since |-> 0, row |-> 0])
               /\ line' = [line EXCEPT ![i].work = armed]
               /\ linkRun' = [linkRun EXCEPT ![t].at = "armed", ![t].work = armed,
                                             ![t].attempt = attempt]
     ELSE SentBefore(t, e, w) /\ UNCHANGED <<line, effect>>
  /\ UNCHANGED <<lineHolder, lineRunner, lineMessage, scopeHolder, link, credentials, provider,
                 config, shelf, jump, flying, overwritten, linkFaults>>

\* What a write does at the provider.
Arrives(e, i) ==
  LET row == IF provider = "jiashu" THEN None ELSE i IN
  /\ IF e.step = "create" /\ shelf[row] = 0
     THEN \E p \in {1, 2} : shelf' = [shelf EXCEPT ![row] = p]
     ELSE UNCHANGED shelf
  /\ jump' = IF e.step = "save" THEN config[i] ELSE jump
  /\ overwritten' = (overwritten \/ (e.step = "save" /\ jump \notin {0, config[i]}))

\* create_step: accepted, rejected, or not answered, when it may have been done, not have
\* been done, or still be under way.
PostWrite(t) ==
  LET i == linkRun[t].line  e == EffectOf(i, linkRun[t].work)
      Answered(answer) == linkRun' = [linkRun EXCEPT ![t].at = "posted", ![t].answer = answer]
  IN
  /\ linkRun[t].at = "armed"
  /\ \/ /\ \/ Answered("accepted")
           \/ provider = "wangyan" /\ Answered("accepted_id")
        /\ Arrives(e, i) /\ UNCHANGED <<flying, linkFaults>>
     \/ Answered("rejected") /\ UNCHANGED <<shelf, jump, flying, overwritten, linkFaults>>
     \/ /\ Answered("unknown") /\ linkFaults < MaxCrashes /\ linkFaults' = linkFaults + 1
        /\ \/ Arrives(e, i) /\ UNCHANGED flying
           \/ flying' = flying \cup {<<e, i>>} /\ UNCHANGED <<shelf, jump, overwritten>>
  /\ OnlyRunAndRemote /\ UNCHANGED effect

\* _persist_effect: only this attempt, and only while it is being sent.
Persisted(e, attempt, status) ==
  effect' = IF effect[e].attempt = attempt /\ effect[e].status = "sending"
            THEN [effect EXCEPT ![e].status = status] ELSE effect

\* jiashu's answer is stored if the line is still this run's; that it is not known, or a
\* rejection, is stored with the attempt.
StoreAnswer(t) ==
  LET i == linkRun[t].line
      w == linkRun[t].work
      e == EffectOf(i, w)
      attempt == linkRun[t].attempt
      answer == linkRun[t].answer
  IN
  /\ linkRun[t].at = "posted" /\ provider = "jiashu"
  /\ \/ /\ answer = "accepted"
        /\ IF lineHolder[i] = t /\ effect[e].attempt = attempt /\ effect[e].status = "sending"
           THEN /\ effect' = [effect EXCEPT ![e].status = "succeeded"]
                /\ ToFinish(t, "pending", [w EXCEPT !.stage = AfterWrite(w.step), !.active = FALSE],
                            "none")
           ELSE ToFinish(t, "busy", w, "none") /\ UNCHANGED effect
     \/ answer = "rejected" /\ Persisted(e, attempt, "failed") /\ ToFinish(t, "failed", w, "none")
     \/ /\ answer = "unknown" /\ Persisted(e, attempt, "result_unknown")
        /\ ToFinish(t, "result_unknown", Doubting(w, attempt), "none")
  /\ OnlyRunAndRemote /\ UNCHANGED <<shelf, jump, flying, overwritten, linkFaults>>

\* _receipt
Received(e, row) ==
  IF effect[e].status \in Uncertain
  THEN [effect EXCEPT ![e].status = "result_unknown", ![e].row = row] ELSE effect

\* wangyan's receipt is stored before anything is asked about the line; only the reading
\* of the row makes it a success.
StoreLinkReceipt(t) ==
  LET i == linkRun[t].line
      w == linkRun[t].work
      e == EffectOf(i, w)
      row == IF linkRun[t].answer = "accepted_id" THEN i ELSE 0
      doubting == [Doubting(w, linkRun[t].attempt) EXCEPT !.active = FALSE]
  IN
  /\ linkRun[t].at = "posted" /\ provider = "wangyan"
  /\ IF linkRun[t].answer = "rejected"
     THEN Persisted(e, linkRun[t].attempt, "failed") /\ ToFinish(t, "failed", w, "none")
     ELSE /\ effect' = Received(e, row)
          /\ IF linkRun[t].answer = "unknown" THEN ToFinish(t, "result_unknown", doubting, "none")
             ELSE IF row = 0 THEN ToFinish(t, "pending", doubting, "none")
             ELSE ToFinish(t, "pending", [doubting EXCEPT !.stage = "verify", !.row = row], "none")
  /\ OnlyRunAndRemote /\ UNCHANGED <<shelf, jump, flying, overwritten, linkFaults>>

\* check_jiashu_config, _verified
Conflicts(i) == jump \notin {0, config[i]}

\* jiashu's read_link and _verified: a url of this configuration is published, one of another
\* is a conflict; an empty one allows to begin, but says nothing about a write in doubt.
ReadLink(t) ==
  LET i == linkRun[t].line  w == linkRun[t].work IN
  /\ linkRun[t].at = "working" /\ provider = "jiashu"
  /\ w.stage \in {"read_before", "verify", "recover_generate", "recover_save"}
  /\ IF jump = config[i]
     THEN ToFinish(t, "ready", [w EXCEPT !.row = None],
                   IF w.stage \in Recovering THEN "succeeded" ELSE "none")
     ELSE IF Conflicts(i) THEN ToFinish(t, "config_conflict", w, "none")
     ELSE IF w.stage = "read_before"
     THEN ToFinish(t, "pending", [w EXCEPT !.stage = "generate"], "none")
     ELSE ToFinish(t, "result_unknown", w, "none")
  /\ OnlyRun /\ UNCHANGED linkFaults

\* wangyan's read of the row that was found or that the receipt named.
VerifyRow(t) ==
  LET w == linkRun[t].work
      e == EffectOf(linkRun[t].line, w)
      doubt == IF w.named /\ w.doubt = 0 THEN effect[e].attempt ELSE w.doubt
  IN
  /\ linkRun[t].at = "working" /\ provider = "wangyan" /\ w.stage = "verify"
  /\ IF lineHolder[linkRun[t].line] # t THEN ToFinish(t, "busy", w, "none")
     ELSE linkRun' = [linkRun EXCEPT ![t].at = "looked", ![t].work.doubt = doubt]
  /\ OnlyRun /\ UNCHANGED linkFaults

\* The read is the proof; it is stored before the link is published.
StoreProof(t) ==
  LET i == linkRun[t].line
      w == linkRun[t].work
      e == EffectOf(i, w)
      proven == [w EXCEPT !.doubt = 0]
  IN
  /\ linkRun[t].at = "looked"
  /\ IF lineHolder[i] # t THEN ToFinish(t, "busy", w, "none") /\ UNCHANGED <<line, effect>>
     ELSE /\ effect' = IF w.doubt = 0 THEN effect
                       ELSE [effect EXCEPT ![e].status = "succeeded", ![e].row = w.row]
          /\ line' = [line EXCEPT ![i].work = proven]
          /\ ToFinish(t, "ready", proven, "none")
  /\ UNCHANGED <<lineHolder, lineRunner, lineMessage, scopeHolder, link, credentials, provider,
                 config, shelf, jump, flying, overwritten, linkFaults>>

\* The provider or its session is not available for a read, refuses it, or says what cannot
\* be right; a line of wangyan that knows of a write or a row goes on reading unless refused.
ReadFails(t) ==
  LET w == linkRun[t].work
      knows == provider = "wangyan" /\ (w.active \/ w.doubt # 0 \/ w.row # 0) IN
  /\ linkRun[t].at = "working" /\ linkFaults < MaxCrashes
  /\ linkFaults' = linkFaults + 1
  /\ \E status \in {"blocked_auth"}
                   \cup (IF knows THEN {"result_unknown"} ELSE {"retryable_error", "failed"}) :
       ToFinish(t, status, w, "none")
  /\ OnlyRun

-----------------------------------------------------------------------------
(* The end of a unit: _finish_unit, _recover_effect and _publish in one    *)
(* transaction, then process_item's continuation.                          *)

\* Mutant: only a line that is ready gives the scope back.
ScopeAfter_Ready(i, status, effects) ==
  IF scopeHolder = i /\ status = "ready" THEN None ELSE scopeHolder

\* Mutant: so does a line that has lost its credentials, whatever is in doubt.
ScopeAfter_Blocked(i, status, effects) ==
  IF scopeHolder = i /\ status \in Terminal
     /\ (status = "blocked_auth" \/ \A e \in DOMAIN effects : effects[e].status \notin Uncertain)
  THEN None ELSE scopeHolder

\* _scope_finish: a line that is over gives the scope back unless a write is in doubt.
ScopeAfter(i, status, effects) ==
  IF scopeHolder = i /\ status \in Terminal
     /\ \A e \in DOMAIN effects : effects[e].status \notin Uncertain
  THEN None ELSE scopeHolder

\* _publish: the ready link of the configuration is this one, or is replaced by it.
Published(i, w) ==
  [link EXCEPT ![config[i]] = IF provider = "jiashu" THEN None ELSE w.row]

\* _recover_effect decides about the attempt that is in doubt and no other.
Decidable(e, w) == effect[e].status \in Uncertain /\ effect[e].attempt = w.doubt
Decided(e, w, status) == [effect EXCEPT ![e].status = status, ![e].since = w.since]

\* It takes the doubt out of the work before the credentials are checked: if these were
\* replaced, the effect is rolled back and the work is not.
Decisive(w, decides) == IF decides = "none" THEN w ELSE [w EXCEPT !.doubt = 0, !.active = FALSE]

\* A lookup that may not decide begins again, and keeps what it found.
Inconclusive(work, decides) ==
  IF work.stage # "recover_create" THEN work
  ELSE [work EXCEPT !.page = 1, !.found = IF decides = "succeeded" THEN {None} ELSE {}]

FinishUnit(t) ==
  LET i == linkRun[t].line
      w == linkRun[t].work
      e == EffectOf(i, w)
      decides == linkRun[t].decides
      \* nothing reads the work of a line that is over and whose writes are certain
      Rested(status, work) ==
        IF status \in Terminal \ {"needs_resolution"} /\ scopeHolder' # i THEN NewWork ELSE work
      Store(status, work, effects) ==
        /\ effect' = effects
        /\ scopeHolder' = ScopeAfter(i, status, effects)
        /\ line' = [line EXCEPT ![i] = [status |-> status, live |-> FALSE,
                                        work |-> Rested(status, work)]]
        /\ link' = IF status = "ready" THEN Published(i, w) ELSE link
        /\ lineHolder' = [lineHolder EXCEPT ![i] = None]
  IN
  /\ linkRun[t].at = "finish"
  /\ IF lineHolder[i] # t THEN UNCHANGED <<line, lineHolder, scopeHolder, effect, link>>
     ELSE IF decides # "none" /\ ~Decidable(e, w)
     THEN Store("result_unknown", Inconclusive(line[i].work, decides), effect)
     ELSE IF linkRun[t].status \in {"pending", "needs_resolution", "ready"} /\ ~Authorized(w)
     THEN Store("blocked_auth", Decisive(w, decides), effect)
     ELSE Store(IF linkRun[t].status = "busy" THEN "pending" ELSE linkRun[t].status,
                Decisive(w, decides),
                IF decides = "none" THEN effect ELSE Decided(e, w, decides))
  /\ linkRun' = [linkRun EXCEPT ![t] = [NoLinkRun EXCEPT !.at = "finished", !.line = i]]
  /\ UNCHANGED <<lineRunner, lineMessage, credentials, provider, config, shelf, jump, flying,
                 overwritten, linkFaults>>

LinkRunEnds(t) ==
  /\ linkRun' = [linkRun EXCEPT ![t] = NoLinkRun]
  /\ lineRunner' = Forget(lineRunner, t)

\* The next unit, if no other delivery has gone ahead meanwhile.
EndDelivery(t) ==
  LET i == linkRun[t].line IN
  /\ linkRun[t].at = "finished"
  /\ lineMessage' = IF lineRunner[i] = t /\ Runnable(i) THEN [lineMessage EXCEPT ![i] = "due"]
                    ELSE lineMessage
  /\ LinkRunEnds(t)
  /\ UNCHANGED <<line, lineHolder, scopeHolder, effect, link, credentials, provider, config, shelf,
                 jump, flying, overwritten, linkFaults>>

-----------------------------------------------------------------------------
(* Faults, repair and the administrator.                                   *)

KillLink(t) ==
  /\ linkRun[t].at # "idle" /\ linkFaults < MaxCrashes
  /\ linkFaults' = linkFaults + 1
  /\ LinkRunEnds(t) /\ lineHolder' = Forget(lineHolder, t)
  /\ UNCHANGED <<line, lineMessage, scopeHolder, effect, link, credentials, provider, config, shelf,
                 jump, flying, overwritten>>

\* The hard limit (45 s) ends a run before its claim (60 s) and the watchdog (65 s).
LineClaimLapses(i) ==
  /\ line[i].live /\ lineHolder[i] = None
  /\ line' = [line EXCEPT ![i].live = FALSE]
  /\ UNCHANGED <<lineHolder, lineRunner, lineMessage, scopeHolder, effect, link, credentials,
                 linkRun, provider, config, shelf, jump, flying, overwritten, linkFaults>>

WatchdogDue(i) ==
  /\ lineMessage[i] = "watchdog" /\ lineRunner[i] = None
  /\ lineMessage' = [lineMessage EXCEPT ![i] = "due"]
  /\ UNCHANGED <<line, lineHolder, lineRunner, scopeHolder, effect, link, credentials,
                 linkRun, provider, config, shelf, jump, flying, overwritten, linkFaults>>

\* A host that stalls for longer.
LinkStalls(i) ==
  /\ lineMessage[i] = "watchdog" /\ lineRunner[i] # None
  /\ linkFaults < MaxCrashes /\ linkFaults' = linkFaults + 1
  /\ line' = [line EXCEPT ![i].live = FALSE]
  /\ lineMessage' = [lineMessage EXCEPT ![i] = "due"]
  /\ UNCHANGED <<lineHolder, lineRunner, scopeHolder, effect, link, credentials, linkRun,
                 provider, config, shelf, jump, flying, overwritten>>

\* recover_preparations
RepairLine(i) ==
  /\ Runnable(i) /\ ~line[i].live /\ lineMessage[i] = "none"
  /\ lineMessage' = [lineMessage EXCEPT ![i] = "due"]
  /\ UNCHANGED <<line, lineHolder, lineRunner, scopeHolder, effect, link, credentials, linkRun,
                 provider, config, shelf, jump, flying, overwritten, linkFaults>>

\* A request that was given up arrives after all.
ArrivesLate ==
  /\ \E f \in flying : Arrives(f[1], f[2]) /\ flying' = flying \ {f}
  /\ OnlyRunAndRemote /\ UNCHANGED <<linkRun, effect, linkFaults>>

ReplaceCredentials ==
  /\ linkFaults < MaxCrashes /\ linkFaults' = linkFaults + 1
  /\ credentials' = credentials + 1
  /\ UNCHANGED <<line, lineHolder, lineRunner, lineMessage, scopeHolder, effect, link, linkRun,
                 provider, config, shelf, jump, flying, overwritten>>

-----------------------------------------------------------------------------
LinkTask(t) ==
  \/ ClaimLine(t) \/ Search(t) \/ LookPage(t) \/ ArmWrite(t)
  \/ PostWrite(t) \/ StoreAnswer(t) \/ StoreLinkReceipt(t) \/ ReadLink(t) \/ VerifyRow(t)
  \/ StoreProof(t) \/ FinishUnit(t) \/ EndDelivery(t)

LinkNext ==
  \/ \E t \in Task : LinkTask(t) \/ ReadFails(t) \/ KillLink(t)
  \/ \E i \in Line, t \in Task : TakeLine(t, i)
  \/ \E i \in Line : PrepareLine(i) \/ SelectCandidate(i) \/ RepairLine(i)
                   \/ LineClaimLapses(i) \/ WatchdogDue(i) \/ LinkStalls(i)
  \/ ArrivesLate \/ ReplaceCredentials

\* Tasks run, the repair task is periodic and clocks go on.  No line is passed over for ever:
\* the queue is in order, and a line that waits for another comes back later and later.
LinkFairness ==
  /\ \A t \in Task : WF_linkVars(LinkTask(t))
  /\ \A i \in Line : WF_linkVars(RepairLine(i)) /\ WF_linkVars(LineClaimLapses(i))
                     /\ WF_linkVars(WatchdogDue(i)) /\ SF_linkVars(\E t \in Task : TakeLine(t, i))

LinkSpec == LinkInit /\ [][LinkNext]_linkVars /\ LinkFairness

-----------------------------------------------------------------------------
(* What must hold.                                                         *)

\* While the result of a write is not known the scope belongs to the line that knows of it,
\* also if that line is over: no other line writes in between (_scope_finish).  Only a line
\* that lost its credentials while it decided has forgotten the write, and it is over.
DoubtHoldsScope ==
  \A e \in DOMAIN effect : effect[e].status \in Uncertain =>
    /\ scopeHolder # None
    /\ LET w == line[scopeHolder].work IN
       \/ EffectOf(scopeHolder, w) = e /\ (w.active \/ w.doubt = effect[e].attempt)
       \/ line[scopeHolder].status = "blocked_auth"

\* A write is sent once; only a create of jiashu is sent again, after a whole lookup that
\* began when the attempt before had been given up (_effect_request, _recover_effect).
NoBlindWrite ==
  \A e \in DOMAIN effect :
    /\ effect[e].attempt > 1 => provider = "jiashu" /\ e.step = "create"
    /\ effect[e].status = "confirmed_absent" => effect[e].since = effect[e].attempt

\* A write that counts as done is done at the provider (_recover_effect, _persist_effect and
\* wangyan's read of the row).
EffectsAreTrue ==
  \A e \in DOMAIN effect :
    LET row == IF provider = "jiashu" THEN None ELSE e.of IN
    /\ effect[e].status = "succeeded" /\ e.step = "create" => shelf[row] # 0
    /\ effect[e].status = "succeeded" /\ e.step = "save"   => jump = e.of

\* Lines never make a second promotion of the drama, nor replace a url that is saved.
OnePromotion ==
  /\ Cardinality({i \in Line : shelf[i] # 0}) <= 1
  /\ ~overwritten

\* A line that is ready has the configuration it asked for: two that asked for different
\* ones are never both ready with one channel.
ReadyAsAsked ==
  \A i \in Line : line[i].status = "ready" =>
    /\ link[config[i]] # 0 /\ shelf[link[config[i]]] # 0
    /\ provider = "jiashu" => jump = config[i]

LinkSafe ==
  LinkTypeOK /\ DoubtHoldsScope /\ NoBlindWrite /\ EffectsAreTrue /\ OnePromotion /\ ReadyAsAsked

\* What no unit can decide about: a write that the provider does not show, which proves nothing
\* except for jiashu's create; a doubt of a line that is over; and a doubt about a write whose
\* refusal was stored after all by the run that had sent it, when another had taken over.
Undecidable ==
  \/ \E e \in DOMAIN effect :
       /\ effect[e].status \in Uncertain
       /\ \/ line[scopeHolder].status \in Terminal
          \/ provider = "wangyan" /\ shelf[e.of] = 0
          \/ e.step = "generate"
          \/ e.step = "save" /\ jump = 0
  \/ \E i \in Line : LET w == line[i].work IN
       w.doubt # 0 /\ effect[EffectOf(i, w)].status = "failed"

\* A line is resolved in the end, however often its deliveries are lost, unless a write in the
\* scope stays undecidable (process_item, recover_preparations).
LinkSettles == \A i \in Line : [](Runnable(i) => <>~Runnable(i) \/ <>[]Undecidable)
=============================================================================
