----------------------------- MODULE McpRefresh -----------------------------
(***************************************************************************)
(* The credentials of one MCP connection: refresh attempts, which spend    *)
(* the refresh token in a background task, beside the administrator's      *)
(* authorizations, disabling, and the recovery of a stored receipt.        *)
(*                                                                         *)
(* A refresh token may be consumed by the first POST that carries it, so   *)
(* an attempt is armed before the POST and never sent again; the answer is *)
(* stored as a receipt before anything is decided, and published only if   *)
(* the connection still is as it was when the attempt was created.         *)
(***************************************************************************)
EXTENDS Tasks

CONSTANTS Refresh,        \* rows of mcp_refresh_attempt
          Authorization,  \* rows of mcp_authorization_attempt
          MaxRevision     \* bound: credential revisions

ASSUME RefreshOK == /\ MaxRevision \in Nat \ {0}
                    /\ Refresh \cap Authorization = {} /\ None \notin Refresh \cup Authorization

VARIABLES
  connection,   \* tiktok_connection: status, credential and authorization revision
  refresh,      \* mcp_refresh_attempt
  refreshClaim, \* claim_id
  authorization,\* mcp_authorization_attempt
  refreshQueue, \* attempts with a message that no task has taken
  refreshRun,   \* the task's place in process_mcp_refresh
  \* observation
  posted,       \* POSTs of the refresh token, by credential revision
  owner,        \* the row the current credentials came from
  askedWith,    \* the owner of the credentials an attempt was sent with
  refreshFaults

connectionVars == <<connection, owner>>
refreshVars == <<connection, refresh, refreshClaim, authorization, refreshQueue,
                 refreshRun, posted, owner, askedWith, refreshFaults>>

RefreshActive   == {"PENDING", "CLAIMED", "REQUEST_ARMED", "CANDIDATE_READY", "OUTCOME_UNKNOWN"}
RefreshTerminal == {"PUBLISHED", "OUTCOME_UNKNOWN", "REJECTED", "SUPERSEDED"}
RefreshStatus   == {"NONE"} \cup RefreshActive \cup RefreshTerminal
Redeemed        == {"CLAIMED", "CANDIDATE_READY", "RESULT_UNKNOWN"}

AuthorizationStatus ==
  {"NONE", "PENDING", "CANCELLED", "FAILED", "ACCEPTED"} \cup Redeemed

Revisions == 0 .. MaxRevision

RefreshTypeOK ==
  /\ connection \in [status : {"ACTIVE", "REAUTH_REQUIRED", "DISABLED"},
                     credential : Revisions, grant : Nat]
  /\ refresh \in [Refresh -> [status : RefreshStatus, credential : Revisions,
                              grant : Nat, live : BOOLEAN, armed : BOOLEAN,
                              review : BOOLEAN]]
  /\ refreshClaim \in [Refresh -> Task \cup {None}]
  /\ authorization \in [Authorization -> [status : AuthorizationStatus, fresh : BOOLEAN,
                                          credential : Revisions, grant : Nat]]
  /\ refreshQueue \subseteq Refresh
  /\ refreshRun \in [Task -> [at : {"idle", "taken", "queued", "claimed", "armed",
                                    "answered", "failing", "received"},
                              row : Refresh \cup {None}]]
  /\ posted \in [Revisions -> Nat]
  /\ owner \in Refresh \cup Authorization \cup {None}
  /\ askedWith \in [Refresh -> Refresh \cup Authorization \cup {None}]
  /\ refreshFaults \in 0 .. MaxCrashes

RefreshInit ==
  /\ connection = [status |-> "ACTIVE", credential |-> 0, grant |-> 0]
  /\ refresh = [a \in Refresh |-> [status |-> "NONE", credential |-> 0, grant |-> 0,
                                   live |-> FALSE, armed |-> FALSE,
                                   review |-> FALSE]]
  /\ refreshClaim = [a \in Refresh |-> None]
  /\ authorization = [x \in Authorization |->
                        [status |-> "NONE", fresh |-> FALSE, credential |-> 0, grant |-> 0]]
  /\ refreshQueue = {}
  /\ refreshRun = [t \in Task |-> [at |-> "idle", row |-> None]]
  /\ posted = [c \in Revisions |-> 0]
  /\ owner = None
  /\ askedWith = [a \in Refresh |-> None]
  /\ refreshFaults = 0

-----------------------------------------------------------------------------
(* Whether the connection is what the attempt was made for (_current).     *)

NewerAuthorization ==
  \E x \in Authorization :
    \/ authorization[x].status = "PENDING" /\ authorization[x].fresh
    \/ authorization[x].status \in Redeemed

PriorSend(a) ==
  \E b \in Refresh \ {a} : refresh[b].armed /\ refresh[b].credential = refresh[a].credential

\* Mutant: whoever is not overtaken by an authorization under way is current.
Current_Whatever(a, recovering) == ~PriorSend(a) /\ ~NewerAuthorization

Current(a, recovering) ==
  /\ ~PriorSend(a)
  /\ ~NewerAuthorization
  /\ connection.status = IF recovering THEN "REAUTH_REQUIRED" ELSE "ACTIVE"
  /\ recovering => refresh[a].review
  /\ connection.credential = refresh[a].credential
  /\ connection.grant = refresh[a].grant + IF recovering THEN 1 ELSE 0

\* The row's claim is no longer of use to the run that ends.
RunEnds(t) ==
  /\ refreshRun' = [refreshRun EXCEPT ![t] = [at |-> "idle", row |-> None]]
  /\ refreshClaim' = Forget(refreshClaim, t)

Goes(t, place) == refreshRun' = [refreshRun EXCEPT ![t].at = place]

-----------------------------------------------------------------------------
(* ensure_mcp_credentials, called by whoever is about to use the           *)
(* connection: too short a validity queues a refresh, at most one per      *)
(* credential revision.                                                    *)

Concerned == {a \in Refresh : /\ refresh[a].status # "NONE"
                              /\ refresh[a].credential = connection.credential
                              /\ refresh[a].status \in RefreshActive \/ refresh[a].armed}

NewRefresh ==
  /\ connection.status = "ACTIVE" /\ Concerned = {}
  /\ \E a \in Refresh :
       /\ refresh[a].status = "NONE"
       /\ refresh' = [refresh EXCEPT ![a].status = "PENDING",
                                     ![a].credential = connection.credential,
                                     ![a].grant = connection.grant]
       /\ refreshQueue' = refreshQueue \cup {a}
  /\ UNCHANGED <<connectionVars, refreshClaim, authorization, refreshRun, posted,
                 askedWith, refreshFaults>>

QueueAgain ==
  /\ connection.status = "ACTIVE"
  /\ \E a \in Concerned :
       /\ refresh[a].armed \/ \A b \in Concerned : ~refresh[b].armed
       /\ refresh[a].status \notin {"OUTCOME_UNKNOWN", "SUPERSEDED", "REJECTED"}
       /\ refreshQueue' = refreshQueue \cup {a}
  /\ UNCHANGED <<connectionVars, refresh, refreshClaim, authorization, refreshRun,
                 posted, askedWith, refreshFaults>>

-----------------------------------------------------------------------------
(* The task.                                                               *)

TakeRefresh(t, a) ==
  /\ refreshRun[t].at = "idle" /\ a \in refreshQueue
  /\ refreshQueue' = refreshQueue \ {a}
  /\ refreshRun' = [refreshRun EXCEPT ![t] = [at |-> "taken", row |-> a]]
  /\ UNCHANGED <<connectionVars, refresh, refreshClaim, authorization, posted,
                 askedWith, refreshFaults>>

\* Mutant: the delivery that may come again is thought to be enough.
LeaveSuccessor_None(t) ==
  /\ refreshRun[t].at = "taken"
  /\ Goes(t, "queued")
  /\ UNCHANGED <<connectionVars, refresh, refreshClaim, authorization, refreshQueue,
                 posted, askedWith, refreshFaults>>

\* refresh_mcp first leaves a successor behind, due after any claim has expired.
LeaveSuccessor(t) ==
  LET a == refreshRun[t].row IN
  /\ refreshRun[t].at = "taken"
  /\ refreshQueue' =
       IF /\ refresh[a].status \in {"PENDING", "CLAIMED", "REQUEST_ARMED", "CANDIDATE_READY"}
          /\ ~refresh[a].review
       THEN refreshQueue \cup {a} ELSE refreshQueue
  /\ Goes(t, "queued")
  /\ UNCHANGED <<connectionVars, refresh, refreshClaim, authorization, posted,
                 askedWith, refreshFaults>>

Held(a) ==   \* kept for an administrator
  /\ refresh[a].status = "CANDIDATE_READY" /\ refresh[a].review
  /\ connection.status = "REAUTH_REQUIRED"
  /\ connection.credential = refresh[a].credential
  /\ connection.grant = refresh[a].grant + 1

\* What the claiming transaction of process_mcp_refresh makes of a row it does not
\* claim.
Verdict(a) ==
  CASE refresh[a].status \in RefreshTerminal -> refresh[a].status
    [] refresh[a].status \notin RefreshTerminal /\ ~Current(a, FALSE) ->
         IF Held(a) THEN refresh[a].status ELSE "SUPERSEDED"
    [] OTHER -> IF refresh[a].status = "REQUEST_ARMED" /\ ~refresh[a].live
                THEN "OUTCOME_UNKNOWN" ELSE refresh[a].status

Claims(a) == /\ Current(a, FALSE)
             /\ \/ refresh[a].status = "PENDING"
                \/ refresh[a].status = "CLAIMED" /\ ~refresh[a].live

ClaimRefresh(t) ==
  LET a == refreshRun[t].row IN
  /\ refreshRun[t].at = "queued"
  /\ \/ /\ Claims(a)
        /\ refresh' = [refresh EXCEPT ![a].status = "CLAIMED", ![a].live = TRUE]
        /\ refreshClaim' = [refreshClaim EXCEPT ![a] = t]
        /\ Goes(t, "claimed")
     \/ /\ Current(a, FALSE) /\ refresh[a].status = "CANDIDATE_READY"
        /\ Goes(t, "received")
        /\ UNCHANGED <<refresh, refreshClaim>>
     \/ /\ ~Claims(a)
        /\ ~(Current(a, FALSE) /\ refresh[a].status = "CANDIDATE_READY")
        /\ refresh' = [refresh EXCEPT ![a].status = Verdict(a)]
        /\ RunEnds(t)
  /\ UNCHANGED <<connectionVars, authorization, refreshQueue, posted, askedWith,
                 refreshFaults>>

\* After admission: from here on the refresh token counts as sent.
ArmRefresh(t) ==
  LET a == refreshRun[t].row IN
  /\ refreshRun[t].at = "claimed"
  /\ IF refreshClaim[a] # t \/ refresh[a].status # "CLAIMED"
     THEN RunEnds(t) /\ UNCHANGED refresh
     ELSE IF ~Current(a, FALSE)
          THEN /\ refresh' = [refresh EXCEPT ![a].status = "SUPERSEDED"]
               /\ RunEnds(t)
          ELSE /\ refresh' = [refresh EXCEPT ![a].status = "REQUEST_ARMED", ![a].armed = TRUE]
               /\ Goes(t, "armed") /\ UNCHANGED refreshClaim
  /\ UNCHANGED <<connectionVars, authorization, refreshQueue, posted, askedWith,
                 refreshFaults>>

\* Admission is denied, or something fails before the POST.
RefreshDenied(t) ==
  /\ refreshRun[t].at \in {"claimed", "armed"}
  /\ Goes(t, "failing")
  /\ UNCHANGED <<connectionVars, refresh, refreshClaim, authorization, refreshQueue,
                 posted, askedWith, refreshFaults>>

\* The POST, which the authorization server answers or not.
PostToken(t) ==
  LET a == refreshRun[t].row IN
  /\ refreshRun[t].at = "armed"
  /\ posted' = [posted EXCEPT ![refresh[a].credential] = @ + 1]
  /\ askedWith' = [askedWith EXCEPT ![a] = owner]
  /\ \E place \in {"answered", "failing"} : Goes(t, place)
  /\ UNCHANGED <<connectionVars, refresh, refreshClaim, authorization, refreshQueue,
                 refreshFaults>>

\* received: the answer is kept whatever has become of the connection.
StoreReceipt(t) ==
  LET a == refreshRun[t].row IN
  /\ refreshRun[t].at = "answered"
  /\ IF refreshClaim[a] = t /\ refresh[a].status \in {"REQUEST_ARMED", "OUTCOME_UNKNOWN"}
     THEN /\ refresh' = [refresh EXCEPT ![a].status = "CANDIDATE_READY"]
          /\ Goes(t, "received")
     ELSE Goes(t, "failing") /\ UNCHANGED refresh
  /\ UNCHANGED <<connectionVars, refreshClaim, authorization, refreshQueue, posted,
                 askedWith, refreshFaults>>

\* Mutant: a failure after the arming is tried again as well.
RefreshFails_Retry(t) ==
  LET a == refreshRun[t].row IN
  /\ refreshRun[t].at = "failing"
  /\ refresh' = IF refreshClaim[a] = t /\ refresh[a].status \in {"CLAIMED", "REQUEST_ARMED"}
                THEN [refresh EXCEPT ![a].status = "PENDING", ![a].live = FALSE] ELSE refresh
  /\ RunEnds(t)
  /\ UNCHANGED <<connectionVars, authorization, refreshQueue, posted, askedWith,
                 refreshFaults>>

\* The handler of every exception: what was not sent may be tried again.
RefreshFails(t) ==
  LET a == refreshRun[t].row IN
  /\ refreshRun[t].at = "failing"
  /\ refresh' = CASE refreshClaim[a] = t /\ refresh[a].status = "REQUEST_ARMED" ->
                       [refresh EXCEPT ![a].status = "OUTCOME_UNKNOWN"]
                  [] refreshClaim[a] = t /\ refresh[a].status = "CLAIMED" ->
                       [refresh EXCEPT ![a].status = "PENDING", ![a].live = FALSE]
                  [] OTHER -> refresh
  /\ IF refresh'[a].status = "CANDIDATE_READY"
     THEN Goes(t, "received") /\ UNCHANGED refreshClaim
     ELSE RunEnds(t)
  /\ UNCHANGED <<connectionVars, authorization, refreshQueue, posted, askedWith,
                 refreshFaults>>

\* _publish: the receipt passes the complete comparison with the authorization it
\* continues, or it does not; the deployed profile and the clock take part in that.
Continue(a) ==
  /\ connection.credential < MaxRevision
  /\ connection' = [connection EXCEPT !.credential = @ + 1, !.status = "ACTIVE"]
  /\ owner' = a
  /\ refresh' = [refresh EXCEPT ![a].status = "PUBLISHED"]

PublishRefresh(t) ==
  LET a == refreshRun[t].row IN
  /\ refreshRun[t].at = "received"
  /\ \/ /\ refresh[a].status # "CANDIDATE_READY"
        /\ UNCHANGED <<connectionVars, refresh>>
     \/ /\ refresh[a].status = "CANDIDATE_READY" /\ ~Current(a, FALSE)
        /\ refresh' = [refresh EXCEPT ![a].status = "SUPERSEDED"]
        /\ UNCHANGED connectionVars
     \/ /\ refresh[a].status = "CANDIDATE_READY" /\ Current(a, FALSE)
        /\ \/ Continue(a)
           \/ /\ connection' = [connection EXCEPT !.status = "REAUTH_REQUIRED", !.grant = @ + 1]
              /\ refresh' = [refresh EXCEPT ![a].review = TRUE]
              /\ UNCHANGED owner
  /\ RunEnds(t)
  /\ UNCHANGED <<authorization, refreshQueue, posted, askedWith, refreshFaults>>

\* The claim (45 s) outlasts the run's own deadline (35 s); a host that stalls is a fault.
ClaimLapses(a) ==
  /\ refresh[a].live /\ refresh[a].status \in {"CLAIMED", "REQUEST_ARMED"}
  /\ refresh' = [refresh EXCEPT ![a].live = FALSE]
  /\ \/ refreshClaim[a] = None /\ UNCHANGED refreshFaults
     \/ /\ refreshClaim[a] # None /\ refreshFaults < MaxCrashes
        /\ refreshFaults' = refreshFaults + 1
  /\ UNCHANGED <<connectionVars, refreshClaim, authorization, refreshQueue, refreshRun,
                 posted, askedWith>>

\* Killed: the delivery is given back, unless the hard time limit did it, which a
\* run only reaches after its first transaction.
KillRefresh(t) ==
  /\ refreshRun[t].at # "idle" /\ refreshFaults < MaxCrashes
  /\ refreshFaults' = refreshFaults + 1
  /\ \/ refreshQueue' = refreshQueue \cup {refreshRun[t].row}
     \/ refreshRun[t].at # "taken" /\ UNCHANGED refreshQueue
  /\ RunEnds(t)
  /\ UNCHANGED <<connectionVars, refresh, authorization, posted, askedWith>>

-----------------------------------------------------------------------------
(* What administrators do to the connection meanwhile.                     *)

RecoverReceipt(a) ==
  /\ refresh[a].status = "CANDIDATE_READY" /\ Current(a, TRUE)
  /\ Continue(a)
  /\ UNCHANGED <<refreshClaim, authorization, refreshQueue, refreshRun, posted,
                 askedWith, refreshFaults>>

Cancelled(xs) ==   \* authorizations that a newer one, or disabling, ends
  [x \in Authorization |->
     IF x \in xs /\ authorization[x].status \in {"PENDING", "CLAIMED", "CANDIDATE_READY"}
     THEN [authorization[x] EXCEPT !.status = "CANCELLED"] ELSE authorization[x]]

Matches(x) ==   \* _check_parent
  /\ connection.credential = authorization[x].credential
  /\ connection.grant = authorization[x].grant

onlyAuthorization == <<connectionVars, refresh, refreshClaim, refreshQueue, refreshRun,
                       posted, askedWith, refreshFaults>>

StartAuthorization(x) ==
  /\ authorization[x].status = "NONE" /\ connection.status # "DISABLED"
  /\ authorization' = [Cancelled(Authorization) EXCEPT
                         ![x] = [status |-> "PENDING", fresh |-> TRUE,
                                 credential |-> connection.credential,
                                 grant |-> connection.grant]]
  /\ UNCHANGED onlyAuthorization

AuthorizationLapses(x) ==
  /\ authorization[x].fresh
  /\ authorization[x].status \in {"PENDING", "CLAIMED", "CANDIDATE_READY"}
  /\ authorization' = [authorization EXCEPT ![x].fresh = FALSE]
  /\ UNCHANGED onlyAuthorization

\* accept_mcp_callback claims the code before it is redeemed.
ClaimCode(x) ==
  /\ authorization[x].status = "PENDING" /\ authorization[x].fresh
  /\ connection.status # "DISABLED" /\ Matches(x)
  /\ authorization' = [authorization EXCEPT ![x].status = "CLAIMED"]
  /\ UNCHANGED onlyAuthorization

\* ... and stores what became of it, unless it was cancelled meanwhile.
StoreCandidate(x) ==
  /\ authorization[x].status = "CLAIMED" /\ connection.status # "DISABLED"
  /\ \E verdict \in {"CANDIDATE_READY", "RESULT_UNKNOWN", "FAILED"} :
       /\ verdict = "CANDIDATE_READY" => Matches(x) /\ authorization[x].fresh
       /\ authorization' = [authorization EXCEPT ![x].status = verdict]
  /\ UNCHANGED onlyAuthorization

CancelCallback(x) ==
  /\ authorization[x].status = "PENDING" /\ authorization[x].fresh
  /\ connection.status # "DISABLED"
  /\ authorization' = [authorization EXCEPT ![x].status = "CANCELLED"]
  /\ UNCHANGED onlyAuthorization

\* _publish_authorization
AcceptCandidate(x) ==
  /\ authorization[x].status = "CANDIDATE_READY" /\ authorization[x].fresh
  /\ connection.status # "DISABLED" /\ Matches(x)
  /\ connection.credential < MaxRevision
  /\ connection' = [status |-> "ACTIVE", credential |-> connection.credential + 1,
                    grant |-> connection.grant + 1]
  /\ owner' = x
  /\ authorization' = [authorization EXCEPT ![x].status = "ACCEPTED"]
  /\ UNCHANGED <<refresh, refreshClaim, refreshQueue, refreshRun, posted, askedWith,
                 refreshFaults>>

Disable ==
  /\ connection.status # "DISABLED"
  /\ connection' = [connection EXCEPT !.status = "DISABLED", !.grant = @ + 1]
  /\ authorization' = Cancelled(Authorization)
  /\ UNCHANGED <<owner, refresh, refreshClaim, refreshQueue, refreshRun, posted,
                 askedWith, refreshFaults>>

-----------------------------------------------------------------------------
RefreshTask(t) ==
  \/ LeaveSuccessor(t) \/ ClaimRefresh(t) \/ ArmRefresh(t) \/ PostToken(t)
  \/ StoreReceipt(t) \/ RefreshFails(t) \/ PublishRefresh(t)

Administrator ==
  \/ Disable
  \/ \E a \in Refresh : RecoverReceipt(a)
  \/ \E x \in Authorization :
       \/ StartAuthorization(x) \/ ClaimCode(x) \/ StoreCandidate(x)
       \/ CancelCallback(x) \/ AcceptCandidate(x)

RefreshNext ==
  \/ NewRefresh \/ QueueAgain
  \/ \E t \in Task : \/ RefreshTask(t) \/ RefreshDenied(t) \/ KillRefresh(t)
                      \/ \E a \in Refresh : TakeRefresh(t, a)
  \/ \E a \in Refresh : ClaimLapses(a)
  \/ Administrator
  \/ \E x \in Authorization : AuthorizationLapses(x)

\* Tasks run and deliveries arrive; admission is not denied forever.
RefreshFairness ==
  /\ \A t \in Task : WF_refreshVars(RefreshTask(t))
  /\ WF_refreshVars(\E t \in Task, a \in Refresh : TakeRefresh(t, a))
  /\ SF_refreshVars(\E t \in Task : ArmRefresh(t))
  /\ \A a \in Refresh : WF_refreshVars(ClaimLapses(a))

RefreshSpec == RefreshInit /\ [][RefreshNext]_refreshVars /\ RefreshFairness

-----------------------------------------------------------------------------
(* What must hold.                                                         *)

\* No refresh token is sent twice, whatever becomes of the task that sent it, of the
\* answer and of the attempts that follow (process_mcp_refresh): of the attempts made
\* for one credential revision at most one was armed, and it is sent at most once.
TokenSpentOnce ==
  /\ \A c \in Revisions : posted[c] <= 1
  /\ \A a, b \in Refresh :
       refresh[a].armed /\ refresh[b].armed /\ refresh[a].credential = refresh[b].credential
         => a = b

\* A revision whose token was sent has an armed attempt to show for it, so that it is
\* never taken for unsent after a crash; and what an attempt that was never armed says
\* is true (_current, ensure_mcp_credentials).
SpentIsRemembered ==
  \A c \in Revisions :
    posted[c] > 0 => \E a \in Refresh : refresh[a].armed /\ refresh[a].credential = c

\* At most one attempt of a credential revision is unfinished, the rule of the partial
\* unique index, which no transaction may run into (uq_mcp_refresh_active_revision).
OneActiveRefresh ==
  \A a, b \in Refresh :
    {refresh[a].status, refresh[b].status} \subseteq RefreshActive
    /\ refresh[a].credential = refresh[b].credential => a = b

\* An attempt that waits for work has a message, or a task that will leave one
\* (refresh_mcp).
RefreshWatched ==
  \A a \in Refresh :
    refresh[a].status \in {"PENDING", "CLAIMED", "REQUEST_ARMED"} =>
      a \in refreshQueue \/ \E t \in Task : refreshRun[t] = [at |-> "taken", row |-> a]

\* What was armed or kept for an administrator is not waiting for work.
RowBooks ==
  \A a \in Refresh :
    /\ refresh[a].status \in {"NONE", "PENDING", "CLAIMED"} => ~refresh[a].armed
    /\ refresh[a].review =>
         refresh[a].status \notin {"NONE", "PENDING", "CLAIMED", "REQUEST_ARMED"}
    /\ refresh[a].credential <= connection.credential
    /\ a \in refreshQueue => refresh[a].status # "NONE"

\* An answer that may still be published to the credentials of the day was asked for
\* with them.
AnswerBooks ==
  \A a \in Refresh :
    /\ \/ refresh[a].status = "CANDIDATE_READY"
       \/ \E t \in Task : refreshRun[t] = [at |-> "answered", row |-> a]
    /\ refresh[a].credential = connection.credential
    => askedWith[a] = owner

RunBooks ==
  \A t \in Task : refreshRun[t].at # "idle" =>
    refreshRun[t].row \in Refresh /\ refresh[refreshRun[t].row].status # "NONE"

\* Who is about to send a token is the only one, and it is not spent.
ArmedBooks ==
  \A t \in Task : refreshRun[t].at = "armed" =>
    /\ refresh[refreshRun[t].row].armed
    /\ posted[refresh[refreshRun[t].row].credential] = 0
    /\ \A u \in Task \ {t} : refreshRun[u] # refreshRun[t]

RefreshSafe ==
  /\ RefreshTypeOK /\ TokenSpentOnce /\ SpentIsRemembered /\ OneActiveRefresh
  /\ RefreshWatched /\ RowBooks /\ AnswerBooks /\ RunBooks /\ ArmedBooks

\* The answer to a refresh replaces the credentials it was asked with and no others,
\* however late it is published, and nothing revives a disabled connection
\* (_publish, recover_mcp_refresh_receipt).
AnswersFollowQuestions ==
  [][ /\ owner' # owner /\ owner' \in Refresh => askedWith[owner'] = owner
      /\ connection.status = "DISABLED" => connection' = connection ]_refreshVars

\* An attempt does not wait forever: it is published, superseded, kept for an
\* administrator, or known to be unknown (refresh_mcp).
Settled(a) == refresh[a].status \in RefreshTerminal \/ refresh[a].review
RefreshSettles ==
  \A a \in Refresh : refresh[a].status = "PENDING" ~> Settled(a)

\* Only an authorization that is newer than the connection's credentials stops their
\* refresh (newer_authorization in _current).
OnlyNewerSupersedes ==
  [][ \A a \in Refresh :
        /\ refresh'[a].status = "SUPERSEDED" /\ refresh[a].status # "SUPERSEDED"
        /\ connection.status = "ACTIVE" /\ connection.credential = refresh[a].credential
        /\ connection.grant = refresh[a].grant /\ ~PriorSend(a)
        => \E x \in Authorization :
             /\ authorization[x].status \in Redeemed \cup {"PENDING"}
             /\ authorization[x].credential = connection.credential ]_refreshVars
=============================================================================
