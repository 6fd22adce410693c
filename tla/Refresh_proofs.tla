-------------------------- MODULE Refresh_proofs --------------------------
(* Theorems about what is refreshed while others use it: the tokens of       *)
(* McpRefresh, for every number of attempts, authorizations, tasks and       *)
(* revisions, and the sessions of SessionRefresh, for every number of tasks, *)
(* applications, attempts and faults.                                        *)
EXTENDS McpRefresh, SessionRefresh, SequenceTheorems, TLAPS

----------------------------------------------------------------------------
(* Most steps leave alone what a part of the invariant is about.            *)

Fresh   == {"NONE", "PENDING", "CLAIMED"}
Waiting == {"PENDING", "CLAIMED", "REQUEST_ARMED"}

\* No token is armed or sent.
TokensKept ==
  /\ posted' = posted
  /\ \A b \in Refresh :
       /\ refresh'[b].armed = refresh[b].armed
       /\ refresh[b].status # "NONE" =>
            refresh'[b].status # "NONE" /\ refresh'[b].credential = refresh[b].credential
  /\ \A u \in Task :
       \/ refreshRun'[u] = refreshRun[u]
       \/ /\ refreshRun'[u].at # "armed"
          /\ refreshRun'[u].at # "idle" => /\ refreshRun'[u].row \in Refresh
                                           /\ refresh'[refreshRun'[u].row].status # "NONE"

\* Attempts go forward; an unfinished one was unfinished before.
RowsKept ==
  \A b \in Refresh :
    /\ refresh'[b].armed = refresh[b].armed
    /\ refresh'[b].status \in Fresh => refresh[b].status \in Fresh
    /\ refresh'[b].status \in Waiting \cup {"NONE"} =>
         refresh[b].status \in Waiting \cup {"NONE"}
    /\ refresh'[b].review => refresh[b].review \/ refresh'[b].status = "CANDIDATE_READY"
    /\ refresh'[b].credential <= connection'.credential
    /\ b \in refreshQueue' => refresh'[b].status # "NONE"

ActiveKept ==
  \A b \in Refresh : refresh'[b].status \in RefreshActive =>
    refresh[b].status \in RefreshActive /\ refresh'[b].credential = refresh[b].credential

WatchKept ==
  /\ refreshQueue \subseteq refreshQueue'
  /\ \A b \in Refresh : refresh'[b].status \in Waiting =>
       refresh[b].status \in Waiting \/ b \in refreshQueue'
  /\ \A u \in Task : refreshRun[u].at = "taken" =>
       \/ refreshRun'[u] = refreshRun[u] \/ refreshRun[u].row \in refreshQueue'
       \/ refresh'[refreshRun[u].row].status \notin Waiting

\* Answers are no new ones, and who gets new credentials gets a new revision.
AnswersKept ==
  /\ askedWith' = askedWith
  /\ \A b \in Refresh :
       \/ refresh'[b].status = "CANDIDATE_READY"
       \/ \E t \in Task : refreshRun'[t] = [at |-> "answered", row |-> b]
       => /\ \/ refresh[b].status = "CANDIDATE_READY"
             \/ \E t \in Task : refreshRun[t] = [at |-> "answered", row |-> b]
          /\ refresh'[b].credential = refresh[b].credential
  /\ \/ connection'.credential = connection.credential /\ owner' = owner
     \/ connection'.credential > connection.credential

LEMMA TokensStay ==
  ASSUME RefreshSafe, TokensKept
  PROVE  TokenSpentOnce' /\ SpentIsRemembered' /\ RunBooks' /\ ArmedBooks'
<1>1. \A b \in Refresh : refresh[b].armed => /\ refresh'[b].armed /\ refresh[b].status # "NONE"
                                             /\ refresh'[b].credential = refresh[b].credential
  BY DEF RefreshSafe, RowBooks, TokensKept
<1>2. \A b \in Refresh : refresh'[b].armed => refresh[b].armed
  BY DEF TokensKept
<1>3. TokenSpentOnce' /\ SpentIsRemembered'
  BY <1>1, <1>2 DEF RefreshSafe, TokensKept, TokenSpentOnce, SpentIsRemembered
<1>4. RunBooks'
  BY DEF RefreshSafe, RunBooks, TokensKept
<1>5. ArmedBooks'
  BY <1>1 DEF RefreshSafe, RunBooks, ArmedBooks, TokensKept
<1> QED BY <1>3, <1>4, <1>5

LEMMA RowsStay == ASSUME RefreshSafe, RowsKept PROVE RowBooks'
BY DEF RefreshSafe, RowBooks, RowsKept, Fresh, Waiting

LEMMA ActiveStay == ASSUME RefreshSafe, ActiveKept PROVE OneActiveRefresh'
BY DEF RefreshSafe, OneActiveRefresh, ActiveKept

LEMMA WatchStays == ASSUME RefreshSafe, WatchKept PROVE RefreshWatched'
<1> SUFFICES ASSUME NEW b \in Refresh, refresh'[b].status \in Waiting, b \notin refreshQueue'
             PROVE  \E t \in Task : refreshRun'[t] = [at |-> "taken", row |-> b]
  BY DEF RefreshWatched, Waiting
<1>1. refresh[b].status \in Waiting /\ b \notin refreshQueue
  BY DEF WatchKept
<1>2. PICK t \in Task : refreshRun[t] = [at |-> "taken", row |-> b]
  BY <1>1 DEF RefreshSafe, RefreshWatched, Waiting
<1>3. refreshRun'[t] = refreshRun[t]
  BY <1>2 DEF WatchKept
<1> QED BY <1>2, <1>3

LEMMA AnswersStay ==
  ASSUME RefreshSafe, RefreshTypeOK', RowsKept, AnswersKept PROVE AnswerBooks'
<1>1. \A b \in Refresh : /\ refresh[b].credential <= connection.credential
                         /\ refresh[b].credential \in Nat
  BY DEF RefreshSafe, RowBooks, RefreshTypeOK, Revisions
<1>2. connection.credential \in Nat /\ connection'.credential \in Nat
  BY DEF RefreshSafe, RefreshTypeOK, Revisions
<1> QED BY <1>1, <1>2 DEF RefreshSafe, AnswerBooks, AnswersKept

LEMMA AllKept ==
  ASSUME RefreshSafe, RefreshTypeOK', TokensKept, RowsKept, ActiveKept, WatchKept, AnswersKept
  PROVE  RefreshSafe'
BY TokensStay, RowsStay, ActiveStay, WatchStays, AnswersStay DEF RefreshSafe

----------------------------------------------------------------------------
(* Types of the variables that many steps change.                           *)

RunType == [Task -> [at : {"idle", "taken", "queued", "claimed", "armed", "answered", "failing",
                           "received"}, row : Refresh \cup {None}]]

LEMMA RunTyped ==
  ASSUME RefreshSafe, NEW t \in Task,
         NEW place \in {"taken", "queued", "claimed", "armed", "answered", "failing", "received"}
  PROVE  /\ [refreshRun EXCEPT ![t].at = place] \in RunType
         /\ [refreshRun EXCEPT ![t] = [at |-> "idle", row |-> None]] \in RunType
BY DEF RefreshSafe, RefreshTypeOK, RunType

RowType == [Refresh -> [status : RefreshStatus, credential : Revisions, grant : Nat,
                        live : BOOLEAN, armed : BOOLEAN, review : BOOLEAN]]

LEMMA StatusNames ==
  /\ RefreshStatus = {"NONE", "PENDING", "CLAIMED", "REQUEST_ARMED", "CANDIDATE_READY",
                      "OUTCOME_UNKNOWN", "PUBLISHED", "REJECTED", "SUPERSEDED"}
BY DEF RefreshStatus, RefreshActive, RefreshTerminal

LEMMA RowTyped ==
  ASSUME RefreshSafe, NEW a \in Refresh, NEW s \in RefreshStatus, NEW live \in BOOLEAN
  PROVE  /\ refresh \in RowType
         /\ [refresh EXCEPT ![a].status = s] \in RowType
         /\ [refresh EXCEPT ![a].status = s, ![a].live = live] \in RowType
         /\ [refresh EXCEPT ![a].status = s, ![a].armed = live] \in RowType
         /\ [refresh EXCEPT ![a].live = live] \in RowType
         /\ [refresh EXCEPT ![a].review = TRUE] \in RowType
<1>1. refresh \in RowType
  BY DEF RefreshSafe, RefreshTypeOK, RowType
<1>2. [refresh EXCEPT ![a].status = s] \in RowType
  BY <1>1 DEF RowType
<1>3. [refresh EXCEPT ![a].status = s, ![a].live = live] \in RowType
  BY ZenonT(90), <1>1 DEF RowType
<1>4. [refresh EXCEPT ![a].review = TRUE] \in RowType
  BY ZenonT(90), <1>1 DEF RowType
<1>5. [refresh EXCEPT ![a].status = s, ![a].armed = live] \in RowType
  BY ZenonT(90), <1>1 DEF RowType
<1>6. [refresh EXCEPT ![a].live = live] \in RowType
  BY <1>1 DEF RowType
<1> QED BY <1>1, <1>2, <1>3, <1>4, <1>5, <1>6

ConnectionType == [status : {"ACTIVE", "REAUTH_REQUIRED", "DISABLED"}, credential : Revisions,
                   grant : Nat]

LEMMA ConnectionTyped ==
  ASSUME RefreshSafe
  PROVE  /\ connection \in ConnectionType
         /\ connection.credential \in Revisions /\ connection.credential \in Nat
         /\ connection.grant \in Nat
         /\ connection.credential < MaxRevision => connection.credential + 1 \in Revisions
         /\ connection.credential < MaxRevision =>
              [connection EXCEPT !.credential = @ + 1, !.status = "ACTIVE"] \in ConnectionType
         /\ [connection EXCEPT !.status = "REAUTH_REQUIRED", !.grant = @ + 1] \in ConnectionType
         /\ [connection EXCEPT !.status = "DISABLED", !.grant = @ + 1] \in ConnectionType
         /\ \A b \in Refresh : refresh[b].credential \in Nat /\ refresh[b].credential \in Revisions
<1>1. /\ connection.credential \in Revisions /\ connection.grant \in Nat
      /\ \A b \in Refresh : refresh[b].credential \in Revisions
  BY DEF RefreshSafe, RefreshTypeOK
<1>2. connection \in ConnectionType
  BY DEF RefreshSafe, RefreshTypeOK, ConnectionType
<1>3. /\ connection.credential \in Nat /\ \A b \in Refresh : refresh[b].credential \in Nat
      /\ connection.credential < MaxRevision => connection.credential + 1 \in Revisions
  BY <1>1, RefreshOK DEF Revisions
<1>4. connection.credential < MaxRevision =>
        [connection EXCEPT !.credential = @ + 1, !.status = "ACTIVE"] \in ConnectionType
  BY <1>2, <1>3 DEF ConnectionType
<1>5. /\ [connection EXCEPT !.status = "REAUTH_REQUIRED", !.grant = @ + 1] \in ConnectionType
      /\ [connection EXCEPT !.status = "DISABLED", !.grant = @ + 1] \in ConnectionType
  <2>1. connection.grant + 1 \in Nat
    BY <1>1
  <2> QED BY <1>2, <2>1 DEF ConnectionType
<1> QED BY <1>1, <1>2, <1>3, <1>4, <1>5

----------------------------------------------------------------------------
(* The tasks and their claims.                                              *)

LEMMA LeaveSuccessorStep ==
  ASSUME RefreshSafe, NEW t \in Task, LeaveSuccessor(t)
  PROVE  RefreshSafe'
<1> USE TasksOK DEF LeaveSuccessor, Goes, connectionVars
<1>1. RefreshTypeOK'
  BY DEF RefreshSafe, RunBooks, RefreshTypeOK
<1>2. TokensKept
  BY DEF RefreshSafe, RefreshTypeOK, RunBooks, RowBooks, TokensKept
<1>3. RowsKept
  BY DEF RefreshSafe, RefreshTypeOK, RowBooks, RunBooks, RowsKept, Fresh, Waiting
<1>4. ActiveKept
  BY DEF RefreshSafe, RefreshTypeOK, RunBooks, ActiveKept, RefreshActive, RefreshTerminal
<1>5. WatchKept
  BY DEF RefreshSafe, RefreshTypeOK, RowBooks, RunBooks, WatchKept, Waiting
<1>6. AnswersKept
  BY DEF RefreshSafe, RefreshTypeOK, AnswersKept, Revisions
<1> QED BY <1>1, <1>2, <1>3, <1>4, <1>5, <1>6, AllKept

LEMMA RefreshDeniedStep ==
  ASSUME RefreshSafe, NEW t \in Task, RefreshDenied(t)
  PROVE  RefreshSafe'
<1> USE TasksOK DEF RefreshDenied, Goes, connectionVars
<1>1. RefreshTypeOK'
  BY DEF RefreshSafe, RunBooks, RefreshTypeOK
<1>2. TokensKept
  BY DEF RefreshSafe, RefreshTypeOK, RunBooks, RowBooks, TokensKept
<1>3. RowsKept
  BY DEF RefreshSafe, RefreshTypeOK, RowBooks, RunBooks, RowsKept, Fresh, Waiting
<1>4. ActiveKept
  BY DEF RefreshSafe, RefreshTypeOK, RunBooks, ActiveKept, RefreshActive, RefreshTerminal
<1>5. WatchKept
  BY DEF RefreshSafe, RefreshTypeOK, RowBooks, RunBooks, WatchKept, Waiting
<1>6. AnswersKept
  BY DEF RefreshSafe, RefreshTypeOK, AnswersKept, Revisions
<1> QED BY <1>1, <1>2, <1>3, <1>4, <1>5, <1>6, AllKept

LEMMA KillRefreshStep ==
  ASSUME RefreshSafe, NEW t \in Task, KillRefresh(t)
  PROVE  RefreshSafe'
<1> USE TasksOK DEF KillRefresh, RunEnds, Forget, connectionVars
<1>1. RefreshTypeOK'
  BY DEF RefreshSafe, RunBooks, RefreshTypeOK
<1>2. TokensKept
  BY DEF RefreshSafe, RefreshTypeOK, RunBooks, RowBooks, TokensKept
<1>3. RowsKept
  BY DEF RefreshSafe, RefreshTypeOK, RowBooks, RunBooks, RowsKept, Fresh, Waiting
<1>4. ActiveKept
  BY DEF RefreshSafe, RefreshTypeOK, RunBooks, ActiveKept, RefreshActive, RefreshTerminal
<1>5. WatchKept
  BY DEF RefreshSafe, RefreshTypeOK, RowBooks, RunBooks, WatchKept, Waiting
<1>6. AnswersKept
  BY DEF RefreshSafe, RefreshTypeOK, AnswersKept, Revisions
<1> QED BY <1>1, <1>2, <1>3, <1>4, <1>5, <1>6, AllKept

LEMMA QueueAgainStep ==
  ASSUME RefreshSafe, QueueAgain
  PROVE  RefreshSafe'
<1> USE TasksOK DEF QueueAgain, Concerned, connectionVars
<1>1. RefreshTypeOK'
  BY DEF RefreshSafe, RunBooks, RefreshTypeOK
<1>2. TokensKept
  BY DEF RefreshSafe, RefreshTypeOK, RunBooks, RowBooks, TokensKept
<1>3. RowsKept
  BY DEF RefreshSafe, RefreshTypeOK, RowBooks, RunBooks, RowsKept, Fresh, Waiting
<1>4. ActiveKept
  BY DEF RefreshSafe, RefreshTypeOK, RunBooks, ActiveKept, RefreshActive, RefreshTerminal
<1>5. WatchKept
  BY DEF RefreshSafe, RefreshTypeOK, RowBooks, RunBooks, WatchKept, Waiting
<1>6. AnswersKept
  BY DEF RefreshSafe, RefreshTypeOK, AnswersKept, Revisions
<1> QED BY <1>1, <1>2, <1>3, <1>4, <1>5, <1>6, AllKept

LEMMA ClaimLapsesStep ==
  ASSUME RefreshSafe, NEW a \in Refresh, ClaimLapses(a)
  PROVE  RefreshSafe'
<1> USE TasksOK DEF ClaimLapses, connectionVars
<1>1. RefreshTypeOK'
  <2>1. refresh' \in RowType
    BY RowTyped, StatusNames
  <2>2. refreshFaults' \in 0 .. MaxCrashes
    BY DEF RefreshSafe, RefreshTypeOK
  <2> QED BY <2>1, <2>2, SMTT(90) DEF RefreshSafe, RefreshTypeOK, RowType
<1>2. TokensKept
  BY DEF RefreshSafe, RefreshTypeOK, RunBooks, RowBooks, TokensKept
<1>3. RowsKept
  BY DEF RefreshSafe, RefreshTypeOK, RowBooks, RunBooks, RowsKept, Fresh, Waiting
<1>4. ActiveKept
  BY DEF RefreshSafe, RefreshTypeOK, RunBooks, ActiveKept, RefreshActive, RefreshTerminal
<1>5. WatchKept
  BY DEF RefreshSafe, RefreshTypeOK, RowBooks, RunBooks, WatchKept, Waiting
<1>6. AnswersKept
  BY SMTT(90) DEF RefreshSafe, RefreshTypeOK, AnswersKept, Revisions
<1> QED BY <1>1, <1>2, <1>3, <1>4, <1>5, <1>6, AllKept

LEMMA RecoverReceiptStep ==
  ASSUME RefreshSafe, NEW a \in Refresh, RecoverReceipt(a)
  PROVE  RefreshSafe'
<1> USE TasksOK DEF RecoverReceipt, Continue
<1>1. RefreshTypeOK'
  <2>1. refresh' \in RowType
    BY RowTyped, StatusNames
  <2>2. connection' \in ConnectionType
    BY ConnectionTyped
  <2> QED BY <2>1, <2>2 DEF RefreshSafe, RefreshTypeOK, RowType, ConnectionType
<1>2. TokensKept
  BY DEF RefreshSafe, RefreshTypeOK, RunBooks, RowBooks, TokensKept
<1>3. RowsKept
  <2>1. connection'.credential = connection.credential + 1 /\ connection.credential \in Nat
        /\ \A b \in Refresh : refresh[b].credential \in Nat
    BY ConnectionTyped
  <2> QED BY <2>1 DEF RefreshSafe, RefreshTypeOK, RowBooks, RowsKept, Fresh, Waiting
<1>4. ActiveKept
  BY DEF RefreshSafe, RefreshTypeOK, RunBooks, ActiveKept, RefreshActive, RefreshTerminal
<1>5. WatchKept
  BY DEF RefreshSafe, RefreshTypeOK, RowBooks, RunBooks, WatchKept, Waiting
<1>6. AnswersKept
  BY SMTT(90) DEF RefreshSafe, RefreshTypeOK, AnswersKept, Revisions
<1> QED BY <1>1, <1>2, <1>3, <1>4, <1>5, <1>6, AllKept

LEMMA StoreReceiptStep ==
  ASSUME RefreshSafe, NEW t \in Task, StoreReceipt(t)
  PROVE  RefreshSafe'
<1> DEFINE a == refreshRun[t].row
<1>1. /\ refreshRun[t].at = "answered" /\ a \in Refresh
      /\ refreshRun[t] = [at |-> "answered", row |-> a]
      /\ UNCHANGED <<connection, owner, refreshClaim, authorization, refreshQueue, posted,
                     askedWith, refreshFaults>>
  BY DEF StoreReceipt, connectionVars, RefreshSafe, RefreshTypeOK, RunBooks
<1>2. \/ /\ refresh[a].status \in {"REQUEST_ARMED", "OUTCOME_UNKNOWN"}
         /\ refresh' = [refresh EXCEPT ![a].status = "CANDIDATE_READY"]
         /\ refreshRun' = [refreshRun EXCEPT ![t].at = "received"]
      \/ refresh' = refresh /\ refreshRun' = [refreshRun EXCEPT ![t].at = "failing"]
  BY DEF StoreReceipt, Goes
<1>3. RefreshTypeOK'
  <2>1. refresh' \in RowType
    BY <1>1, <1>2, RowTyped, StatusNames
  <2>2. refreshRun' \in RunType
    BY <1>1, <1>2, RunTyped
  <2> QED BY <1>1, <2>1, <2>2 DEF RefreshSafe, RefreshTypeOK, RunType, RowType
<1>4. /\ \A u \in Task \ {t} : refreshRun'[u] = refreshRun[u]
      /\ refreshRun'[t].at \in {"received", "failing"} /\ refreshRun'[t].row = a
      /\ \A b \in Refresh \ {a} : refresh'[b] = refresh[b]
      /\ \/ refresh'[a] = refresh[a]
         \/ /\ refresh[a].status \in {"REQUEST_ARMED", "OUTCOME_UNKNOWN"}
            /\ refresh'[a] = [refresh[a] EXCEPT !.status = "CANDIDATE_READY"]
  <2>1. /\ refresh \in RowType /\ refreshRun \in RunType
    BY DEF RefreshSafe, RefreshTypeOK, RowType, RunType
  <2>2. CASE refresh' = refresh
    BY <1>1, <1>2, <2>1, <2>2 DEF RunType
  <2>3. CASE refresh' = [refresh EXCEPT ![a].status = "CANDIDATE_READY"]
    BY <1>1, <1>2, <2>1, <2>3 DEF RunType, RowType
  <2> QED BY <1>2, <2>2, <2>3
<1>5. /\ refresh'[a].armed = refresh[a].armed /\ refresh'[a].review = refresh[a].review
      /\ refresh'[a].credential = refresh[a].credential /\ refresh[a].status # "NONE"
      /\ \/ refresh'[a].status = refresh[a].status
         \/ /\ refresh[a].status \in {"REQUEST_ARMED", "OUTCOME_UNKNOWN"}
            /\ refresh'[a].status = "CANDIDATE_READY"
  BY SMTT(90), <1>1, <1>4 DEF RefreshSafe, RefreshTypeOK, RunBooks
<1> HIDE DEF a
<1>6. TokensKept
  BY <1>1, <1>4, <1>5 DEF TokensKept
<1>7. RowsKept
  BY <1>1, <1>4, <1>5 DEF RefreshSafe, RowBooks, RowsKept, Fresh, Waiting
<1>8. ActiveKept
  BY <1>1, <1>4, <1>5 DEF ActiveKept, RefreshActive
<1>9. WatchKept
  BY <1>1, <1>4, <1>5 DEF WatchKept, Waiting
<1>10. AnswersKept
  BY SMTT(90), <1>1, <1>4, <1>5 DEF AnswersKept
<1> QED BY <1>3, <1>6, <1>7, <1>8, <1>9, <1>10, AllKept

\* What the claiming transaction makes of a row.
LEMMA ClaimRefreshStep ==
  ASSUME RefreshSafe, NEW t \in Task, ClaimRefresh(t)
  PROVE  RefreshSafe'
<1> DEFINE a == refreshRun[t].row
           s == refresh'[a].status
<1>1. /\ refreshRun[t].at = "queued" /\ a \in Refresh /\ refresh[a].status # "NONE"
      /\ UNCHANGED <<connection, owner, authorization, refreshQueue, posted, askedWith,
                     refreshFaults>>
  BY DEF ClaimRefresh, connectionVars, RefreshSafe, RunBooks
<1>2. Verdict(a) \in {refresh[a].status, "SUPERSEDED", "OUTCOME_UNKNOWN"}
      /\ (Verdict(a) = "OUTCOME_UNKNOWN" =>
            refresh[a].status \in {"OUTCOME_UNKNOWN", "REQUEST_ARMED"})
  BY DEF Verdict
<1>3. /\ \/ refreshRun' = [refreshRun EXCEPT ![t].at = "claimed"]
         \/ refreshRun' = [refreshRun EXCEPT ![t].at = "received"]
         \/ refreshRun' = [refreshRun EXCEPT ![t] = [at |-> "idle", row |-> None]]
      /\ refreshClaim' \in {[refreshClaim EXCEPT ![a] = t], refreshClaim, Forget(refreshClaim, t)}
      /\ \/ refresh' = refresh
         \/ /\ refresh[a].status \in {"PENDING", "CLAIMED"}
            /\ refresh' = [refresh EXCEPT ![a].status = "CLAIMED", ![a].live = TRUE]
         \/ refresh' = [refresh EXCEPT ![a].status = Verdict(a)]
  BY DEF ClaimRefresh, Claims, Goes, RunEnds
<1>4. RefreshTypeOK'
  <2>1. refresh' \in RowType
    <3>1. refresh[a].status \in RefreshStatus
      BY <1>1 DEF RefreshSafe, RefreshTypeOK
    <3>2. Verdict(a) \in RefreshStatus /\ "CLAIMED" \in RefreshStatus
      BY <1>2, <3>1, StatusNames
    <3>3. refresh \in RowType /\ [refresh EXCEPT ![a].status = Verdict(a)] \in RowType
          /\ [refresh EXCEPT ![a].status = "CLAIMED", ![a].live = TRUE] \in RowType
      BY <1>1, <3>2, RowTyped
    <3> QED BY <1>3, <3>3
  <2>2. refreshRun' \in RunType
    BY ZenonT(90), <1>1, <1>3, RunTyped
  <2>3. refreshClaim' \in [Refresh -> Task \cup {None}]
    BY ZenonT(90), <1>1, <1>3 DEF RefreshSafe, RefreshTypeOK, Forget
  <2> QED BY <1>1, <2>1, <2>2, <2>3 DEF RefreshSafe, RefreshTypeOK, RunType, RowType
<1>5. /\ \A u \in Task \ {t} : refreshRun'[u] = refreshRun[u]
      /\ \/ refreshRun'[t].at \in {"claimed", "received"} /\ refreshRun'[t].row = a
         \/ refreshRun'[t].at = "idle"
  BY SMTT(90), <1>1, <1>3 DEF RefreshSafe, RefreshTypeOK
<1>6. /\ \A b \in Refresh \ {a} : refresh'[b] = refresh[b]
      /\ refresh'[a].armed = refresh[a].armed /\ refresh'[a].review = refresh[a].review
      /\ refresh'[a].credential = refresh[a].credential
      /\ \/ s = refresh[a].status \/ s = "SUPERSEDED"
         \/ s = "OUTCOME_UNKNOWN" /\ refresh[a].status = "REQUEST_ARMED"
         \/ s = "CLAIMED" /\ refresh[a].status = "PENDING"
  <2>1. refresh' = refresh =>
          /\ \A b \in Refresh \ {a} : refresh'[b] = refresh[b]
          /\ refresh'[a] = refresh[a]
    OBVIOUS
  <2>2. ASSUME refresh' = [refresh EXCEPT ![a].status = "CLAIMED", ![a].live = TRUE]
        PROVE  /\ \A b \in Refresh \ {a} : refresh'[b] = refresh[b]
               /\ refresh'[a] = [refresh[a] EXCEPT !.status = "CLAIMED", !.live = TRUE]
    BY <1>1, <2>2 DEF RefreshSafe, RefreshTypeOK
  <2>3. ASSUME refresh' = [refresh EXCEPT ![a].status = Verdict(a)]
        PROVE  /\ \A b \in Refresh \ {a} : refresh'[b] = refresh[b]
               /\ refresh'[a] = [refresh[a] EXCEPT !.status = Verdict(a)]
    BY <1>1, <2>3 DEF RefreshSafe, RefreshTypeOK
  <2> QED BY <1>1, <1>2, <1>3, <2>1, <2>2, <2>3 DEF RefreshSafe, RefreshTypeOK
<1> HIDE DEF a
<1>7. TokensKept
  BY <1>1, <1>5, <1>6 DEF TokensKept
<1>8. RowsKept
  BY <1>1, <1>6 DEF RefreshSafe, RowBooks, RowsKept, Fresh, Waiting
<1>9. ActiveKept
  BY <1>1, <1>6 DEF ActiveKept, RefreshActive
<1>10. WatchKept
  BY <1>1, <1>5, <1>6 DEF WatchKept, Waiting
<1>11. AnswersKept
  <2>1. \A b \in Refresh : (\E u \in Task : refreshRun'[u] = [at |-> "answered", row |-> b]) =>
                           \E u \in Task : refreshRun[u] = [at |-> "answered", row |-> b]
    BY SMTT(90), <1>5
  <2> QED BY <1>1, <1>6, <2>1 DEF AnswersKept
<1> QED BY <1>4, <1>7, <1>8, <1>9, <1>10, <1>11, AllKept

LEMMA RefreshFailsStep ==
  ASSUME RefreshSafe, NEW t \in Task, RefreshFails(t)
  PROVE  RefreshSafe'
<1> DEFINE a == refreshRun[t].row
<1>1. /\ refreshRun[t].at = "failing" /\ a \in Refresh /\ refresh[a].status # "NONE"
      /\ UNCHANGED <<connection, owner, authorization, refreshQueue, posted, askedWith,
                     refreshFaults>>
  BY SMTT(90) DEF RefreshFails, connectionVars, RefreshSafe, RunBooks
<1>2. /\ \/ refreshRun' = [refreshRun EXCEPT ![t].at = "received"]
         \/ refreshRun' = [refreshRun EXCEPT ![t] = [at |-> "idle", row |-> None]]
      /\ refreshClaim' \in {refreshClaim, Forget(refreshClaim, t)}
      /\ \/ refresh' = refresh
         \/ /\ refresh[a].status = "REQUEST_ARMED"
            /\ refresh' = [refresh EXCEPT ![a].status = "OUTCOME_UNKNOWN"]
         \/ /\ refresh[a].status = "CLAIMED"
            /\ refresh' = [refresh EXCEPT ![a].status = "PENDING", ![a].live = FALSE]
  BY DEF RefreshFails, Goes, RunEnds
<1>3. RefreshTypeOK'
  <2>1. refresh' \in RowType
    BY ZenonT(90), <1>1, <1>2, RowTyped, StatusNames
  <2>2. refreshRun' \in RunType
    BY <1>1, <1>2, RunTyped
  <2>3. refreshClaim' \in [Refresh -> Task \cup {None}]
    BY <1>1, <1>2 DEF RefreshSafe, RefreshTypeOK, Forget
  <2> QED BY <1>1, <2>1, <2>2, <2>3, SMTT(90) DEF RefreshSafe, RefreshTypeOK, RunType,
    RowType
<1>4. /\ \A u \in Task \ {t} : refreshRun'[u] = refreshRun[u]
      /\ \/ refreshRun'[t].at = "received" /\ refreshRun'[t].row = a
         \/ refreshRun'[t].at = "idle"
  BY <1>1, <1>2 DEF RefreshSafe, RefreshTypeOK
<1>5. /\ \A b \in Refresh \ {a} : refresh'[b] = refresh[b]
      /\ refresh'[a].armed = refresh[a].armed /\ refresh'[a].review = refresh[a].review
      /\ refresh'[a].credential = refresh[a].credential
      /\ \/ refresh'[a].status = refresh[a].status
         \/ refresh'[a].status = "OUTCOME_UNKNOWN" /\ refresh[a].status = "REQUEST_ARMED"
         \/ refresh'[a].status = "PENDING" /\ refresh[a].status = "CLAIMED"
  BY <1>1, <1>2 DEF RefreshSafe, RefreshTypeOK
<1> HIDE DEF a
<1>6. TokensKept
  BY <1>1, <1>4, <1>5 DEF TokensKept
<1>7. RowsKept
  BY <1>1, <1>5 DEF RefreshSafe, RowBooks, RowsKept, Fresh, Waiting
<1>8. ActiveKept
  BY <1>1, <1>5 DEF ActiveKept, RefreshActive
<1>9. WatchKept
  BY <1>1, <1>4, <1>5 DEF WatchKept, Waiting
<1>10. AnswersKept
  <2>1. \A b \in Refresh : (\E u \in Task : refreshRun'[u] = [at |-> "answered", row |-> b]) =>
                           \E u \in Task : refreshRun[u] = [at |-> "answered", row |-> b]
    BY <1>4
  <2> QED BY <1>1, <1>5, <2>1 DEF AnswersKept
<1> QED BY <1>3, <1>6, <1>7, <1>8, <1>9, <1>10, AllKept

LEMMA PublishRefreshStep ==
  ASSUME RefreshSafe, NEW t \in Task, PublishRefresh(t)
  PROVE  RefreshSafe'
<1> DEFINE a == refreshRun[t].row
<1>1. /\ refreshRun[t].at = "received" /\ a \in Refresh /\ refresh[a].status # "NONE"
      /\ refreshRun' = [refreshRun EXCEPT ![t] = [at |-> "idle", row |-> None]]
      /\ refreshClaim' = Forget(refreshClaim, t)
      /\ UNCHANGED <<authorization, refreshQueue, posted, askedWith, refreshFaults>>
  BY DEF PublishRefresh, RunEnds, RefreshSafe, RunBooks
<1>2. \/ refresh' = refresh /\ UNCHANGED <<connection, owner>>
      \/ /\ refresh[a].status = "CANDIDATE_READY" /\ UNCHANGED <<connection, owner>>
         /\ refresh' = [refresh EXCEPT ![a].status = "SUPERSEDED"]
      \/ refresh[a].status = "CANDIDATE_READY" /\ Continue(a)
      \/ /\ refresh[a].status = "CANDIDATE_READY" /\ owner' = owner
         /\ connection' = [connection EXCEPT !.status = "REAUTH_REQUIRED", !.grant = @ + 1]
         /\ refresh' = [refresh EXCEPT ![a].review = TRUE]
  BY DEF PublishRefresh, connectionVars
<1>3. RefreshTypeOK'
  <2>1. refresh' \in RowType
    BY ZenonT(90), <1>1, <1>2, RowTyped, StatusNames DEF Continue
  <2>2. refreshRun' \in RunType
    BY <1>1, RunTyped
  <2>3. refreshClaim' \in [Refresh -> Task \cup {None}]
    BY SMTT(90), <1>1 DEF RefreshSafe, RefreshTypeOK, Forget
  <2>4. connection' \in ConnectionType /\ owner' \in Refresh \cup Authorization \cup {None}
    <3>1. owner \in Refresh \cup Authorization \cup {None}
      BY DEF RefreshSafe, RefreshTypeOK
    <3> QED BY <1>1, <1>2, <3>1, ConnectionTyped DEF Continue
  <2> QED BY <1>1, <2>1, <2>2, <2>3, <2>4 DEF RefreshSafe, RefreshTypeOK, RunType, RowType,
    ConnectionType
<1>4. /\ \A u \in Task \ {t} : refreshRun'[u] = refreshRun[u]
      /\ refreshRun'[t] = [at |-> "idle", row |-> None]
  BY <1>1 DEF RefreshSafe, RefreshTypeOK
<1>5. /\ \A b \in Refresh \ {a} : refresh'[b] = refresh[b]
      /\ refresh'[a].armed = refresh[a].armed
      /\ refresh'[a].credential = refresh[a].credential
      /\ refresh'[a].review => refresh[a].review \/ refresh'[a].status = "CANDIDATE_READY"
      /\ \/ refresh'[a].status = refresh[a].status
         \/ refresh'[a].status \in {"SUPERSEDED", "PUBLISHED"}
  BY <1>1, <1>2, SMTT(90) DEF RefreshSafe, RefreshTypeOK, Continue
<1>6. /\ \/ connection'.credential = connection.credential /\ owner' = owner
         \/ connection'.credential = connection.credential + 1
      /\ connection.credential \in Nat
      /\ \A b \in Refresh : refresh[b].credential \in Nat
  BY <1>1, <1>2, ConnectionTyped DEF RefreshSafe, RefreshTypeOK, Continue
<1> HIDE DEF a
<1>7. TokensKept
  BY <1>1, <1>4, <1>5 DEF TokensKept
<1>8. RowsKept
  BY <1>1, <1>5, <1>6 DEF RefreshSafe, RowBooks, RowsKept, Fresh, Waiting
<1>9. ActiveKept
  BY <1>1, <1>5 DEF ActiveKept, RefreshActive
<1>10. WatchKept
  BY <1>1, <1>4, <1>5 DEF WatchKept, Waiting
<1>11. AnswersKept
  <2>1. \A b \in Refresh : (\E u \in Task : refreshRun'[u] = [at |-> "answered", row |-> b]) =>
                           \E u \in Task : refreshRun[u] = [at |-> "answered", row |-> b]
    BY <1>4
  <2> QED BY <1>1, <1>5, <1>6, <2>1 DEF AnswersKept
<1> QED BY <1>3, <1>7, <1>8, <1>9, <1>10, <1>11, AllKept

\* Arming is what spends a token: no other attempt of the revision may have done it.
LEMMA ArmRefreshStep ==
  ASSUME RefreshSafe, NEW t \in Task, ArmRefresh(t)
  PROVE  RefreshSafe'
<1> DEFINE a == refreshRun[t].row
<1>1. /\ refreshRun[t].at = "claimed" /\ a \in Refresh /\ refresh[a].status # "NONE"
      /\ UNCHANGED <<connection, owner, authorization, refreshQueue, posted, askedWith,
                     refreshFaults>>
  BY DEF ArmRefresh, connectionVars, RefreshSafe, RunBooks
<1>2. \/ /\ refresh' = refresh /\ refreshClaim' = Forget(refreshClaim, t)
         /\ refreshRun' = [refreshRun EXCEPT ![t] = [at |-> "idle", row |-> None]]
      \/ /\ refresh[a].status = "CLAIMED" /\ refreshClaim' = Forget(refreshClaim, t)
         /\ refresh' = [refresh EXCEPT ![a].status = "SUPERSEDED"]
         /\ refreshRun' = [refreshRun EXCEPT ![t] = [at |-> "idle", row |-> None]]
      \/ /\ refresh[a].status = "CLAIMED" /\ ~PriorSend(a) /\ refreshClaim' = refreshClaim
         /\ refresh' = [refresh EXCEPT ![a].status = "REQUEST_ARMED", ![a].armed = TRUE]
         /\ refreshRun' = [refreshRun EXCEPT ![t].at = "armed"]
  BY DEF ArmRefresh, Goes, RunEnds, Current
<1>3. RefreshTypeOK'
  <2>1. refresh' \in RowType
    <3>1. /\ refresh \in RowType /\ [refresh EXCEPT ![a].status = "SUPERSEDED"] \in RowType
          /\ [refresh EXCEPT ![a].status = "REQUEST_ARMED", ![a].armed = TRUE] \in RowType
      BY <1>1, RowTyped, StatusNames
    <3> QED BY <1>2, <3>1
  <2>2. refreshRun' \in RunType
    BY <1>1, <1>2, RunTyped
  <2>3. refreshClaim' \in [Refresh -> Task \cup {None}]
    BY <1>1, <1>2 DEF RefreshSafe, RefreshTypeOK, Forget
  <2> QED BY SMTT(90), <1>1, <2>1, <2>2, <2>3 DEF RefreshSafe, RefreshTypeOK, RunType,
    RowType
<1>4. /\ \A u \in Task \ {t} : refreshRun'[u] = refreshRun[u]
      /\ \A b \in Refresh \ {a} : refresh'[b] = refresh[b]
      /\ refresh'[a].review = refresh[a].review /\ refresh'[a].credential = refresh[a].credential
      /\ \/ /\ refreshRun'[t].at = "idle" /\ refresh'[a].armed = refresh[a].armed
            /\ refresh'[a].status \in {refresh[a].status, "SUPERSEDED"}
         \/ /\ refreshRun'[t] = [at |-> "armed", row |-> a] /\ refresh'[a].armed
            /\ refresh[a].status = "CLAIMED" /\ refresh'[a].status = "REQUEST_ARMED"
            /\ ~PriorSend(a)
  BY <1>1, <1>2 DEF RefreshSafe, RefreshTypeOK
<1> HIDE DEF a
<1>5. RowBooks'
  BY <1>1, <1>4 DEF RefreshSafe, RowBooks
<1>6. OneActiveRefresh'
  <2>1. ActiveKept
    BY <1>1, <1>4 DEF ActiveKept, RefreshActive
  <2> QED BY <2>1, ActiveStay
<1>7. RefreshWatched'
  <2>1. WatchKept
    BY <1>1, <1>4 DEF WatchKept, Waiting
  <2> QED BY <2>1, WatchStays
<1>8. AnswerBooks'
  <2>1. \A b \in Refresh : (\E u \in Task : refreshRun'[u] = [at |-> "answered", row |-> b]) =>
                           \E u \in Task : refreshRun[u] = [at |-> "answered", row |-> b]
    BY <1>4
  <2> QED BY <1>1, <1>4, <2>1 DEF RefreshSafe, AnswerBooks
<1>9. RunBooks'
  BY <1>1, <1>4 DEF RefreshSafe, RunBooks
<1>10. CASE refreshRun'[t].at = "idle"
  <2>1. TokensKept
    BY <1>1, <1>4, <1>10 DEF TokensKept
  <2> QED BY <1>3, <1>5, <1>6, <1>7, <1>8, <2>1, TokensStay DEF RefreshSafe
<1>11. CASE refreshRun'[t].at # "idle"
  <2>1. /\ refreshRun'[t] = [at |-> "armed", row |-> a] /\ refresh'[a].armed
        /\ refresh[a].status = "CLAIMED" /\ ~refresh[a].armed
        /\ \A b \in Refresh \ {a} : ~(refresh[b].armed /\ refresh[b].credential = refresh[a].credential)
    BY <1>1, <1>4, <1>11 DEF PriorSend, RefreshSafe, RowBooks
  <2>2. posted[refresh[a].credential] = 0
    <3>1. refresh[a].credential \in Revisions
      BY <1>1 DEF RefreshSafe, RefreshTypeOK
    <3>2. posted[refresh[a].credential] \in Nat
      BY <3>1 DEF RefreshSafe, RefreshTypeOK
    <3> QED BY <2>1, <3>1, <3>2 DEF RefreshSafe, SpentIsRemembered
  <2>3. TokenSpentOnce'
    BY <1>1, <1>4, <2>1 DEF RefreshSafe, TokenSpentOnce
  <2>4. SpentIsRemembered'
    BY <1>1, <1>4, <2>1 DEF RefreshSafe, SpentIsRemembered
  <2>5. ArmedBooks'
    <3>1. \A u \in Task \ {t} : refreshRun[u].at = "armed" => refreshRun[u].row # a
      BY <2>1 DEF RefreshSafe, ArmedBooks
    <3>2. \A u \in Task \ {t} : refreshRun[u].at = "armed" =>
            /\ refreshRun[u].row \in Refresh /\ refresh'[refreshRun[u].row] = refresh[refreshRun[u].row]
      BY <1>4, <3>1 DEF RefreshSafe, RunBooks
    <3> QED BY <1>1, <1>4, <2>1, <2>2, <3>1, <3>2 DEF RefreshSafe, ArmedBooks
  <2> QED BY <1>3, <1>5, <1>6, <1>7, <1>8, <1>9, <2>3, <2>4, <2>5 DEF RefreshSafe
<1> QED BY <1>10, <1>11

LEMMA PostTokenStep ==
  ASSUME RefreshSafe, NEW t \in Task, PostToken(t)
  PROVE  RefreshSafe'
<1> DEFINE a == refreshRun[t].row
           c == refresh[a].credential
<1>1. /\ refreshRun[t].at = "armed" /\ a \in Refresh /\ refresh[a].status # "NONE"
      /\ c \in Revisions /\ refresh[a].armed /\ posted[c] = 0
      /\ \A u \in Task \ {t} : refreshRun[u] # refreshRun[t]
      /\ posted' = [posted EXCEPT ![c] = @ + 1] /\ askedWith' = [askedWith EXCEPT ![a] = owner]
      /\ UNCHANGED <<connection, owner, refresh, refreshClaim, authorization, refreshQueue,
                     refreshFaults>>
  BY DEF PostToken, connectionVars, RefreshSafe, RunBooks, ArmedBooks, RefreshTypeOK
<1>2. PICK place \in {"answered", "failing"} : refreshRun' = [refreshRun EXCEPT ![t].at = place]
  BY DEF PostToken, Goes
<1>3. RefreshTypeOK'
  <2>1. refreshRun' \in RunType
    BY <1>2, RunTyped
  <2>2. posted' \in [Revisions -> Nat]
    BY <1>1 DEF RefreshSafe, RefreshTypeOK
  <2>3. askedWith' \in [Refresh -> Refresh \cup Authorization \cup {None}]
    BY <1>1 DEF RefreshSafe, RefreshTypeOK
  <2> QED BY <1>1, <2>1, <2>2, <2>3 DEF RefreshSafe, RefreshTypeOK, RunType
<1>4. /\ \A u \in Task \ {t} : refreshRun'[u] = refreshRun[u]
      /\ refreshRun'[t].at \in {"answered", "failing"} /\ refreshRun'[t].row = a
      /\ posted'[c] = 1 /\ \A d \in Revisions \ {c} : posted'[d] = posted[d]
      /\ askedWith'[a] = owner /\ \A b \in Refresh \ {a} : askedWith'[b] = askedWith[b]
  BY <1>1, <1>2 DEF RefreshSafe, RefreshTypeOK
<1> HIDE DEF a, c
<1>5. TokenSpentOnce' /\ SpentIsRemembered'
  BY <1>1, <1>4 DEF RefreshSafe, TokenSpentOnce, SpentIsRemembered, c
<1>6. OneActiveRefresh'
  BY <1>1 DEF RefreshSafe, OneActiveRefresh
<1>7. RefreshWatched'
  <2>1. WatchKept
    BY <1>1, <1>4 DEF WatchKept
  <2> QED BY <2>1, WatchStays
<1>8. RowBooks' /\ RunBooks'
  BY <1>1, <1>4 DEF RefreshSafe, RowBooks, RunBooks
<1>9. AnswerBooks'
  <2>1. \A b \in Refresh \ {a} :
          (\E u \in Task : refreshRun'[u] = [at |-> "answered", row |-> b]) =>
          \E u \in Task : refreshRun[u] = [at |-> "answered", row |-> b]
    BY <1>4
  <2> QED BY <1>1, <1>4, <2>1 DEF RefreshSafe, AnswerBooks
<1>10. ArmedBooks'
  <2> SUFFICES ASSUME NEW u \in Task, refreshRun'[u].at = "armed"
               PROVE  /\ refresh[refreshRun'[u].row].armed
                      /\ posted'[refresh[refreshRun'[u].row].credential] = 0
                      /\ \A v \in Task \ {u} : refreshRun'[v] # refreshRun'[u]
    BY <1>1 DEF ArmedBooks
  <2>1. /\ u # t /\ refreshRun'[u] = refreshRun[u] /\ refreshRun[u].row \in Refresh
        /\ refresh[refreshRun[u].row].credential \in Revisions
        /\ refresh[refreshRun[u].row].armed
        /\ posted[refresh[refreshRun[u].row].credential] = 0
        /\ \A v \in Task \ {u} : refreshRun[v] # refreshRun[u]
    BY <1>4 DEF RefreshSafe, ArmedBooks, RunBooks, RefreshTypeOK
  <2>2. refreshRun[u].row # a
    <3>1. /\ refreshRun[t] = [at |-> "armed", row |-> a]
          /\ refreshRun[u] = [at |-> "armed", row |-> refreshRun[u].row]
      BY <1>1, <1>4, <2>1 DEF RefreshSafe, RefreshTypeOK, a
    <3> QED BY <1>1, <2>1, <3>1
  <2>3. refresh[refreshRun[u].row].credential # c
    BY <1>1, <2>1, <2>2 DEF RefreshSafe, TokenSpentOnce, c
  <2>4. \A v \in Task \ {u} : refreshRun'[v] # refreshRun'[u]
    BY <1>4, <2>1
  <2> QED BY <1>4, <2>1, <2>3, <2>4
<1> QED BY <1>3, <1>5, <1>6, <1>7, <1>8, <1>9, <1>10 DEF RefreshSafe

LEMMA TakeRefreshStep ==
  ASSUME RefreshSafe, NEW t \in Task, NEW a \in Refresh, TakeRefresh(t, a)
  PROVE  RefreshSafe'
<1>1. /\ refreshRun[t].at = "idle" /\ a \in refreshQueue /\ refresh[a].status # "NONE"
      /\ refreshQueue' = refreshQueue \ {a}
      /\ refreshRun' = [refreshRun EXCEPT ![t] = [at |-> "taken", row |-> a]]
      /\ UNCHANGED <<connection, owner, refresh, refreshClaim, authorization, posted, askedWith,
                     refreshFaults>>
  BY DEF TakeRefresh, connectionVars, RefreshSafe, RowBooks
<1>2. /\ \A u \in Task \ {t} : refreshRun'[u] = refreshRun[u]
      /\ refreshRun'[t] = [at |-> "taken", row |-> a]
  BY <1>1 DEF RefreshSafe, RefreshTypeOK
<1>3. RefreshTypeOK'
  BY <1>1 DEF RefreshSafe, RefreshTypeOK
<1>4. TokensKept
  BY <1>1, <1>2 DEF TokensKept
<1>5. RowsKept
  BY <1>1 DEF RefreshSafe, RowBooks, RowsKept, Fresh, Waiting
<1>6. OneActiveRefresh'
  BY <1>1 DEF RefreshSafe, OneActiveRefresh
<1>7. RefreshWatched'
  <2> SUFFICES ASSUME NEW b \in Refresh, refresh[b].status \in Waiting, b \notin refreshQueue'
               PROVE  \E u \in Task : refreshRun'[u] = [at |-> "taken", row |-> b]
    BY <1>1 DEF RefreshWatched, Waiting
  <2>1. CASE b = a
    BY <1>2, <2>1
  <2>2. CASE b # a
    <3>1. PICK u \in Task : refreshRun[u] = [at |-> "taken", row |-> b]
      BY <1>1, <2>2 DEF RefreshSafe, RefreshWatched, Waiting
    <3>2. u # t
      BY <1>1, <3>1
    <3> QED BY <1>2, <3>1, <3>2
  <2> QED BY <2>1, <2>2
<1>8. AnswersKept
  <2>1. \A b \in Refresh : (\E u \in Task : refreshRun'[u] = [at |-> "answered", row |-> b]) =>
                           \E u \in Task : refreshRun[u] = [at |-> "answered", row |-> b]
    BY <1>2
  <2> QED BY <1>1, <2>1 DEF AnswersKept
<1> QED BY <1>3, <1>4, <1>5, <1>6, <1>7, <1>8, TokensStay, RowsStay, AnswersStay
  DEF RefreshSafe

LEMMA NewRefreshStep ==
  ASSUME RefreshSafe, NewRefresh
  PROVE  RefreshSafe'
<1>1. PICK a \in Refresh :
        /\ refresh[a].status = "NONE"
        /\ refresh' = [refresh EXCEPT ![a].status = "PENDING",
                                      ![a].credential = connection.credential,
                                      ![a].grant = connection.grant]
        /\ refreshQueue' = refreshQueue \cup {a}
  BY DEF NewRefresh
<1>2. /\ Concerned = {}
      /\ UNCHANGED <<connection, owner, refreshClaim, authorization, refreshRun, posted, askedWith,
                     refreshFaults>>
  BY DEF NewRefresh, connectionVars
<1>3. RefreshTypeOK'
  <2>1. refresh \in RowType /\ "PENDING" \in RefreshStatus
    BY RowTyped, StatusNames
  <2>2. refresh' \in RowType
    <3> DEFINE new == [refresh[a] EXCEPT !.status = "PENDING",
                         !.credential = connection.credential, !.grant = connection.grant]
    <3>1. new \in [status : RefreshStatus, credential : Revisions, grant : Nat, live : BOOLEAN,
                   armed : BOOLEAN, review : BOOLEAN]
      BY <1>1, <2>1, ConnectionTyped DEF RowType
    <3>2. refresh' = [refresh EXCEPT ![a] = new]
      BY <1>1, <2>1 DEF RowType
    <3> HIDE DEF new
    <3> QED BY <2>1, <3>1, <3>2 DEF RowType
  <2> QED BY SMTT(90), <1>1, <1>2, <2>2 DEF RefreshSafe, RefreshTypeOK, RowType
<1>4. /\ \A b \in Refresh \ {a} : refresh'[b] = refresh[b]
      /\ refresh'[a].status = "PENDING" /\ refresh'[a].credential = connection.credential
      /\ refresh'[a].armed = refresh[a].armed /\ refresh'[a].review = refresh[a].review
  BY <1>1 DEF RefreshSafe, RefreshTypeOK
<1>5. \A b \in Refresh : refresh[b].status \in RefreshActive =>
                         refresh[b].credential # connection.credential
  BY <1>2 DEF Concerned, RefreshActive
<1>6. TokensKept
  BY <1>1, <1>2, <1>4 DEF TokensKept
<1>7. RowsKept
  <2>1. /\ refresh'[a].credential <= connection'.credential
        /\ \A b \in Refresh : refresh[b].credential <= connection'.credential
    BY <1>2, <1>4, ConnectionTyped DEF RefreshSafe, RowBooks
  <2>2. \A b \in refreshQueue' : b \in Refresh => refresh'[b].status # "NONE"
    BY ZenonT(90), <1>1, <1>4 DEF RefreshSafe, RowBooks
  <2> QED BY ZenonT(90), <1>1, <1>4, <2>1, <2>2 DEF RowsKept, Fresh, Waiting
<1>8. OneActiveRefresh'
  <2> SUFFICES ASSUME NEW b \in Refresh, NEW d \in Refresh, b # d,
                      refresh'[b].status \in RefreshActive, refresh'[d].status \in RefreshActive
               PROVE  refresh'[b].credential # refresh'[d].credential
    BY DEF OneActiveRefresh
  <2> QED BY <1>4, <1>5 DEF RefreshSafe, OneActiveRefresh
<1>9. WatchKept
  BY <1>1, <1>2, <1>4 DEF WatchKept, Waiting
<1>10. AnswerBooks'
  <2>1. \A u \in Task : refreshRun[u] # [at |-> "answered", row |-> a]
    BY <1>1 DEF RefreshSafe, RunBooks
  <2> QED BY <1>2, <1>4, <2>1 DEF RefreshSafe, AnswerBooks
<1> QED BY <1>3, <1>6, <1>7, <1>8, <1>9, <1>10, TokensStay, RowsStay, WatchStays
  DEF RefreshSafe

----------------------------------------------------------------------------
(* The administrator.                                                       *)

AuthorizationType == [Authorization -> [status : AuthorizationStatus, fresh : BOOLEAN,
                                        credential : Revisions, grant : Nat]]

LEMMA AuthorizationTyped ==
  ASSUME RefreshSafe, NEW x \in Authorization,
         NEW s \in {"CLAIMED", "CANDIDATE_READY", "RESULT_UNKNOWN", "FAILED", "CANCELLED", "ACCEPTED"}
  PROVE  /\ [authorization EXCEPT ![x].status = s] \in AuthorizationType
         /\ [authorization EXCEPT ![x].fresh = FALSE] \in AuthorizationType
         /\ Cancelled(Authorization) \in AuthorizationType
         /\ [Cancelled(Authorization) EXCEPT
              ![x] = [status |-> "PENDING", fresh |-> TRUE, credential |-> connection.credential,
                      grant |-> connection.grant]] \in AuthorizationType
<1>1. authorization \in AuthorizationType
  BY DEF RefreshSafe, RefreshTypeOK, AuthorizationType
<1>2. s \in AuthorizationStatus /\ {"PENDING", "CANCELLED"} \subseteq AuthorizationStatus
  BY DEF AuthorizationStatus, Redeemed
<1>3. Cancelled(Authorization) \in AuthorizationType
  BY <1>1, <1>2 DEF Cancelled, AuthorizationType
<1>4. /\ [authorization EXCEPT ![x].status = s] \in AuthorizationType
      /\ [authorization EXCEPT ![x].fresh = FALSE] \in AuthorizationType
  BY <1>1, <1>2 DEF AuthorizationType
<1>5. [status |-> "PENDING", fresh |-> TRUE, credential |-> connection.credential,
       grant |-> connection.grant] \in
        [status : AuthorizationStatus, fresh : BOOLEAN, credential : Revisions, grant : Nat]
  BY <1>2, ConnectionTyped
<1>6. [Cancelled(Authorization) EXCEPT
        ![x] = [status |-> "PENDING", fresh |-> TRUE, credential |-> connection.credential,
                grant |-> connection.grant]] \in AuthorizationType
  BY <1>3, <1>5 DEF AuthorizationType
<1> QED BY <1>3, <1>4, <1>6

\* A step that changes authorizations only.
LEMMA OnlyAuthorization ==
  ASSUME RefreshSafe, authorization' \in AuthorizationType, UNCHANGED onlyAuthorization
  PROVE  RefreshSafe'
<1>1. RefreshTypeOK'
  BY DEF RefreshSafe, RefreshTypeOK, onlyAuthorization, connectionVars, AuthorizationType
<1>2. TokensKept /\ ActiveKept /\ WatchKept /\ AnswersKept
  BY DEF TokensKept, ActiveKept, WatchKept, AnswersKept, onlyAuthorization, connectionVars
<1>3. RowsKept
  BY DEF RefreshSafe, RowBooks, RowsKept, onlyAuthorization, connectionVars
<1> QED BY <1>1, <1>2, <1>3, AllKept

LEMMA AuthorizationStep ==
  ASSUME RefreshSafe, NEW x \in Authorization,
         \/ StartAuthorization(x) \/ ClaimCode(x) \/ StoreCandidate(x) \/ CancelCallback(x)
         \/ AuthorizationLapses(x)
  PROVE  RefreshSafe'
<1>1. UNCHANGED onlyAuthorization
  BY DEF StartAuthorization, ClaimCode, StoreCandidate, CancelCallback, AuthorizationLapses
<1>2. authorization' \in AuthorizationType
  BY ZenonT(90), AuthorizationTyped DEF StartAuthorization, ClaimCode, StoreCandidate,
     CancelCallback,
                            AuthorizationLapses
<1> QED BY <1>1, <1>2, OnlyAuthorization

LEMMA ConnectionStep ==
  ASSUME RefreshSafe, Disable \/ \E x \in Authorization : AcceptCandidate(x)
  PROVE  RefreshSafe'
<1>1. UNCHANGED <<refresh, refreshClaim, refreshQueue, refreshRun, posted, askedWith, refreshFaults>>
  BY DEF Disable, AcceptCandidate
<1>2. /\ authorization' \in AuthorizationType /\ connection' \in ConnectionType
      /\ owner' \in Refresh \cup Authorization \cup {None}
      /\ \/ connection'.credential = connection.credential /\ owner' = owner
         \/ connection'.credential = connection.credential + 1
  <2>1. owner \in Refresh \cup Authorization \cup {None} /\ connection \in ConnectionType
    BY ConnectionTyped DEF RefreshSafe, RefreshTypeOK
  <2>2. CASE Disable
    <3>1. Cancelled(Authorization) \in AuthorizationType
      <4>1. authorization \in AuthorizationType /\ "CANCELLED" \in AuthorizationStatus
        BY DEF RefreshSafe, RefreshTypeOK, AuthorizationType, AuthorizationStatus
      <4> QED BY <4>1 DEF Cancelled, AuthorizationType
    <3>2. connection' \in ConnectionType /\ connection'.credential = connection.credential
      BY <2>1, <2>2, ConnectionTyped DEF Disable, ConnectionType
    <3> QED BY <2>1, <2>2, <3>1, <3>2 DEF Disable
  <2>3. ASSUME NEW x \in Authorization, AcceptCandidate(x)
        PROVE  /\ authorization' \in AuthorizationType /\ connection' \in ConnectionType
               /\ owner' \in Authorization
               /\ connection'.credential = connection.credential + 1
    <3>1. connection.credential + 1 \in Revisions /\ connection.grant + 1 \in Nat
      BY <2>3, ConnectionTyped DEF AcceptCandidate
    <3> QED BY <2>3, <3>1, AuthorizationTyped DEF AcceptCandidate, ConnectionType
  <2> QED BY <2>1, <2>2, <2>3
<1>3. connection.credential \in Nat /\ \A b \in Refresh : refresh[b].credential \in Nat
  BY ConnectionTyped
<1>4. RefreshTypeOK'
  BY <1>1, <1>2 DEF RefreshSafe, RefreshTypeOK, AuthorizationType, ConnectionType
<1>5. TokensKept /\ ActiveKept /\ WatchKept
  BY <1>1 DEF TokensKept, ActiveKept, WatchKept
<1>6. RowsKept
  BY <1>1, <1>2, <1>3 DEF RefreshSafe, RowBooks, RowsKept
<1>7. AnswersKept
  BY <1>1, <1>2, <1>3 DEF AnswersKept
<1> QED BY <1>4, <1>5, <1>6, <1>7, AllKept

----------------------------------------------------------------------------

LEMMA RefreshSafeInit == RefreshInit => RefreshSafe
<1> SUFFICES ASSUME RefreshInit PROVE RefreshSafe
  OBVIOUS
<1>1. RefreshTypeOK
  BY TasksOK, RefreshOK DEF RefreshInit, RefreshTypeOK, RefreshStatus, AuthorizationStatus,
     Revisions
<1> QED BY <1>1 DEF RefreshInit, RefreshSafe, TokenSpentOnce, SpentIsRemembered,
  OneActiveRefresh,
                    RefreshWatched, RowBooks, AnswerBooks, RunBooks, ArmedBooks, RefreshActive, Revisions

LEMMA RefreshSafeStep == RefreshSafe /\ [RefreshNext]_refreshVars => RefreshSafe'
<1> SUFFICES ASSUME RefreshSafe, [RefreshNext]_refreshVars PROVE RefreshSafe'
  OBVIOUS
<1>1. CASE NewRefresh \/ QueueAgain
  BY <1>1, NewRefreshStep, QueueAgainStep
<1>2. ASSUME NEW t \in Task, RefreshTask(t) PROVE RefreshSafe'
  BY <1>2, LeaveSuccessorStep, ClaimRefreshStep, ArmRefreshStep, PostTokenStep,
     StoreReceiptStep,
     RefreshFailsStep, PublishRefreshStep DEF RefreshTask
<1>3. ASSUME NEW t \in Task, RefreshDenied(t) \/ KillRefresh(t) PROVE RefreshSafe'
  BY <1>3, RefreshDeniedStep, KillRefreshStep
<1>4. ASSUME NEW t \in Task, NEW a \in Refresh, TakeRefresh(t, a) PROVE RefreshSafe'
  BY <1>4, TakeRefreshStep
<1>5. ASSUME NEW a \in Refresh, ClaimLapses(a) PROVE RefreshSafe'
  BY <1>5, ClaimLapsesStep
<1>6. CASE Administrator
  BY <1>6, ConnectionStep, RecoverReceiptStep, AuthorizationStep DEF Administrator
<1>7. ASSUME NEW x \in Authorization, AuthorizationLapses(x) PROVE RefreshSafe'
  BY SMTT(90), <1>7, AuthorizationStep
<1>8. CASE UNCHANGED refreshVars
  BY <1>8 DEF refreshVars, connectionVars, RefreshSafe, RefreshTypeOK, TokenSpentOnce,
     SpentIsRemembered, OneActiveRefresh, RefreshWatched, RowBooks, AnswerBooks, RunBooks, ArmedBooks
<1> QED BY <1>1, <1>2, <1>3, <1>4, <1>5, <1>6, <1>7, <1>8 DEF RefreshNext

\* No refresh token is sent twice, an attempt that was armed is remembered, attempts of a
\* revision are not unfinished together, and each that waits for work has a message: in
\* every state, whatever tasks are killed and whatever administrators do
\* (process_mcp_refresh, ensure_mcp_credentials, refresh_mcp).
THEOREM RefreshIsSafe == RefreshSpec => []RefreshSafe
BY RefreshSafeInit, RefreshSafeStep, PTL DEF RefreshSpec

\* Credentials change hands only from those an answer was asked with to that answer, and a
\* disabled connection stays as it is (_publish, recover_mcp_refresh_receipt,
\* _publish_authorization).
LEMMA OwnerStep ==
  ASSUME RefreshSafe, RefreshNext
  PROVE  /\ owner' # owner /\ owner' \in Refresh => askedWith[owner'] = owner
         /\ connection.status = "DISABLED" => connection' = connection
<1>1. ASSUME NEW a \in Refresh, NEW recovering \in BOOLEAN, refresh[a].status = "CANDIDATE_READY",
             Current(a, recovering), Continue(a)
      PROVE  askedWith[owner'] = owner /\ connection.status # "DISABLED"
  BY <1>1 DEF Current, Continue, RefreshSafe, AnswerBooks
<1>2. ASSUME NEW t \in Task, PublishRefresh(t)
      PROVE  /\ owner' # owner => askedWith[owner'] = owner
             /\ connection.status = "DISABLED" => connection' = connection
  <2>1. refreshRun[t].row \in Refresh
    BY <1>2 DEF PublishRefresh, RefreshSafe, RunBooks
  <2>2. CASE Continue(refreshRun[t].row)
    BY <1>1, <1>2, <2>1, <2>2 DEF PublishRefresh, connectionVars
  <2>3. CASE ~Continue(refreshRun[t].row)
    BY <1>2, <2>3 DEF PublishRefresh, Current, connectionVars
  <2> QED BY <2>2, <2>3
<1>3. ASSUME NEW a \in Refresh, RecoverReceipt(a)
      PROVE  askedWith[owner'] = owner /\ connection.status # "DISABLED"
  BY <1>1, <1>3 DEF RecoverReceipt
<1>4. ASSUME NEW x \in Authorization, AcceptCandidate(x)
      PROVE  owner' \notin Refresh /\ connection.status # "DISABLED"
  BY <1>4, RefreshOK DEF AcceptCandidate
<1>5. CASE Disable
  BY <1>5 DEF Disable
<1>6. CASE UNCHANGED <<connection, owner>>
  BY <1>6
<1>7. \/ \E t \in Task : PublishRefresh(t)
      \/ \E a \in Refresh : RecoverReceipt(a)
      \/ \E x \in Authorization : AcceptCandidate(x)
      \/ Disable
      \/ UNCHANGED <<connection, owner>>
  <2>1. ASSUME NEW t \in Task, RefreshTask(t), ~PublishRefresh(t) PROVE UNCHANGED <<connection, owner>>
    BY <2>1 DEF RefreshTask, LeaveSuccessor, ClaimRefresh, ArmRefresh, PostToken,
       StoreReceipt, RefreshFails, connectionVars
  <2>2. ASSUME NEW x \in Authorization,
               \/ StartAuthorization(x) \/ ClaimCode(x) \/ StoreCandidate(x) \/ CancelCallback(x)
               \/ AuthorizationLapses(x)
        PROVE  UNCHANGED <<connection, owner>>
    BY <2>2 DEF StartAuthorization, ClaimCode, StoreCandidate, CancelCallback,
       AuthorizationLapses, onlyAuthorization, connectionVars
  <2>3. ASSUME \/ NewRefresh \/ QueueAgain
               \/ \E t \in Task : \/ RefreshDenied(t) \/ KillRefresh(t)
                                  \/ \E a \in Refresh : TakeRefresh(t, a)
               \/ \E a \in Refresh : ClaimLapses(a)
        PROVE  UNCHANGED <<connection, owner>>
    BY <2>3 DEF NewRefresh, QueueAgain, RefreshDenied, KillRefresh, TakeRefresh,
       ClaimLapses, connectionVars
  <2> QED BY <2>1, <2>2, <2>3 DEF RefreshNext, Administrator
<1> QED BY <1>2, <1>3, <1>4, <1>5, <1>6, <1>7

\* An answer to a refresh replaces the credentials it was asked with and no others, however
\* late it is published, and nothing revives a disabled connection (_publish,
\* recover_mcp_refresh_receipt).
THEOREM AnswersAreFollowed == RefreshSpec => AnswersFollowQuestions
<1>1. RefreshSafe /\ [RefreshNext]_refreshVars =>
        [ /\ owner' # owner /\ owner' \in Refresh => askedWith[owner'] = owner
          /\ connection.status = "DISABLED" => connection' = connection ]_refreshVars
  BY OwnerStep
<1> QED BY <1>1, RefreshIsSafe, PTL DEF RefreshSpec, AnswersFollowQuestions

--------------------------------------------------------------------------
(* The sessions of a provider.                                            *)

\* The session was made with the credentials of this version.
Made(s, version) == s \in DOMAIN madeFor /\ madeFor[s] = version

Renews(t) == sessionRun[t].at \in {"calling", "answered"}

InUseWasMade ==
  conn.status \in {"active", "reauth_required"} => Made(conn.session, conn.version)

CandidateWasMade ==
  /\ renewal.candidate # 0 => Made(renewal.candidate, renewal.version)
  /\ renewal.phase \in {"applications", "options"} => renewal.candidate # 0

\* What a run carries from one phase to the next, or brings from a login.
RunWasMade(run) ==
  /\ run.at \in {"calling", "answered"} /\ run.phase # "login" => Made(run.session, run.version)
  /\ run.at \in {"answered", "verified"} /\ run.answer = "done"
       => Made(run.session, run.version)
  /\ run.at = "verified" /\ run.answer = "done" => run.seen \in [App -> Config]

RunsWereMade == \A t \in Task : RunWasMade(sessionRun[t])

\* The run that holds the claim renews what the row says.
HolderRenews ==
  \A t \in Task : renewalHolder = t /\ Renews(t) =>
    renewal.version = sessionRun[t].version /\ renewal.token = sessionRun[t].token

\* A token that will be issued stands for nothing yet.
TokensAreFresh ==
  /\ \A p \in promised : p[1] <= tokens
  /\ conn.token # None => conn.token <= tokens
  /\ renewal.token <= tokens

\* What the token in force stands for is what the applications have; while it is being
\* verified it stands for nothing.
PromisesAreStored ==
  \A p \in promised : p[1] = conn.token =>
    app[p[2]] = [token |-> conn.token, config |-> p[3]] /\ conn.status # "verifying"

\* A renewal that is over is not the renewal that a lost session waits for.
EndsOfRenewals ==
  /\ conn.status = "reauth_required" => renewal.phase # "complete"
  /\ renewal.phase = "failed" /\ renewal.version = conn.version /\ renewal.token = conn.token
       => conn.status = "error"

SessionInv ==
  /\ SessionTypeOK /\ MarkedIsExpired /\ ProofKeepsConfig
  /\ InUseWasMade /\ CandidateWasMade /\ RunsWereMade /\ HolderRenews
  /\ TokensAreFresh /\ PromisesAreStored /\ EndsOfRenewals

LEMMA SessionConstants ==
  /\ None \notin Nat /\ None \notin Task /\ MaxAttempts \in Nat /\ MaxAttempts > 0
  /\ MaxTroubles \in Nat /\ 0 \in Config /\ 1 \in Config /\ Config \subseteq Nat
  /\ Unread \in Nat /\ Unread \notin Config
BY SessionOK, TasksOK DEF Config, Unread

LEMMA SessionInitially == SessionInit => SessionInv
<1> SUFFICES ASSUME SessionInit PROVE SessionInv
  OBVIOUS
<1> USE SessionConstants
<1>1. /\ Len(madeFor) = 1 /\ madeFor[1] = 0 /\ madeFor \in Seq(Nat) /\ DOMAIN madeFor = {1}
  BY DEF SessionInit
<1>2. PICK offered \in SUBSET App :
        /\ offer = [a \in App |-> IF a \in offered THEN 1 ELSE 0]
        /\ promised = {<<1, a, 1>> : a \in offered}
  BY DEF SessionInit
<1>3. /\ \A a \in App : offer[a] \in Config
      /\ app = [a \in App |-> [token |-> offer[a], config |-> offer[a]]]
      /\ \A p \in promised : p[1] = 1 /\ p[2] \in offered /\ p[3] = 1 /\ p = <<1, p[2], 1>>
  BY <1>2 DEF SessionInit
<1>4. SessionTypeOK
  <2>1. renewal \in RenewalType /\ conn \in ConnType
    BY DEF SessionInit, NoRenewal, RenewalType, ConnType
  <2>2. app \in [App -> [token : Nat, config : Config]] /\ offer \in [App -> Config]
    BY <1>2, <1>3
  <2>3. promised \subseteq Nat \X App \X Config
    BY <1>2, <1>3
  <2>4. sessionRun \in [Task -> SessionRunType]
    BY DEF SessionInit, NoSessionRun, SessionRunType
  <2> QED BY <1>1, <2>1, <2>2, <2>3, <2>4 DEF SessionInit, SessionTypeOK
<1>5. MarkedIsExpired /\ InUseWasMade /\ CandidateWasMade /\ HolderRenews /\ EndsOfRenewals
  BY <1>1 DEF SessionInit, MarkedIsExpired, InUseWasMade, CandidateWasMade, HolderRenews,
              EndsOfRenewals, NoRenewal, Made
<1>6. RunsWereMade
  BY DEF SessionInit, RunsWereMade, RunWasMade, NoSessionRun
<1>7. ProofKeepsConfig /\ TokensAreFresh
  BY <1>3 DEF SessionInit, ProofKeepsConfig, TokensAreFresh, NoRenewal
<1>8. PromisesAreStored
  BY <1>2, <1>3 DEF SessionInit, PromisesAreStored
<1> QED BY <1>4, <1>5, <1>6, <1>7, <1>8 DEF SessionInv

--------------------------------------------------------------------------
(* The types of sessions.                                                 *)

LEMMA NoneOfSessions == NoSessionRun \in SessionRunType /\ NoRenewal \in RenewalType
BY SessionConstants DEF NoSessionRun, NoRenewal, SessionRunType, RenewalType

\* A login makes a session of a new number.
LEMMA LoginIs ==
  ASSUME madeFor \in Seq(Nat), NEW version \in Nat, LogIn(version)
  PROVE  /\ madeFor' \in Seq(Nat) /\ Len(madeFor') = Len(madeFor) + 1 /\ Len(madeFor) \in Nat
         /\ Len(madeFor') \in DOMAIN madeFor' /\ madeFor'[Len(madeFor')] = version
         /\ Len(madeFor') \notin DOMAIN madeFor
         /\ \A s \in DOMAIN madeFor : s \in DOMAIN madeFor' /\ madeFor'[s] = madeFor[s]
         /\ alive' = alive \cup {Len(madeFor')}
<1>1. madeFor' = Append(madeFor, version)
  BY DEF LogIn
<1>2. /\ madeFor' \in Seq(Nat) /\ Len(madeFor') = Len(madeFor) + 1 /\ Len(madeFor) \in Nat
      /\ DOMAIN madeFor = 1 .. Len(madeFor) /\ DOMAIN madeFor' = 1 .. (Len(madeFor) + 1)
      /\ \A s \in 1 .. Len(madeFor) : madeFor'[s] = madeFor[s]
      /\ madeFor'[Len(madeFor) + 1] = version
  BY <1>1, AppendProperties
<1>3. alive' = alive \cup {Len(madeFor')}
  BY DEF LogIn
<1> HIDE DEF LogIn
<1> QED BY <1>2, <1>3

\* Sessions stay those of their credentials, and no session comes to life again.
LEMMA SessionsStay ==
  ASSUME SessionTypeOK,
         \/ UNCHANGED madeFor /\ alive' \subseteq alive
         \/ \E version \in Nat : LogIn(version)
  PROVE  /\ \A s, v : Made(s, v) => Made(s, v)'
         /\ \A s \in DOMAIN madeFor : s \in alive' => s \in alive
         /\ madeFor' \in Seq(Nat) /\ (alive \subseteq Nat => alive' \subseteq Nat)
<1>1. CASE UNCHANGED madeFor /\ alive' \subseteq alive
  BY <1>1 DEF Made, SessionTypeOK
<1>2. ASSUME NEW version \in Nat, LogIn(version) PROVE
        /\ \A s, v : Made(s, v) => Made(s, v)'
        /\ \A s \in DOMAIN madeFor : s \in alive' => s \in alive
        /\ madeFor' \in Seq(Nat) /\ (alive \subseteq Nat => alive' \subseteq Nat)
  <2>1. madeFor \in Seq(Nat)
    BY DEF SessionTypeOK
  <2>2. Len(madeFor') \in Nat
    BY <1>2, <2>1, LoginIs
  <2> QED BY <1>2, <2>1, <2>2, LoginIs DEF Made
<1> QED BY <1>1, <1>2

--------------------------------------------------------------------------
(* What the steps of a task that calls leave as it is.                    *)

\* The tables stay, and sessions are made or expire.
TablesStay ==
  /\ UNCHANGED <<conn, app, promised, tokens, kind>>
  /\ renewal'.version = renewal.version /\ renewal'.token = renewal.token
  /\ renewal'.phase = renewal.phase /\ renewal'.candidate = renewal.candidate
  /\ \A s, v : Made(s, v) => Made(s, v)'
  /\ \A s \in DOMAIN madeFor : s \in alive' => s \in alive

LEMMA TablesHold ==
  ASSUME SessionInv, TablesStay
  PROVE  (/\ MarkedIsExpired /\ ProofKeepsConfig /\ InUseWasMade /\ CandidateWasMade
          /\ TokensAreFresh /\ PromisesAreStored /\ EndsOfRenewals)'
<1>1. InUseWasMade' /\ CandidateWasMade'
  BY DEF TablesStay, SessionInv, InUseWasMade, CandidateWasMade
<1>2. MarkedIsExpired'
  BY DEF TablesStay, SessionInv, InUseWasMade, MarkedIsExpired, Made
<1>3. ProofKeepsConfig' /\ TokensAreFresh' /\ PromisesAreStored' /\ EndsOfRenewals'
  BY DEF TablesStay, SessionInv, ProofKeepsConfig, TokensAreFresh, PromisesAreStored,
         EndsOfRenewals
<1> QED BY <1>1, <1>2, <1>3

\* One run goes on, the others stay.
LEMMA RunsHold ==
  ASSUME SessionInv, NEW t \in Task, NEW run, sessionRun' = [sessionRun EXCEPT ![t] = run],
         \A s, v : Made(s, v) => Made(s, v)', RunWasMade(run)'
  PROVE  RunsWereMade'
<1>1. \A u \in Task : sessionRun'[u] = IF u = t THEN run ELSE sessionRun[u]
  BY DEF SessionInv, SessionTypeOK
<1> QED BY <1>1 DEF SessionInv, RunsWereMade, RunWasMade

LEMMA HoldersHold ==
  ASSUME SessionInv, NEW t \in Task, NEW run, sessionRun' = [sessionRun EXCEPT ![t] = run],
         renewal'.version = renewal.version, renewal'.token = renewal.token,
         renewalHolder' \in {renewalHolder, None},
         \/ run.at \notin {"calling", "answered"}
         \/ /\ Renews(t) /\ run.version = sessionRun[t].version /\ run.token = sessionRun[t].token
  PROVE  HolderRenews'
<1>1. \A u \in Task : sessionRun'[u] = IF u = t THEN run ELSE sessionRun[u]
  BY DEF SessionInv, SessionTypeOK
<1> QED BY <1>1, SessionConstants DEF SessionInv, HolderRenews, Renews

\* Nothing of a run that is idle, uses a session or verifies needs to hold.
LEMMA SmallStep ==
  ASSUME SessionInv, SessionTypeOK', UNCHANGED <<conn, renewal, app, promised, tokens, kind, madeFor>>,
         alive' \subseteq alive, renewalHolder' \in {renewalHolder, None},
         \/ UNCHANGED sessionRun
         \/ \E t \in Task : \E run :
              /\ sessionRun' = [sessionRun EXCEPT ![t] = run]
              /\ run.at \notin {"calling", "answered", "verified"}
  PROVE  SessionInv'
<1>1. TablesStay
  BY DEF TablesStay, Made
<1>2. RunsWereMade' /\ HolderRenews'
  <2>1. CASE UNCHANGED sessionRun
    BY <2>1, SessionConstants DEF SessionInv, RunsWereMade, RunWasMade, HolderRenews,
       Renews, Made
  <2>2. ASSUME NEW t \in Task, NEW run, sessionRun' = [sessionRun EXCEPT ![t] = run],
               run.at \notin {"calling", "answered", "verified"}
        PROVE  RunsWereMade' /\ HolderRenews'
    <3>1. RunWasMade(run)'
      BY <2>2 DEF RunWasMade
    <3> QED BY <1>1, <2>2, <3>1, RunsHold, HoldersHold DEF TablesStay
  <2> QED BY <2>1, <2>2
<1> QED BY <1>1, <1>2, TablesHold DEF SessionInv

LEMMA UseSessionKeeps == ASSUME SessionInv, NEW t \in Task, UseSession(t) PROVE SessionInv'
<1> DEFINE run == [sessionRun[t] EXCEPT !.at = "using", !.version = conn.version,
                                        !.token = conn.token, !.session = conn.session]
<1>1. sessionRun[t] \in SessionRunType /\ conn \in ConnType /\ conn.token # None
  BY SessionConstants DEF SessionTypeOK, SessionInv, UseSession, Usable
<1>2. run \in SessionRunType /\ run.at = "using"
  BY <1>1 DEF SessionRunType, ConnType
<1>3. sessionRun' = [sessionRun EXCEPT ![t] = run]
  BY DEF UseSession, SessionInv, SessionTypeOK
<1> HIDE DEF run
<1>4. SessionTypeOK'
  <2>1. sessionRun' \in [Task -> SessionRunType]
    BY <1>2, <1>3 DEF SessionTypeOK, SessionInv
  <2>2. UNCHANGED <<conn, renewal, renewalHolder, app, tokens, promised, troubles, kind, offer,
                    alive, madeFor>>
    BY DEF UseSession, ProviderStays
  <2> QED BY <2>1, <2>2 DEF SessionTypeOK, SessionInv
<1>5. \E u \in Task : \E r : /\ sessionRun' = [sessionRun EXCEPT ![u] = r]
                             /\ r.at \notin {"calling", "answered", "verified"}
  BY <1>2, <1>3
<1>6. /\ UNCHANGED <<conn, renewal, app, promised, tokens, kind, madeFor>>
      /\ alive' \subseteq alive /\ renewalHolder' \in {renewalHolder, None}
  BY DEF UseSession, ProviderStays
<1> QED BY <1>4, <1>5, <1>6, SmallStep

LEMMA UseEndsKeeps == ASSUME SessionInv, NEW t \in Task, UseEnds(t) PROVE SessionInv'
<1>1. sessionRun' = [sessionRun EXCEPT ![t] = NoSessionRun] /\ NoSessionRun.at = "idle"
  BY DEF UseEnds, EndsSession, NoSessionRun
<1>2. SessionTypeOK'
  BY <1>1, NoneOfSessions DEF SessionTypeOK, UseEnds, ProviderStays, SessionInv
<1> QED BY <1>1, <1>2, SmallStep DEF UseEnds, ProviderStays

LEMMA KillSessionKeeps == ASSUME SessionInv, NEW t \in Task, KillSession(t) PROVE SessionInv'
<1>1. sessionRun' = [sessionRun EXCEPT ![t] = NoSessionRun] /\ NoSessionRun.at = "idle"
  BY DEF KillSession, EndsSession, NoSessionRun
<1>2. SessionTypeOK'
  BY <1>1, NoneOfSessions, SessionConstants
  DEF SessionTypeOK, KillSession, ProviderStays, Trouble, SessionInv
<1> QED BY <1>1, <1>2, SmallStep DEF KillSession, ProviderStays

LEMMA ProviderChangesKeeps ==
  ASSUME SessionInv, SessionExpires \/ OfferChanges PROVE SessionInv'
<1>1. troubles' \in 0 .. MaxTroubles
  BY SessionConstants DEF SessionExpires, OfferChanges, Trouble, SessionInv, SessionTypeOK
<1>2. offer' \in [App -> Config] /\ alive' \subseteq alive
  BY DEF SessionExpires, OfferChanges, SessionInv, SessionTypeOK
<1>3. UNCHANGED <<conn, renewal, renewalHolder, app, sessionRun, tokens, promised, kind, madeFor>>
  BY DEF SessionExpires, OfferChanges
<1>4. SessionTypeOK'
  BY <1>1, <1>2, <1>3 DEF SessionInv, SessionTypeOK
<1> QED BY <1>2, <1>3, <1>4, SmallStep

LEMMA RenewalTicksKeeps ==
  ASSUME SessionInv, RenewalDue \/ RenewalLapses PROVE SessionInv'
<1>1. renewal \in RenewalType
  BY DEF SessionTypeOK, SessionInv
<1>2. /\ renewal' \in RenewalType
      /\ renewal'.version = renewal.version /\ renewal'.token = renewal.token
      /\ renewal'.phase = renewal.phase /\ renewal'.candidate = renewal.candidate
  BY ZenonT(90), <1>1 DEF RenewalDue, RenewalLapses, RenewalType
<1>3. UNCHANGED <<conn, app, promised, tokens, kind, madeFor, alive, sessionRun, renewalHolder, offer>>
  BY DEF RenewalDue, RenewalLapses, ProviderStays
<1>4. troubles' \in 0 .. MaxTroubles
  BY SessionConstants DEF RenewalDue, RenewalLapses, Trouble, SessionInv, SessionTypeOK
<1>5. SessionTypeOK'
  BY <1>2, <1>3, <1>4 DEF SessionTypeOK, SessionInv
<1>6. TablesStay
  BY <1>2, <1>3 DEF TablesStay, Made
<1>7. RunsWereMade' /\ HolderRenews'
  BY <1>2, <1>3 DEF SessionInv, RunsWereMade, RunWasMade, HolderRenews, Renews, Made
<1> QED BY <1>5, <1>6, <1>7, TablesHold DEF SessionInv

--------------------------------------------------------------------------
(* Requests.                                                              *)

\* A run calls; its session may be made, the tables stay.
LEMMA CallingStep ==
  ASSUME SessionInv, UNCHANGED <<conn, renewal, renewalHolder, app, promised, tokens, kind, offer>>,
         troubles' \in 0 .. MaxTroubles,
         UNCHANGED <<madeFor, alive>> \/ \E version \in Nat : LogIn(version),
         NEW t \in Task, NEW run \in SessionRunType,
         sessionRun' = [sessionRun EXCEPT ![t] = run], RunWasMade(run)',
         \/ run.at \notin {"calling", "answered"}
         \/ /\ Renews(t) /\ run.version = sessionRun[t].version /\ run.token = sessionRun[t].token
  PROVE  SessionInv'
<1>1. /\ \A s, v : Made(s, v) => Made(s, v)'
      /\ \A s \in DOMAIN madeFor : s \in alive' => s \in alive
      /\ madeFor' \in Seq(Nat) /\ alive' \subseteq Nat
  BY SessionsStay DEF SessionInv, SessionTypeOK
<1>2. SessionTypeOK'
  BY <1>1 DEF SessionInv, SessionTypeOK
<1>3. TablesStay
  BY <1>1 DEF TablesStay
<1>4. RunsWereMade'
  BY <1>1, RunsHold
<1>5. HolderRenews'
  BY HoldersHold
<1> QED BY <1>2, <1>3, <1>4, <1>5, TablesHold DEF SessionInv

\* A login answers with the session that it made, the other requests with the session
\* that they were made with.
LEMMA CallIs ==
  ASSUME SessionInv, NEW t \in Task, CallProvider(t)
  PROVE  \E session \in Nat, seen \in [App -> Config \cup {Unread}],
            answer \in {"done", "expired", "unavailable", "failed"} :
           /\ Answers(t, answer, session, seen)
           /\ \/ /\ UNCHANGED <<madeFor, alive>> /\ session = sessionRun[t].session
                 /\ sessionRun[t].phase = "login" => answer # "done"
              \/ /\ LogIn(sessionRun[t].version) /\ sessionRun[t].phase = "login"
                 /\ session = Len(madeFor')
<1>1. /\ sessionRun[t] \in SessionRunType /\ offer \in [App -> Config] /\ madeFor \in Seq(Nat)
      /\ sessionRun[t].session \in Nat /\ sessionRun[t].seen \in [App -> Config \cup {Unread}]
      /\ sessionRun[t].version \in Nat
  BY DEF SessionInv, SessionTypeOK, SessionRunType
<1>2. CASE sessionRun[t].phase = "login" /\ LogIn(sessionRun[t].version)
           /\ Answers(t, "done", Len(madeFor'), sessionRun[t].seen)
  <2>1. Len(madeFor') \in Nat
    BY <1>1, <1>2, LoginIs
  <2> QED BY <1>1, <1>2, <2>1
<1>3. CASE UNCHANGED <<alive, madeFor>> /\ sessionRun[t].phase # "login"
           /\ \E answer \in {"failed", "expired"} :
                 Answers(t, answer, sessionRun[t].session, sessionRun[t].seen)
  BY <1>1, <1>3
<1>4. CASE UNCHANGED <<alive, madeFor>>
           /\ \E answer \in {"failed", "unavailable"} :
                 Answers(t, answer, sessionRun[t].session, sessionRun[t].seen)
  BY <1>1, <1>4
<1>5. ASSUME UNCHANGED <<alive, madeFor>>, sessionRun[t].phase # "login",
             NEW seen \in [App -> Config \cup {Unread}],
             Answers(t, "done", sessionRun[t].session, seen)
      PROVE  \E session \in Nat, seen2 \in [App -> Config \cup {Unread}],
                answer \in {"done", "expired", "unavailable", "failed"} :
               /\ Answers(t, answer, session, seen2)
               /\ UNCHANGED <<madeFor, alive>> /\ session = sessionRun[t].session
               /\ sessionRun[t].phase = "login" => answer # "done"
  BY <1>1, <1>5
<1>6. /\ offer \in [App -> Config \cup {Unread}]
      /\ \A a \in App : [sessionRun[t].seen EXCEPT ![a] = offer[a]] \in [App -> Config \cup {Unread}]
      /\ \A S : [a \in App |-> IF a \in S THEN Unread ELSE 0] \in [App -> Config \cup {Unread}]
  BY <1>1, SessionConstants
<1> DEFINE offered == {a \in App : offer[a] # 0}
<1>7. CASE sessionRun[t].phase = "applications" /\ UNCHANGED <<alive, madeFor>>
           /\ Answers(t, "done", sessionRun[t].session,
                      IF kind = "wangyan" THEN offer
                      ELSE [a \in App |-> IF a \in offered THEN Unread ELSE 0])
  <2>1. (IF kind = "wangyan" THEN offer ELSE [a \in App |-> IF a \in offered THEN Unread ELSE 0])
          \in [App -> Config \cup {Unread}]
    BY <1>6
  <2> HIDE DEF offered
  <2> QED BY <1>5, <1>7, <2>1
<1>8. CASE sessionRun[t].phase = "options" /\ UNCHANGED <<alive, madeFor>>
           /\ \E a \in App : Answers(t, "done", sessionRun[t].session,
                                     [sessionRun[t].seen EXCEPT ![a] = offer[a]])
  BY <1>5, <1>6, <1>8
<1>9. \/ sessionRun[t].phase = "login" /\ LogIn(sessionRun[t].version)
           /\ Answers(t, "done", Len(madeFor'), sessionRun[t].seen)
      \/ UNCHANGED <<alive, madeFor>> /\ sessionRun[t].phase # "login"
           /\ \E answer \in {"failed", "expired"} :
                 Answers(t, answer, sessionRun[t].session, sessionRun[t].seen)
      \/ UNCHANGED <<alive, madeFor>>
           /\ \E answer \in {"failed", "unavailable"} :
                 Answers(t, answer, sessionRun[t].session, sessionRun[t].seen)
      \/ sessionRun[t].phase = "applications" /\ UNCHANGED <<alive, madeFor>>
           /\ Answers(t, "done", sessionRun[t].session,
                      IF kind = "wangyan" THEN offer
                      ELSE [a \in App |-> IF a \in offered THEN Unread ELSE 0])
      \/ sessionRun[t].phase = "options" /\ UNCHANGED <<alive, madeFor>>
           /\ \E a \in App : Answers(t, "done", sessionRun[t].session,
                                     [sessionRun[t].seen EXCEPT ![a] = offer[a]])
  BY Zenon DEF CallProvider
<1> QED BY <1>2, <1>3, <1>4, <1>7, <1>8, <1>9

LEMMA CallKeeps == ASSUME SessionInv, NEW t \in Task, CallProvider(t) PROVE SessionInv'
<1>1. PICK session \in Nat, seen \in [App -> Config \cup {Unread}],
           answer \in {"done", "expired", "unavailable", "failed"} :
           /\ Answers(t, answer, session, seen)
           /\ \/ /\ UNCHANGED <<madeFor, alive>> /\ session = sessionRun[t].session
                 /\ sessionRun[t].phase = "login" => answer # "done"
              \/ /\ LogIn(sessionRun[t].version) /\ sessionRun[t].phase = "login"
                 /\ session = Len(madeFor')
  BY CallIs
<1>2. sessionRun[t] \in SessionRunType /\ sessionRun[t].at = "calling"
  BY DEF SessionInv, SessionTypeOK, CallProvider
<1>3. PICK run \in SessionRunType :
        /\ run = [sessionRun[t] EXCEPT !.at = "answered", !.answer = answer,
                                       !.session = session, !.seen = seen]
        /\ run.at = "answered" /\ run.answer = answer
        /\ run.session = session /\ run.phase = sessionRun[t].phase
        /\ run.version = sessionRun[t].version /\ run.token = sessionRun[t].token
        /\ sessionRun[t].version \in Nat
  <2> DEFINE after == [sessionRun[t] EXCEPT !.at = "answered", !.answer = answer,
                                            !.session = session, !.seen = seen]
  <2>1. /\ after \in SessionRunType /\ after.at = "answered" /\ after.answer = answer
        /\ after.session = session /\ after.phase = sessionRun[t].phase
        /\ after.version = sessionRun[t].version /\ after.token = sessionRun[t].token
        /\ sessionRun[t].version \in Nat
    BY <1>2 DEF SessionRunType
  <2> QED BY <2>1
<1>4. sessionRun' = [sessionRun EXCEPT ![t] = run]
  BY <1>1, <1>3 DEF Answers, SessionInv, SessionTypeOK
<1>5. RunWasMade(run)'
  <2>1. CASE UNCHANGED <<madeFor, alive>> /\ session = sessionRun[t].session
             /\ (sessionRun[t].phase = "login" => answer # "done")
    <3>1. sessionRun[t].phase # "login" => Made(session, sessionRun[t].version)
      <4>1. RunWasMade(sessionRun[t])
        BY DEF SessionInv, RunsWereMade
      <4> QED BY <1>2, <2>1, <4>1 DEF RunWasMade
    <3> QED BY <1>3, <2>1, <3>1 DEF RunWasMade, Made
  <2>2. CASE LogIn(sessionRun[t].version) /\ sessionRun[t].phase = "login"
             /\ session = Len(madeFor')
    <3>1. session \in DOMAIN madeFor' /\ madeFor'[session] = sessionRun[t].version
      <4>1. madeFor \in Seq(Nat)
        BY DEF SessionInv, SessionTypeOK
      <4> QED BY <1>3, <2>2, <4>1, LoginIs
    <3> QED BY <1>3, <2>2, <3>1, SMTT(90) DEF RunWasMade, Made
  <2> QED BY <1>1, <2>1, <2>2
<1>6. troubles' \in 0 .. MaxTroubles
  BY SessionConstants DEF CallProvider, Trouble, SessionInv, SessionTypeOK
<1>7. UNCHANGED <<madeFor, alive>> \/ \E version \in Nat : LogIn(version)
  BY <1>1, <1>3
<1>8. UNCHANGED <<conn, renewal, renewalHolder, app, promised, tokens, kind, offer>>
  <2>1. UNCHANGED <<conn, renewal, renewalHolder, app, tokens, promised, kind, offer>>
    BY Zenon DEF CallProvider
  <2> QED BY <2>1
<1> QED BY <1>2, <1>3, <1>4, <1>5, <1>6, <1>7, <1>8, CallingStep DEF Renews

LEMMA CallVerificationKeeps ==
  ASSUME SessionInv, NEW t \in Task, CallVerification(t) PROVE SessionInv'
<1>1. /\ sessionRun[t] \in SessionRunType /\ sessionRun[t].at = "verifying"
      /\ madeFor \in Seq(Nat) /\ sessionRun[t].version \in Nat
  BY ZenonT(90) DEF SessionInv, SessionTypeOK, CallVerification, SessionRunType
<1>2. PICK answer \in {"done", "failed"}, seen \in [App -> Config \cup {Unread}] :
        /\ sessionRun' = [sessionRun EXCEPT ![t].at = "verified", ![t].answer = answer,
                                           ![t].seen = seen, ![t].session = Len(madeFor')]
        /\ \/ LogIn(sessionRun[t].version)
           \/ UNCHANGED <<alive, madeFor>> /\ answer = "failed"
        /\ answer = "done" => seen \in [App -> Config]
  <2>1. /\ offer \in [App -> Config \cup {Unread}]
         /\ sessionRun[t].seen \in [App -> Config \cup {Unread}]
         /\ offer \in [App -> Config]
    BY <1>1 DEF SessionInv, SessionTypeOK, SessionRunType
  <2> QED BY <2>1 DEF CallVerification
<1>3. Len(madeFor') \in Nat
  BY <1>1, <1>2, LoginIs
<1>4. PICK run \in SessionRunType :
        /\ run = [sessionRun[t] EXCEPT !.at = "verified", !.answer = answer, !.seen = seen,
                                       !.session = Len(madeFor')]
        /\ run.at = "verified" /\ run.answer = answer
        /\ run.session = Len(madeFor') /\ run.version = sessionRun[t].version /\ run.seen = seen
  <2> DEFINE after == [sessionRun[t] EXCEPT !.at = "verified", !.answer = answer,
                                            !.seen = seen, !.session = Len(madeFor')]
  <2>1. /\ after \in SessionRunType /\ after.at = "verified" /\ after.answer = answer
        /\ after.session = Len(madeFor') /\ after.version = sessionRun[t].version
        /\ after.seen = seen
    BY <1>1, <1>3 DEF SessionRunType
  <2> QED BY <2>1
<1>5. sessionRun' = [sessionRun EXCEPT ![t] = run]
  BY <1>2, <1>4 DEF SessionInv, SessionTypeOK
<1>6. RunWasMade(run)'
  <2>1. CASE LogIn(sessionRun[t].version)
    <3>1. run.session \in DOMAIN madeFor' /\ madeFor'[run.session] = run.version
      BY <1>1, <1>4, <2>1, LoginIs
    <3> QED BY <1>2, <1>4, <3>1 DEF RunWasMade, Made
  <2>2. CASE answer = "failed"
    BY <1>4, <2>2 DEF RunWasMade
  <2> QED BY <1>2, <2>1, <2>2
<1>7. troubles' \in 0 .. MaxTroubles
  <2>1. UNCHANGED troubles \/ Trouble
    BY Zenon DEF CallVerification
  <2> QED BY <2>1, SessionConstants DEF Trouble, SessionInv, SessionTypeOK
<1>8. UNCHANGED <<madeFor, alive>> \/ \E version \in Nat : LogIn(version)
  BY <1>1, <1>2
<1>9. UNCHANGED <<conn, renewal, renewalHolder, app, promised, tokens, kind, offer>>
  <2>1. UNCHANGED <<conn, renewal, renewalHolder, app, tokens, promised, kind, offer>>
    BY Zenon DEF CallVerification
  <2> QED BY <2>1
<1> QED BY <1>4, <1>5, <1>6, <1>7, <1>8, <1>9, CallingStep

--------------------------------------------------------------------------
(* What stores something.                                                 *)

LEMMA SaveConnectionKeeps == ASSUME SessionInv, SaveConnection PROVE SessionInv'
<1>1. /\ UNCHANGED <<renewal, renewalHolder, app, sessionRun, tokens, promised, kind, offer, alive,
                     madeFor>>
      /\ conn' = [status |-> "pending", version |-> conn.version + 1, token |-> None, session |-> 0]
  BY DEF SaveConnection, ProviderStays
<1>2. SessionTypeOK'
  <2>1. conn' \in ConnType
    BY <1>1 DEF SessionInv, SessionTypeOK, ConnType
  <2>2. troubles' \in 0 .. MaxTroubles
    BY SessionConstants DEF SaveConnection, Trouble, SessionInv, SessionTypeOK
  <2> QED BY <1>1, <2>1, <2>2 DEF SessionInv, SessionTypeOK
<1>3. MarkedIsExpired' /\ InUseWasMade' /\ CandidateWasMade' /\ RunsWereMade' /\ HolderRenews'
      /\ ProofKeepsConfig'
  BY <1>1 DEF SessionInv, MarkedIsExpired, InUseWasMade, CandidateWasMade, RunsWereMade,
              RunWasMade, HolderRenews, Renews, ProofKeepsConfig, Made
<1>4. \A p \in promised : p[1] \in Nat
  BY DEF SessionInv, SessionTypeOK
<1>5. TokensAreFresh' /\ PromisesAreStored'
  BY <1>1, <1>4, SessionConstants DEF SessionInv, TokensAreFresh, PromisesAreStored
<1>6. EndsOfRenewals'
  <2>1. renewal.token # None
    BY SessionConstants DEF SessionInv, SessionTypeOK, RenewalType
  <2> QED BY <1>1, <2>1 DEF EndsOfRenewals
<1> QED BY <1>2, <1>3, <1>5, <1>6 DEF SessionInv

LEMMA BeginVerificationKeeps ==
  ASSUME SessionInv, NEW t \in Task, BeginVerification(t) PROVE SessionInv'
<1>1. PICK run \in SessionRunType :
        run.at = "verifying" /\ run.answer = "none" /\ sessionRun' = [sessionRun EXCEPT ![t] = run]
  <2> DEFINE after == [NoSessionRun EXCEPT !.at = "verifying", !.version = conn.version,
                                    !.token = tokens + 1]
  <2>1. conn.version \in Nat /\ tokens + 1 \in Nat
    BY DEF SessionInv, SessionTypeOK, ConnType
  <2>2. after \in SessionRunType /\ after.at = "verifying" /\ after.answer = "none"
    BY <2>1, SessionConstants DEF SessionRunType, NoSessionRun
  <2>3. sessionRun' = [sessionRun EXCEPT ![t] = after]
    BY DEF BeginVerification
  <2> HIDE DEF after
  <2> QED BY <2>2, <2>3
<1>2. /\ UNCHANGED <<renewal, renewalHolder, app, promised, kind, offer, alive, madeFor>>
      /\ conn' = [conn EXCEPT !.status = "verifying", !.token = tokens + 1]
      /\ tokens' = tokens + 1 /\ tokens \in Nat /\ conn \in ConnType /\ renewal \in RenewalType
  BY DEF BeginVerification, ProviderStays, SessionInv, SessionTypeOK
<1>3. /\ conn' \in ConnType /\ conn'.status = "verifying" /\ conn'.token = tokens + 1
      /\ renewal.token \in Nat /\ \A p \in promised : p[1] \in Nat
      /\ \A p \in promised : p[1] <= tokens
      /\ renewal.token <= tokens
  <2>1. conn' \in ConnType /\ conn'.status = "verifying" /\ conn'.token = tokens + 1
    <3>1. \A n \in Nat : LET c == [conn EXCEPT !.status = "verifying", !.token = n]
                         IN  c \in ConnType /\ c.status = "verifying" /\ c.token = n
      BY <1>2 DEF ConnType
    <3>2. tokens + 1 \in Nat
      BY <1>2
    <3> QED BY <1>2, <3>1, <3>2
  <2>2. renewal.token \in Nat /\ renewal.token <= tokens
    BY <1>2 DEF RenewalType, SessionInv, TokensAreFresh
  <2>3. \A p \in promised : p[1] \in Nat
    BY DEF SessionInv, SessionTypeOK
  <2> QED BY <2>1, <2>2, <2>3 DEF SessionInv, TokensAreFresh
<1>4. SessionTypeOK'
  <2>1. troubles' \in 0 .. MaxTroubles
    BY SMTT(90), SessionConstants DEF BeginVerification, Trouble, SessionInv, SessionTypeOK
  <2> QED BY SMTT(90), <1>1, <1>2, <1>3, <2>1 DEF SessionInv, SessionTypeOK
<1>5. MarkedIsExpired' /\ InUseWasMade' /\ CandidateWasMade' /\ ProofKeepsConfig'
  BY <1>2, <1>3 DEF SessionInv, MarkedIsExpired, InUseWasMade, CandidateWasMade,
     ProofKeepsConfig,
                    Made
<1>6. TokensAreFresh' /\ PromisesAreStored' /\ EndsOfRenewals'
  BY <1>2, <1>3, SessionConstants DEF TokensAreFresh, PromisesAreStored, EndsOfRenewals
<1>7. RunsWereMade'
  <2>1. RunWasMade(run)' /\ \A s, v : Made(s, v) => Made(s, v)'
    BY <1>1, <1>2 DEF RunWasMade, Made
  <2> QED BY <1>1, <2>1, RunsHold
<1>8. HolderRenews'
  BY <1>1, <1>2, HoldersHold
<1> QED BY <1>4, <1>5, <1>6, <1>7, <1>8 DEF SessionInv

LEMMA MarkExpiredKeeps == ASSUME SessionInv, NEW t \in Task, MarkExpired(t) PROVE SessionInv'
<1>1. /\ sessionRun' = [sessionRun EXCEPT ![t] = NoSessionRun] /\ NoSessionRun.at = "idle"
      /\ UNCHANGED <<app, tokens, promised, troubles, kind, offer, alive, madeFor>>
      /\ sessionRun[t].session \notin alive
  BY DEF MarkExpired, EndsSession, ProviderStays, NoSessionRun
<1>2. CASE ~StillUsed(sessionRun[t])
  <2>1. UNCHANGED <<conn, renewal, renewalHolder>>
    BY <1>2 DEF MarkExpired
  <2>2. SessionTypeOK'
    BY <1>1, <2>1, NoneOfSessions DEF SessionInv, SessionTypeOK
  <2> QED BY <1>1, <2>1, <2>2, SmallStep
<1>3. CASE StillUsed(sessionRun[t])
  <2>1. /\ conn' = [conn EXCEPT !.status = "reauth_required"] /\ conn \in ConnType
        /\ conn.status = "active" /\ conn.session = sessionRun[t].session
        /\ renewal \in RenewalType
    BY <1>3 DEF MarkExpired, StillUsed, SessionInv, SessionTypeOK
  <2>2. /\ conn' \in ConnType /\ conn'.status = "reauth_required" /\ conn'.version = conn.version
        /\ conn'.token = conn.token /\ conn'.session = conn.session
    BY <2>1 DEF ConnType
  <2>3. /\ renewal' \in RenewalType /\ renewal'.version = renewal.version
        /\ renewal'.token = renewal.token
        /\ \/ renewal'.phase = "login" /\ renewal'.candidate = 0
           \/ renewal' = renewal /\ renewal.phase # "complete"
        /\ renewalHolder' \in {renewalHolder, None}
    <3>1. CASE renewal.phase = "complete"
      <4>1. renewal' = [NoRenewal EXCEPT !.phase = "login", !.version = renewal.version,
                                   !.token = renewal.token, !.logins = renewal.logins]
            /\ renewalHolder' = None
        BY Zenon, <1>3, <3>1 DEF MarkExpired
      <4>2. renewal.version \in Nat /\ renewal.token \in Nat /\ renewal.logins \in 0 .. MaxAttempts
        BY <2>1 DEF RenewalType
      <4>3. renewal' = [phase |-> "login", version |-> renewal.version, token |-> renewal.token,
                        candidate |-> 0, seen |-> [a \in App |-> 0], live |-> FALSE, due |-> FALSE,
                        attempts |-> 0, logins |-> renewal.logins]
        BY <4>1 DEF NoRenewal
      <4>4. [a \in App |-> 0] \in [App -> Config \cup {Unread}] /\ 0 \in 0 .. MaxAttempts
        BY SessionConstants
      <4>5. renewal' \in RenewalType
        BY <4>2, <4>3, <4>4 DEF RenewalType
      <4>6. /\ renewal'.version = renewal.version /\ renewal'.token = renewal.token
            /\ renewal'.phase = "login" /\ renewal'.candidate = 0
        BY <4>3
      <4>7. renewalHolder' \in {renewalHolder, None}
        BY <4>1
      <4> QED BY <4>5, <4>6, <4>7
    <3>2. CASE renewal.phase # "complete"
      BY <1>3, <2>1, <3>2 DEF MarkExpired
    <3> QED BY <3>1, <3>2
  <2>4. SessionTypeOK'
    BY <1>1, <2>2, <2>3, NoneOfSessions, SessionConstants DEF SessionInv, SessionTypeOK
  <2>5. MarkedIsExpired' /\ InUseWasMade' /\ ProofKeepsConfig' /\ CandidateWasMade'
    BY <1>1, <2>1, <2>2, <2>3 DEF SessionInv, MarkedIsExpired, InUseWasMade,
       ProofKeepsConfig,
                                   CandidateWasMade, Made
  <2>6. TokensAreFresh' /\ PromisesAreStored' /\ EndsOfRenewals'
    BY <1>1, <2>1, <2>2, <2>3 DEF SessionInv, TokensAreFresh, PromisesAreStored,
       EndsOfRenewals
  <2>7. RunsWereMade'
    <3>1. RunWasMade(NoSessionRun)' /\ \A s, v : Made(s, v) => Made(s, v)'
      BY <1>1 DEF RunWasMade, Made, NoSessionRun
    <3> QED BY <1>1, <3>1, RunsHold
  <2>8. HolderRenews'
    BY <1>1, <2>3, HoldersHold
  <2> QED BY <2>4, <2>5, <2>6, <2>7, <2>8 DEF SessionInv
<1> QED BY <1>2, <1>3

\* What is published under a token agrees with what the token stands for already.
LEMMA Publication ==
  ASSUME SessionInv, NEW token \in Nat, NEW seen \in [App -> Config],
         app' = Seen(seen, token), promised' = Promises(seen, token),
         conn'.token = token, conn'.status # "verifying",
         tokens' \in Nat, tokens <= tokens', token <= tokens',
         \A p \in promised : p[1] = token =>
           /\ p[3] = seen[p[2]]
           /\ app[p[2]] = [token |-> token, config |-> p[3]]
  PROVE  /\ ProofKeepsConfig' /\ PromisesAreStored' /\ \A p \in promised' : p[1] <= tokens'
         /\ app' \in [App -> [token : Nat, config : Config]]
         /\ promised' \subseteq Nat \X App \X Config
<1>1. /\ \A p \in promised : p[1] \in Nat /\ p[2] \in App /\ p[3] \in Config /\ p[1] <= tokens
      /\ promised \subseteq Nat \X App \X Config /\ tokens \in Nat
  BY SMTT(90) DEF SessionInv, SessionTypeOK, TokensAreFresh
<1>2. /\ \A p \in promised' :
           \/ p \in promised
           \/ p[1] = token /\ p[2] \in App /\ p[3] = seen[p[2]] /\ seen[p[2]] # 0
      /\ promised' \subseteq Nat \X App \X Config
  <2>1. promised' = promised \cup {<<token, a, seen[a]>> : a \in {b \in App : seen[b] # 0}}
    BY DEF Promises
  <2>2. \A a \in {b \in App : seen[b] # 0} : <<token, a, seen[a]>> \in Nat \X App \X Config
    OBVIOUS
  <2>3. promised' \subseteq Nat \X App \X Config
    BY <1>1, <2>1, <2>2
  <2>4. \A p \in promised' :
           \/ p \in promised
           \/ p[1] = token /\ p[2] \in App /\ p[3] = seen[p[2]] /\ seen[p[2]] # 0
    BY <2>1
  <2> QED BY <2>3, <2>4
<1>3. /\ \A a \in App : app'[a] = IF seen[a] = 0 THEN app[a] ELSE [token |-> token, config |-> seen[a]]
      /\ app' \in [App -> [token : Nat, config : Config]]
  <2>1. app \in [App -> [token : Nat, config : Config]]
    BY DEF SessionInv, SessionTypeOK
  <2> QED BY <2>1 DEF Seen
<1>4. \A p \in promised' : p[1] = token => p[3] = seen[p[2]]
  BY <1>2
<1>5. ProofKeepsConfig'
  <2> SUFFICES ASSUME NEW p \in promised', NEW q \in promised', p[1] = q[1], p[2] = q[2]
               PROVE  p[3] = q[3]
    BY DEF ProofKeepsConfig
  <2>1. CASE p[1] = token
    BY <1>4, <2>1
  <2>2. CASE p[1] # token
    <3>1. p \in promised /\ q \in promised
      BY <1>2, <2>2
    <3> QED BY <3>1 DEF SessionInv, ProofKeepsConfig
  <2> QED BY <2>1, <2>2
<1>6. PromisesAreStored'
  <2> SUFFICES ASSUME NEW p \in promised', p[1] = token
               PROVE  app'[p[2]] = [token |-> token, config |-> p[3]]
    BY DEF PromisesAreStored
  <2>1. CASE seen[p[2]] = 0
    <3>1. p \in promised
      BY <1>2, <2>1
    <3> QED BY <1>1, <1>3, <2>1, <3>1
  <2>2. CASE seen[p[2]] # 0
    <3>1. p[2] \in App /\ p[3] = seen[p[2]]
      BY <1>1, <1>2, <1>4
    <3> QED BY <1>3, <2>2, <3>1
  <2> QED BY <2>1, <2>2
<1>7. \A p \in promised' : p[1] <= tokens'
  BY <1>1, <1>2
<1> QED BY <1>2, <1>3, <1>5, <1>6, <1>7

LEMMA StoreVerificationKeeps ==
  ASSUME SessionInv, NEW t \in Task, StoreVerification(t) PROVE SessionInv'
<1> DEFINE run == sessionRun[t]
<1>1. /\ sessionRun' = [sessionRun EXCEPT ![t] = NoSessionRun]
      /\ NoSessionRun.at = "idle" /\ run.at = "verified"
      /\ UNCHANGED <<renewal, renewalHolder, tokens, troubles, kind, offer, alive, madeFor>>
  BY DEF StoreVerification, EndsSession, ProviderStays, NoSessionRun
<1>2. /\ conn \in ConnType /\ run \in SessionRunType /\ renewal \in RenewalType /\ tokens \in Nat
      /\ \A s, v : Made(s, v) => Made(s, v)'
  BY <1>1 DEF SessionInv, SessionTypeOK, Made
<1>3. RunsWereMade' /\ HolderRenews'
  <2>1. RunWasMade(NoSessionRun)'
    BY DEF RunWasMade, NoSessionRun
  <2> QED BY <1>1, <1>2, <2>1, RunsHold, HoldersHold
<1>4. CASE ~VerificationHeld(run)
  <2>1. UNCHANGED <<conn, app, promised>>
    BY <1>4 DEF StoreVerification
  <2>2. SessionTypeOK'
    BY <1>1, <2>1, NoneOfSessions DEF SessionInv, SessionTypeOK
  <2> QED BY <1>1, <2>1, <2>2, SmallStep
<1>5. CASE VerificationHeld(run) /\ run.answer # "done"
  <2>1. /\ conn' = [conn EXCEPT !.status = "error", !.token = None] /\ UNCHANGED <<app, promised>>
    BY <1>5 DEF StoreVerification
  <2>2. conn' \in ConnType /\ conn'.status = "error" /\ conn'.token = None
    BY <1>2, <2>1 DEF ConnType
  <2>3. SessionTypeOK'
    BY <1>1, <2>1, <2>2, NoneOfSessions DEF SessionInv, SessionTypeOK
  <2>4. MarkedIsExpired' /\ InUseWasMade' /\ CandidateWasMade' /\ ProofKeepsConfig'
    BY <1>1, <2>1, <2>2 DEF SessionInv, MarkedIsExpired, InUseWasMade, CandidateWasMade,
                            ProofKeepsConfig, Made
  <2>5. \A p \in promised : p[1] # None
    BY SessionConstants DEF SessionInv, SessionTypeOK
  <2>6. TokensAreFresh' /\ PromisesAreStored' /\ EndsOfRenewals'
    BY <1>1, <2>1, <2>2, <2>5 DEF SessionInv, TokensAreFresh, PromisesAreStored,
       EndsOfRenewals
  <2> QED BY <1>3, <2>3, <2>4, <2>6 DEF SessionInv
<1>6. CASE VerificationHeld(run) /\ run.answer = "done"
  <2>1. /\ conn' = [conn EXCEPT !.status = "active", !.session = run.session]
        /\ app' = Seen(run.seen, run.token) /\ promised' = Promises(run.seen, run.token)
        /\ conn.status = "verifying" /\ conn.token = run.token /\ conn.version = run.version
    BY <1>6 DEF StoreVerification, VerificationHeld
  <2>2. /\ conn' \in ConnType /\ conn'.status = "active" /\ conn'.session = run.session
        /\ conn'.version = conn.version /\ conn'.token = conn.token
        /\ run.token \in Nat /\ conn.token <= tokens
    BY ZenonT(90), <1>2, <2>1, SessionConstants DEF ConnType, SessionRunType, SessionInv,
       TokensAreFresh
  <2>3. \A p \in promised : p[1] # run.token
    BY <2>1 DEF SessionInv, PromisesAreStored
  <2>4. run.seen \in [App -> Config] /\ Made(run.session, run.version)
    <3>1. RunWasMade(run)
      BY DEF SessionInv, RunsWereMade
    <3> HIDE DEF run
    <3> QED BY <1>1, <1>6, <3>1 DEF RunWasMade
  <2>5. /\ ProofKeepsConfig' /\ PromisesAreStored' /\ \A p \in promised' : p[1] <= tokens'
        /\ app' \in [App -> [token : Nat, config : Config]]
        /\ promised' \subseteq Nat \X App \X Config
    BY <1>1, <1>2, <2>1, <2>2, <2>3, <2>4, Publication
  <2>6. SessionTypeOK'
    BY SMTT(90), <1>1, <2>2, <2>5, NoneOfSessions DEF SessionInv, SessionTypeOK
  <2>7. MarkedIsExpired' /\ InUseWasMade' /\ CandidateWasMade'
    BY <1>1, <1>2, <2>1, <2>2, <2>4 DEF SessionInv, MarkedIsExpired, InUseWasMade,
       CandidateWasMade
  <2>8. TokensAreFresh' /\ EndsOfRenewals'
    BY <1>1, <2>1, <2>2, <2>5 DEF SessionInv, TokensAreFresh, EndsOfRenewals
  <2> QED BY <1>3, <2>5, <2>6, <2>7, <2>8 DEF SessionInv
<1> QED BY <1>4, <1>5, <1>6

\* The renewal that a run begins or goes on with.
LEMMA CurrentRenewalIs ==
  ASSUME SessionInv, conn.token # None
  PROVE  /\ CurrentRenewal \in RenewalType
         /\ CurrentRenewal.version = conn.version /\ CurrentRenewal.token = conn.token
         /\ \/ CurrentRenewal = renewal /\ renewal.phase # "none"
            \/ /\ CurrentRenewal.phase = "login" /\ CurrentRenewal.candidate = 0
               /\ CurrentRenewal.attempts = 0 /\ CurrentRenewal.logins = 0
<1>1. renewal \in RenewalType /\ conn.version \in Nat /\ conn.token \in Nat
  BY SessionConstants DEF SessionInv, SessionTypeOK, ConnType
<1>2. CASE renewal.phase # "none" /\ renewal.version = conn.version /\ renewal.token = conn.token
  BY <1>1, <1>2 DEF CurrentRenewal
<1>3. CASE ~(renewal.phase # "none" /\ renewal.version = conn.version /\ renewal.token = conn.token)
  <2>1. CurrentRenewal = [phase |-> "login", version |-> conn.version, token |-> conn.token,
                          candidate |-> 0, seen |-> [a \in App |-> 0], live |-> FALSE,
                          due |-> FALSE, attempts |-> 0, logins |-> 0]
    BY <1>3 DEF CurrentRenewal, NoRenewal
  <2>2. [a \in App |-> 0] \in [App -> Config \cup {Unread}] /\ 0 \in 0 .. MaxAttempts
    BY SessionConstants
  <2>3. CurrentRenewal \in RenewalType
    BY <1>1, <2>1, <2>2 DEF RenewalType
  <2> QED BY <2>1, <2>3
<1> QED BY <1>2, <1>3

LEMMA BeginRenewalKeeps == ASSUME SessionInv, NEW t \in Task, BeginRenewal(t) PROVE SessionInv'
<1>1. /\ UNCHANGED <<conn, app, tokens, promised, troubles, kind, offer, alive, madeFor>>
      /\ conn.status = "reauth_required" /\ conn.token # None
      /\ conn \in ConnType /\ conn.version \in Nat /\ conn.token \in Nat
      /\ renewal \in RenewalType
  BY SessionConstants DEF BeginRenewal, ProviderStays, SessionInv, SessionTypeOK, ConnType
<1>2. /\ CurrentRenewal \in RenewalType
      /\ CurrentRenewal.version = conn.version /\ CurrentRenewal.token = conn.token
      /\ \/ CurrentRenewal = renewal /\ renewal.phase \in {"login", "applications", "options"}
         \/ /\ CurrentRenewal.phase = "login" /\ CurrentRenewal.candidate = 0
            /\ CurrentRenewal.attempts = 0 /\ CurrentRenewal.logins = 0
  <2>1. CASE CurrentRenewal = renewal /\ renewal.phase # "none"
    <3>1. renewal.version = conn.version /\ renewal.token = conn.token
      BY <1>1, <2>1, CurrentRenewalIs
    <3>2. renewal.phase \notin {"none", "complete", "failed"}
      BY <1>1, <2>1, <3>1 DEF SessionInv, EndsOfRenewals
    <3>3. renewal.phase \in {"login", "applications", "options"}
      BY <1>1, <3>2 DEF RenewalType
    <3> QED BY <1>1, <2>1, <3>1, <3>3
  <2> QED BY <1>1, <2>1, CurrentRenewalIs
<1> DEFINE Exhausting(r) ==
             /\ Exhausted(r)
             /\ renewal' = [r EXCEPT !.due = TRUE, !.attempts = 0, !.logins = 0]
             /\ UNCHANGED <<renewalHolder, sessionRun>>
           Calling(r, login) ==
             /\ ~Exhausted(r)
             /\ renewal' = [r EXCEPT !.live = TRUE, !.attempts = @ + 1, !.logins = @ + login]
             /\ renewalHolder' = t
             /\ sessionRun' = [sessionRun EXCEPT
                  ![t] = [NoSessionRun EXCEPT !.at = "calling", !.phase = r.phase,
                            !.version = conn.version, !.token = conn.token,
                            !.session = r.candidate, !.seen = r.seen]]
<1>3. PICK r \in RenewalType :
        /\ r.version = conn.version /\ r.token = conn.token
        /\ r.phase = CurrentRenewal.phase /\ r.candidate = CurrentRenewal.candidate
        /\ r.attempts = CurrentRenewal.attempts
        /\ r.logins \in {0, CurrentRenewal.logins}
        /\ Exhausting(r) \/ Calling(r, IF r.phase = "login" THEN 1 ELSE 0)
  <2>1. PICK windowOver \in BOOLEAN :
          LET r == IF windowOver THEN [CurrentRenewal EXCEPT !.logins = 0] ELSE CurrentRenewal
          IN  Exhausting(r) \/ Calling(r, IF r.phase = "login" THEN 1 ELSE 0)
    BY ZenonT(90) DEF BeginRenewal
  <2> DEFINE after == IF windowOver THEN [CurrentRenewal EXCEPT !.logins = 0] ELSE CurrentRenewal
  <2>2. /\ after \in RenewalType /\ after.version = conn.version /\ after.token = conn.token
        /\ after.phase = CurrentRenewal.phase /\ after.candidate = CurrentRenewal.candidate
        /\ after.attempts = CurrentRenewal.attempts
        /\ after.logins \in {0, CurrentRenewal.logins}
    BY <1>2, SessionConstants DEF RenewalType
  <2>3. Exhausting(after) \/ Calling(after, IF after.phase = "login" THEN 1 ELSE 0)
    BY <2>1
  <2> HIDE DEF after, Exhausting, Calling
  <2> QED BY <2>2, <2>3
<1>4. r.phase \in {"login", "applications", "options"}
  BY <1>2, <1>3
<1>5. CASE Exhausting(r)
  <2>1. CurrentRenewal = renewal
    BY <1>2, <1>3, <1>5, SessionConstants DEF Exhausted
  <2>2. /\ renewal' \in RenewalType /\ renewal'.version = renewal.version
        /\ renewal'.token = renewal.token /\ renewal'.phase = renewal.phase
        /\ renewal'.candidate = renewal.candidate
    <3>1. 0 \in 0 .. MaxAttempts
      BY SessionConstants
    <3>2. renewal' = [r EXCEPT !.due = TRUE, !.attempts = 0, !.logins = 0]
      BY <1>5
    <3>3. /\ renewal' \in RenewalType /\ renewal'.version = r.version /\ renewal'.token = r.token
          /\ renewal'.phase = r.phase /\ renewal'.candidate = r.candidate
      BY <1>3, <3>1, <3>2 DEF RenewalType
    <3>4. renewal.version = conn.version /\ renewal.token = conn.token
      BY <1>2, <2>1
    <3> QED BY <1>3, <2>1, <3>3, <3>4
  <2>3. UNCHANGED <<renewalHolder, sessionRun>>
    BY <1>5
  <2>4. SessionTypeOK'
    BY <1>1, <2>2, <2>3 DEF SessionInv, SessionTypeOK
  <2>5. TablesStay
    BY <1>1, <2>2 DEF TablesStay, Made
  <2>6. RunsWereMade' /\ HolderRenews'
    BY <1>1, <2>2, <2>3 DEF SessionInv, RunsWereMade, RunWasMade, HolderRenews, Renews, Made
  <2> QED BY <2>4, <2>5, <2>6, TablesHold DEF SessionInv
<1>6. CASE Calling(r, IF r.phase = "login" THEN 1 ELSE 0)
  <2>1. /\ renewal' \in RenewalType /\ renewal'.version = conn.version
        /\ renewal'.token = conn.token /\ renewal'.phase = r.phase
        /\ renewal'.candidate = r.candidate
    <3>1. r.attempts + 1 \in 0 .. MaxAttempts
      BY <1>3, <1>6, SessionConstants DEF Exhausted, RenewalType
    <3>2. r.logins + (IF r.phase = "login" THEN 1 ELSE 0) \in 0 .. MaxAttempts
      BY <1>3, <1>6, SessionConstants DEF Exhausted, RenewalType
    <3>3. \A n, l \in 0 .. MaxAttempts :
            LET s == [r EXCEPT !.live = TRUE, !.attempts = n, !.logins = l]
            IN  s \in RenewalType /\ s.version = r.version /\ s.token = r.token
                /\ s.phase = r.phase /\ s.candidate = r.candidate
      BY ZenonT(90), <1>3 DEF RenewalType
    <3>4. renewal' = [r EXCEPT !.live = TRUE, !.attempts = r.attempts + 1,
                               !.logins = r.logins + (IF r.phase = "login" THEN 1 ELSE 0)]
      BY <1>3, <1>6 DEF RenewalType
    <3> QED BY ZenonT(90), <1>3, <3>1, <3>2, <3>3, <3>4
  <2>2. r.candidate # 0 => Made(r.candidate, conn.version)
    BY <1>2, <1>3 DEF SessionInv, CandidateWasMade
  <2>3. r.phase \in {"applications", "options"} => r.candidate # 0
    BY <1>2, <1>3 DEF SessionInv, CandidateWasMade
  <2>4. PICK run \in SessionRunType :
          /\ run.at = "calling" /\ run.phase = r.phase /\ run.version = conn.version
          /\ run.token = conn.token /\ run.session = r.candidate /\ run.answer = "none"
          /\ sessionRun' = [sessionRun EXCEPT ![t] = run]
    <3> DEFINE after == [NoSessionRun EXCEPT !.at = "calling", !.phase = r.phase,
                            !.version = conn.version, !.token = conn.token,
                            !.session = r.candidate, !.seen = r.seen]
    <3>1. /\ after \in SessionRunType /\ after.at = "calling" /\ after.phase = r.phase
          /\ after.version = conn.version /\ after.token = conn.token
          /\ after.session = r.candidate /\ after.answer = "none"
      <4>1. r.candidate \in Nat /\ r.seen \in [App -> Config \cup {Unread}]
        BY <1>3 DEF RenewalType
      <4> QED BY <1>1, <1>4, <4>1 DEF SessionRunType, NoSessionRun
    <3>2. sessionRun' = [sessionRun EXCEPT ![t] = after]
      BY <1>6
    <3> HIDE DEF after
    <3> QED BY <3>1, <3>2
  <2>5. renewalHolder' = t
    BY <1>6
  <2>6. SessionTypeOK'
    BY SMTT(90), <1>1, <2>1, <2>4, <2>5 DEF SessionInv, SessionTypeOK
  <2>7. MarkedIsExpired' /\ InUseWasMade' /\ ProofKeepsConfig' /\ CandidateWasMade'
    BY <1>1, <2>1, <2>2, <2>3 DEF SessionInv, MarkedIsExpired, InUseWasMade,
       ProofKeepsConfig,
                                   CandidateWasMade, Made
  <2>8. TokensAreFresh' /\ PromisesAreStored' /\ EndsOfRenewals'
    BY <1>1, <1>4, <2>1 DEF SessionInv, TokensAreFresh, PromisesAreStored, EndsOfRenewals
  <2>9. RunsWereMade'
    <3>1. RunWasMade(run)' /\ \A s, v : Made(s, v) => Made(s, v)'
      BY <1>1, <1>4, <2>2, <2>3, <2>4 DEF RunWasMade, Made
    <3> QED BY <2>4, <3>1, RunsHold
  <2>10. HolderRenews'
    <3>1. sessionRun'[t] = run
      BY <2>4 DEF SessionInv, SessionTypeOK
    <3> QED BY <2>1, <2>4, <2>5, <3>1 DEF HolderRenews, Renews
  <2> QED BY SMTT(90), <2>6, <2>7, <2>8, <2>9, <2>10 DEF SessionInv
<1> QED BY <1>3, <1>5, <1>6

\* What a run that still holds its claim stores of its renewal: it goes on with the
\* session it has, is over, begins anew, comes again, or has failed.
LEMMA StoredRenewal ==
  ASSUME SessionInv, NEW t \in Task, StoreRenewal(t), RenewalHeld(t)
  PROVE  LET run == sessionRun[t] IN
         /\ renewalHolder' = None
         /\ renewal' \in RenewalType
         /\ renewal'.version = renewal.version /\ renewal'.token = renewal.token
         /\ \/ /\ run.answer = "done" /\ renewal'.phase \in {"applications", "options"}
               /\ renewal'.candidate = run.session /\ UNCHANGED <<conn, app, tokens, promised>>
            \/ /\ run.answer = "done" /\ renewal'.phase = "complete" /\ renewal'.candidate = 0
               /\ \A a \in App : run.seen[a] # Unread
               /\ Publishes(run)
            \/ /\ renewal'.phase = "login" /\ renewal'.candidate = 0
               /\ UNCHANGED <<conn, app, tokens, promised>>
            \/ /\ renewal'.phase = renewal.phase /\ renewal'.candidate = renewal.candidate
               /\ UNCHANGED <<conn, app, tokens, promised>>
            \/ /\ renewal'.phase = "failed" /\ renewal'.candidate = 0
               /\ conn' = [conn EXCEPT !.status = "error"] /\ UNCHANGED <<app, tokens, promised>>
<1> DEFINE run == sessionRun[t]
           freed == [renewal EXCEPT !.live = FALSE]
           over == [freed EXCEPT !.due = FALSE, !.attempts = 0]
           On(phase) == renewal' = [over EXCEPT !.phase = phase, !.candidate = run.session,
                                                !.seen = run.seen]
<1>1. /\ renewal \in RenewalType /\ run \in SessionRunType /\ run.session \in Nat
      /\ run.seen \in [App -> Config \cup {Unread}]
  BY SMTT(90) DEF SessionInv, SessionTypeOK, SessionRunType
<1>2. [a \in App |-> 0] \in [App -> Config \cup {Unread}] /\ 0 \in 0 .. MaxAttempts
  BY SessionConstants
<1>3. /\ renewalHolder' = None
      /\ \/ /\ run.answer = "done"
            /\ IF run.phase = "login" \/ \E a \in App : run.seen[a] = Unread
               THEN /\ On(IF run.phase = "login" THEN "applications" ELSE "options")
                    /\ UNCHANGED conn /\ UNCHANGED <<app, tokens, promised>>
               ELSE /\ renewal' = [over EXCEPT !.phase = "complete", !.candidate = 0,
                                               !.seen = [a \in App |-> 0]]
                    /\ Publishes(run)
         \/ /\ renewal' = AfterExpiry(freed) /\ UNCHANGED conn /\ UNCHANGED <<app, tokens, promised>>
         \/ /\ renewal' = [freed EXCEPT !.due = TRUE]
            /\ UNCHANGED conn /\ UNCHANGED <<app, tokens, promised>>
         \/ /\ renewal' = [freed EXCEPT !.phase = "failed", !.candidate = 0]
            /\ conn' = [conn EXCEPT !.status = "error"] /\ UNCHANGED <<app, tokens, promised>>
  BY Zenon DEF StoreRenewal
<1>4. /\ over \in RenewalType /\ freed \in RenewalType
      /\ over.version = renewal.version /\ over.token = renewal.token
      /\ freed.version = renewal.version /\ freed.token = renewal.token
      /\ freed.phase = renewal.phase /\ freed.candidate = renewal.candidate
  BY <1>1, <1>2 DEF RenewalType
<1>5. ASSUME NEW r \in RenewalType, r.version = renewal.version, r.token = renewal.token,
             NEW phase \in {"applications", "options", "login", "complete", "failed"},
             NEW c \in Nat, NEW seen \in [App -> Config \cup {Unread}],
             NEW n \in 0 .. MaxAttempts, NEW due \in BOOLEAN,
             \/ renewal' = [r EXCEPT !.phase = phase, !.candidate = c, !.seen = seen]
             \/ renewal' = [r EXCEPT !.phase = phase, !.attempts = n, !.candidate = c,
                                     !.seen = seen, !.due = due]
             \/ renewal' = [r EXCEPT !.phase = phase, !.candidate = c]
      PROVE  /\ renewal' \in RenewalType /\ renewal'.phase = phase /\ renewal'.candidate = c
             /\ renewal'.version = renewal.version /\ renewal'.token = renewal.token
  BY ZenonT(90), <1>5 DEF RenewalType
<1> HIDE DEF run, over, freed
<1>6. CASE /\ run.answer = "done"
           /\ On(IF run.phase = "login" THEN "applications" ELSE "options")
           /\ UNCHANGED <<conn, app, tokens, promised>>
  <2> DEFINE phase == IF run.phase = "login" THEN "applications" ELSE "options"
  <2>1. /\ renewal' \in RenewalType /\ renewal'.phase = phase
        /\ renewal'.candidate = run.session
        /\ renewal'.version = renewal.version /\ renewal'.token = renewal.token
    <3>1. /\ renewal' = [over EXCEPT !.phase = phase, !.candidate = run.session,
                                     !.seen = run.seen]
          /\ phase \in {"applications", "options", "login", "complete", "failed"}
      BY <1>6
    <3>2. /\ over \in RenewalType /\ run.session \in Nat
          /\ run.seen \in [App -> Config \cup {Unread}]
      BY <1>1, <1>4
    <3> HIDE DEF phase
    <3>3. /\ renewal' \in RenewalType /\ renewal'.phase = phase
          /\ renewal'.candidate = run.session
          /\ renewal'.version = over.version /\ renewal'.token = over.token
      BY <3>1, <3>2 DEF RenewalType
    <3> QED BY <1>4, <3>3
  <2> QED BY <1>3, <1>6, <2>1 DEF run
<1>7. CASE /\ run.answer = "done" /\ (\A a \in App : run.seen[a] # Unread) /\ Publishes(run)
           /\ renewal' = [over EXCEPT !.phase = "complete", !.candidate = 0,
                                      !.seen = [a \in App |-> 0]]
  <2>1. /\ renewal' \in RenewalType /\ renewal'.phase = "complete" /\ renewal'.candidate = 0
        /\ renewal'.version = renewal.version /\ renewal'.token = renewal.token
    BY <1>2, <1>4, <1>5, <1>7
  <2> QED BY <1>3, <1>7, <2>1 DEF run
<1>8. CASE renewal' = AfterExpiry(freed) /\ UNCHANGED <<conn, app, tokens, promised>>
  <2>1. /\ renewal' \in RenewalType /\ renewal'.phase = "login" /\ renewal'.candidate = 0
        /\ renewal'.version = renewal.version /\ renewal'.token = renewal.token
    BY ZenonT(90), <1>2, <1>4, <1>5, <1>8 DEF AfterExpiry
  <2> QED BY <1>3, <1>8, <2>1
<1>9. CASE renewal' = [freed EXCEPT !.due = TRUE] /\ UNCHANGED <<conn, app, tokens, promised>>
  <2>1. /\ renewal' \in RenewalType /\ renewal'.phase = renewal.phase
        /\ renewal'.candidate = renewal.candidate
        /\ renewal'.version = renewal.version /\ renewal'.token = renewal.token
    BY <1>4, <1>9 DEF RenewalType
  <2> QED BY <1>3, <1>9, <2>1
<1>10. CASE /\ renewal' = [freed EXCEPT !.phase = "failed", !.candidate = 0]
            /\ conn' = [conn EXCEPT !.status = "error"] /\ UNCHANGED <<app, tokens, promised>>
  <2>1. /\ renewal' \in RenewalType /\ renewal'.phase = "failed" /\ renewal'.candidate = 0
        /\ renewal'.version = renewal.version /\ renewal'.token = renewal.token
    BY <1>2, <1>4, <1>5, <1>10
  <2> QED BY <1>3, <1>10, <2>1
<1> QED BY <1>3, <1>6, <1>7, <1>8, <1>9, <1>10

\* A token that is kept stands for what was found again, a new one for nothing yet.
LEMMA PublishesIs ==
  ASSUME SessionInv, NEW run \in SessionRunType, \A a \in App : run.seen[a] # Unread,
         conn.token # None, Publishes(run)
  PROVE  /\ conn' = [conn EXCEPT !.status = "active", !.token = conn'.token,
                                 !.session = run.session]
         /\ conn'.token \in Nat /\ conn'.status = "active" /\ conn'.session = run.session
         /\ conn'.version = conn.version /\ conn' \in ConnType
         /\ tokens' \in Nat /\ tokens <= tokens' /\ conn'.token <= tokens'
         /\ ProofKeepsConfig' /\ PromisesAreStored' /\ \A p \in promised' : p[1] <= tokens'
         /\ app' \in [App -> [token : Nat, config : Config]]
         /\ promised' \subseteq Nat \X App \X Config
<1>1. /\ conn \in ConnType /\ tokens \in Nat /\ conn.token \in Nat /\ conn.token <= tokens
      /\ run.session \in Nat /\ run.seen \in [App -> Config \cup {Unread}]
  BY SessionConstants DEF SessionInv, SessionTypeOK, ConnType, SessionRunType,
     TokensAreFresh
<1>2. run.seen \in [App -> Config]
  BY SMTT(90), <1>1
<1>3. PICK token \in Nat :
        /\ conn' = [conn EXCEPT !.status = "active", !.token = token, !.session = run.session]
        /\ app' = Seen(run.seen, token) /\ promised' = Promises(run.seen, token)
        /\ \/ ~ConfigChanged(run.seen) /\ token = conn.token /\ tokens' = tokens
           \/ token = tokens + 1 /\ tokens' = tokens + 1
  <2>1. CASE ConfigChanged(run.seen)
    <3>1. /\ conn' = [conn EXCEPT !.status = "active", !.token = tokens + 1,
                                 !.session = run.session]
          /\ app' = Seen(run.seen, tokens + 1) /\ promised' = Promises(run.seen, tokens + 1)
          /\ tokens' = tokens + 1
      BY <2>1, Zenon DEF Publishes
    <3>2. tokens + 1 \in Nat
      BY <1>1
    <3> QED BY <3>1, <3>2
  <2>2. CASE ~ConfigChanged(run.seen)
    <3>1. /\ conn' = [conn EXCEPT !.status = "active", !.token = conn.token,
                                 !.session = run.session]
          /\ app' = Seen(run.seen, conn.token) /\ promised' = Promises(run.seen, conn.token)
          /\ tokens' = tokens
      BY <2>2, Zenon DEF Publishes
    <3> QED BY <1>1, <2>2, <3>1
  <2> QED BY <2>1, <2>2
<1>4. /\ conn' \in ConnType /\ conn'.token = token /\ conn'.status = "active"
      /\ conn'.session = run.session /\ conn'.version = conn.version
  BY <1>1, <1>3 DEF ConnType
<1>5. tokens' \in Nat /\ tokens <= tokens' /\ token <= tokens'
  BY <1>1, <1>3
<1>6. \A p \in promised : p[1] = token =>
        /\ p[3] = run.seen[p[2]]
        /\ app[p[2]] = [token |-> token, config |-> p[3]]
  <2> SUFFICES ASSUME NEW p \in promised, p[1] = token
               PROVE  p[3] = run.seen[p[2]] /\ app[p[2]] = [token |-> token, config |-> p[3]]
    OBVIOUS
  <2>1. p[1] <= tokens /\ p[1] \in Nat /\ p[2] \in App
    BY DEF SessionInv, TokensAreFresh, SessionTypeOK
  <2>2. token = conn.token /\ ~ConfigChanged(run.seen)
    BY <1>1, <1>3, <2>1
  <2>3. app[p[2]] = [token |-> token, config |-> p[3]]
    BY <2>2 DEF SessionInv, PromisesAreStored
  <2>4. run.seen[p[2]] = app[p[2]].config
    BY <2>1, <2>2, <2>3 DEF ConfigChanged
  <2> QED BY <2>3, <2>4
<1>7. /\ ProofKeepsConfig' /\ PromisesAreStored' /\ \A p \in promised' : p[1] <= tokens'
      /\ app' \in [App -> [token : Nat, config : Config]]
      /\ promised' \subseteq Nat \X App \X Config
  BY <1>2, <1>3, <1>4, <1>5, <1>6, Publication
<1> QED BY <1>3, <1>4, <1>5, <1>7

LEMMA StoreRenewalKeeps == ASSUME SessionInv, NEW t \in Task, StoreRenewal(t) PROVE SessionInv'
<1> DEFINE run == sessionRun[t]
<1>1. /\ sessionRun' = [sessionRun EXCEPT ![t] = NoSessionRun]
      /\ NoSessionRun.at = "idle" /\ run.at = "answered"
      /\ UNCHANGED <<troubles, kind, offer, alive, madeFor>>
      /\ run \in SessionRunType /\ conn \in ConnType /\ renewal \in RenewalType
      /\ \A s, v : Made(s, v) => Made(s, v)'
  BY DEF StoreRenewal, EndsSession, ProviderStays, NoSessionRun, SessionInv, SessionTypeOK, Made
<1>2. CASE ~RenewalHeld(t)
  <2>1. UNCHANGED <<conn, renewal, renewalHolder, app, tokens, promised>>
    BY <1>2 DEF StoreRenewal
  <2>2. SessionTypeOK'
    BY <1>1, <2>1, NoneOfSessions DEF SessionInv, SessionTypeOK
  <2> QED BY <1>1, <2>1, <2>2, SmallStep
<1>3. CASE RenewalHeld(t)
  <2>1. /\ renewalHolder = t /\ conn.status = "reauth_required" /\ conn.version = run.version
        /\ conn.token = run.token /\ run.token \in Nat /\ conn.token # None
        /\ renewal.version = conn.version /\ renewal.token = conn.token
    BY <1>1, <1>3, SessionConstants
    DEF RenewalHeld, SessionRunType, SessionInv, HolderRenews, Renews
  <2>2. run.answer = "done" => Made(run.session, conn.version) /\ run.session # 0
    <3>1. RunWasMade(run)
      BY DEF SessionInv, RunsWereMade
    <3>2. DOMAIN madeFor = 1 .. Len(madeFor)
      BY DEF SessionInv, SessionTypeOK
    <3> HIDE DEF run
    <3> QED BY <1>1, <2>1, <3>1, <3>2 DEF RunWasMade, Made
  <2>3. /\ renewalHolder' = None /\ renewal' \in RenewalType
        /\ renewal'.version = renewal.version /\ renewal'.token = renewal.token
    BY <1>3, StoredRenewal
  <2>4. RunsWereMade' /\ HolderRenews'
    <3>1. RunWasMade(NoSessionRun)'
      BY DEF RunWasMade, NoSessionRun
    <3> QED BY <1>1, <2>3, <3>1, RunsHold, HoldersHold
  <2>5. CASE /\ UNCHANGED <<conn, app, tokens, promised>>
             /\ \/ /\ run.answer = "done" /\ renewal'.phase \in {"applications", "options"}
                   /\ renewal'.candidate = run.session
                \/ renewal'.phase = "login" /\ renewal'.candidate = 0
                \/ renewal'.phase = renewal.phase /\ renewal'.candidate = renewal.candidate
    <3>1. SessionTypeOK'
      BY <1>1, <2>3, <2>5, NoneOfSessions DEF SessionInv, SessionTypeOK
    <3>2. MarkedIsExpired' /\ InUseWasMade' /\ ProofKeepsConfig' /\ PromisesAreStored'
          /\ TokensAreFresh'
      BY <1>1, <2>3, <2>5 DEF SessionInv, MarkedIsExpired, InUseWasMade, ProofKeepsConfig,
                              PromisesAreStored, TokensAreFresh, Made
    <3>3. CandidateWasMade'
      BY <1>1, <2>1, <2>2, <2>3, <2>5 DEF SessionInv, CandidateWasMade
    <3>4. EndsOfRenewals'
      BY <2>1, <2>3, <2>5 DEF SessionInv, EndsOfRenewals
    <3> QED BY <2>4, <3>1, <3>2, <3>3, <3>4 DEF SessionInv
  <2>6. CASE /\ run.answer = "done" /\ renewal'.phase = "complete" /\ renewal'.candidate = 0
             /\ (\A a \in App : run.seen[a] # Unread) /\ Publishes(run)
    <3>1. /\ conn'.token \in Nat /\ conn'.status = "active" /\ conn'.session = run.session
          /\ conn'.version = conn.version /\ conn' \in ConnType
          /\ tokens' \in Nat /\ tokens <= tokens' /\ conn'.token <= tokens'
          /\ ProofKeepsConfig' /\ PromisesAreStored' /\ \A p \in promised' : p[1] <= tokens'
          /\ app' \in [App -> [token : Nat, config : Config]]
          /\ promised' \subseteq Nat \X App \X Config
      BY <1>1, <2>1, <2>6, PublishesIs
    <3>2. SessionTypeOK'
      BY <1>1, <2>3, <3>1, NoneOfSessions DEF SessionInv, SessionTypeOK
    <3>3. MarkedIsExpired' /\ InUseWasMade' /\ CandidateWasMade'
      BY <1>1, <2>2, <2>6, <3>1 DEF MarkedIsExpired, InUseWasMade, CandidateWasMade
    <3>4. EndsOfRenewals'
      BY <2>6, <3>1 DEF EndsOfRenewals
    <3>5. TokensAreFresh'
      <4>1. renewal.token <= tokens /\ renewal.token \in Nat /\ tokens \in Nat
        BY <1>1 DEF SessionInv, TokensAreFresh, SessionTypeOK, RenewalType
      <4> QED BY <2>3, <3>1, <4>1 DEF TokensAreFresh
    <3> QED BY <2>4, <3>1, <3>2, <3>3, <3>4, <3>5 DEF SessionInv
  <2>7. CASE /\ renewal'.phase = "failed" /\ renewal'.candidate = 0
             /\ conn' = [conn EXCEPT !.status = "error"] /\ UNCHANGED <<app, tokens, promised>>
    <3>1. /\ conn' \in ConnType /\ conn'.status = "error" /\ conn'.version = conn.version
          /\ conn'.token = conn.token
      BY <1>1, <2>7 DEF ConnType
    <3>2. SessionTypeOK'
      BY <1>1, <2>3, <2>7, <3>1, NoneOfSessions DEF SessionInv, SessionTypeOK
    <3>3. MarkedIsExpired' /\ InUseWasMade' /\ CandidateWasMade' /\ EndsOfRenewals'
      BY <2>7, <3>1 DEF MarkedIsExpired, InUseWasMade, CandidateWasMade, EndsOfRenewals
    <3>4. ProofKeepsConfig' /\ PromisesAreStored' /\ TokensAreFresh'
      BY <2>1, <2>3, <2>7, <3>1 DEF SessionInv, ProofKeepsConfig, PromisesAreStored,
         TokensAreFresh
    <3> QED BY <2>4, <3>2, <3>3, <3>4 DEF SessionInv
  <2> QED BY <1>3, <2>5, <2>6, <2>7, StoredRenewal
<1> QED BY <1>2, <1>3

\* A session that is in use was made with the credentials in force, a connection waits for
\* another one only if its own expired, and no verification token ever stands for two
\* configurations of an application (mark_expired, advance_session_refresh,
\* verify_connection).
THEOREM SessionsAreSafe == SessionSpec => []SessionSafe
<1>1. SessionInv /\ [SessionNext]_sessionVars => SessionInv'
  <2> SUFFICES ASSUME SessionInv, [SessionNext]_sessionVars PROVE SessionInv'
    OBVIOUS
  <2>1. CASE UNCHANGED sessionVars
    <3>1. UNCHANGED <<conn, renewal, app, promised, tokens, kind, madeFor, alive, sessionRun,
                      renewalHolder, offer, troubles>>
      BY <2>1 DEF sessionVars
    <3>2. SessionTypeOK'
      BY SMTT(90), <3>1 DEF SessionInv, SessionTypeOK
    <3> QED BY <3>1, <3>2, SmallStep
  <2>2. CASE SessionNext
    BY <2>2, CallKeeps, StoreRenewalKeeps, CallVerificationKeeps, StoreVerificationKeeps,
       MarkExpiredKeeps, UseEndsKeeps, UseSessionKeeps, BeginRenewalKeeps,
       BeginVerificationKeeps, KillSessionKeeps, RenewalTicksKeeps, SaveConnectionKeeps,
       ProviderChangesKeeps
    DEF SessionNext, SessionTask
  <2> QED BY <2>1, <2>2
<1>2. SessionInv => SessionSafe
  <2> SUFFICES ASSUME SessionInv PROVE SessionOfCredentials
    BY DEF SessionInv, SessionSafe
  <2> QED BY DEF SessionInv, SessionOfCredentials, InUseWasMade, CandidateWasMade, Made
<1> QED BY <1>1, <1>2, SessionInitially, PTL DEF SessionSpec
============================================================================
