---------------------------- MODULE SessionRefresh ----------------------------
(***************************************************************************)
(* The session of a connection to a provider.  A delivery that finds the   *)
(* session expired marks the connection; deliveries that follow renew it   *)
(* in phases, each with one request outside any transaction and under a    *)
(* claim: log in, list the applications, read the options of each (jiashu  *)
(* only), publish.  An administrator may replace the credentials or verify *)
(* them anew meanwhile.                                                    *)
(*                                                                         *)
(* The verification token is the proof that other work relies on: it is    *)
(* kept by a renewal unless an application changed.  Sessions and tokens   *)
(* are numbered in the order in which they came to be.                     *)
(*                                                                         *)
(* Left out: the end of a window of login attempts is a choice, as are     *)
(* rights that are lost meanwhile; names and Minis ids of applications.    *)
(***************************************************************************)
EXTENDS Tasks, FiniteSets, Sequences

CONSTANTS App,          \* applications at the provider
          MaxAttempts,  \* MAX_ATTEMPTS (3)
          MaxTroubles   \* bound: faults, changes at the provider and acts of administrators

ASSUME SessionOK == None \notin Nat /\ MaxAttempts \in Nat \ {0} /\ MaxTroubles \in Nat

Config == 0 .. 2        \* of an application; 0: not offered
Unread == 3             \* listed, its options not read yet

VARIABLES
  conn,           \* provider_connection; session 0: credentials without a session
  renewal,        \* provider_session_refresh, its phase "none" until there is a row
  renewalHolder,  \* the run whose claim_token it carries
  app,            \* provider_application: its verification_token and channel_config
  sessionRun,     \* the task's place and what it read
  tokens,         \* tokens so far
  promised,       \* observation: the configuration of an application under a token
  \* the provider
  kind,           \* of the connection
  offer,          \* configuration of each application
  alive,          \* sessions that it accepts
  madeFor,        \* the credentials that each session was made with
  troubles

sessionVars == <<conn, renewal, renewalHolder, app, sessionRun, tokens, promised, kind, offer,
                 alive, madeFor, troubles>>

NoSessionRun == [at |-> "idle", phase |-> "login", version |-> 0, token |-> 0, session |-> 0,
          seen |-> [a \in App |-> 0], answer |-> "none"]

NoRenewal == [phase |-> "none", version |-> 0, token |-> 0, candidate |-> 0,
              seen |-> [a \in App |-> 0], live |-> FALSE, due |-> FALSE,
              attempts |-> 0, logins |-> 0]

ConnType == [status : {"pending", "verifying", "active", "reauth_required", "error"},
             version : Nat, token : Nat \cup {None}, session : Nat]

RenewalType == [phase : {"none", "login", "applications", "options", "complete", "failed"},
                version : Nat, token : Nat, candidate : Nat,
                seen : [App -> Config \cup {Unread}], live : BOOLEAN, due : BOOLEAN,
                attempts : 0 .. MaxAttempts, logins : 0 .. MaxAttempts]

SessionRunType == [at : {"idle", "using", "calling", "answered", "verifying", "verified"},
                   phase : {"login", "applications", "options"}, version : Nat, token : Nat,
                   session : Nat, seen : [App -> Config \cup {Unread}],
                   answer : {"none", "done", "expired", "unavailable", "failed"}]

SessionTypeOK ==
  /\ conn \in ConnType /\ renewal \in RenewalType /\ renewalHolder \in Task \cup {None}
  /\ app \in [App -> [token : Nat, config : Config]] /\ sessionRun \in [Task -> SessionRunType]
  /\ tokens \in Nat /\ promised \subseteq Nat \X App \X Config
  /\ kind \in {"jiashu", "wangyan"} /\ offer \in [App -> Config] /\ alive \subseteq Nat
  /\ madeFor \in Seq(Nat) /\ troubles \in 0 .. MaxTroubles

\* The connection has been verified; some applications were offered then.
SessionInit ==
  /\ conn = [status |-> "active", version |-> 0, token |-> 1, session |-> 1]
  /\ renewal = NoRenewal /\ renewalHolder = None
  /\ kind \in {"jiashu", "wangyan"}
  /\ \E offered \in SUBSET App :
       /\ offered # {}
       /\ offer = [a \in App |-> IF a \in offered THEN 1 ELSE 0]
       /\ promised = {<<1, a, 1>> : a \in offered}
  /\ app = [a \in App |-> [token |-> offer[a], config |-> offer[a]]]
  /\ sessionRun = [t \in Task |-> NoSessionRun]
  /\ tokens = 1 /\ alive = {1} /\ madeFor = <<0>> /\ troubles = 0

Trouble == troubles < MaxTroubles /\ troubles' = troubles + 1

ProviderStays == UNCHANGED <<kind, offer, alive, madeFor>>
EndsSession(t) == sessionRun' = [sessionRun EXCEPT ![t] = NoSessionRun]

-----------------------------------------------------------------------------
(* Deliveries that use the session: open_provider_session.                 *)

Usable(a) == conn.token # None /\ app[a].token = conn.token

UseSession(t) ==
  /\ sessionRun[t].at = "idle" /\ conn.status = "active" /\ \E a \in App : Usable(a)
  /\ sessionRun' = [sessionRun EXCEPT ![t].at = "using", ![t].version = conn.version,
                                      ![t].token = conn.token, ![t].session = conn.session]
  /\ UNCHANGED <<conn, renewal, renewalHolder, app, tokens, promised, troubles>> /\ ProviderStays

UseEnds(t) ==
  /\ sessionRun[t].at = "using" /\ sessionRun[t].session \in alive /\ EndsSession(t)
  /\ UNCHANGED <<conn, renewal, renewalHolder, app, tokens, promised, troubles>> /\ ProviderStays

\* Mutant: the session itself is not compared.
StillUsed_Token(run) ==
  conn.status = "active" /\ conn.version = run.version /\ conn.token = run.token

\* What was used is what the connection still has.
StillUsed(run) ==
  /\ conn.status = "active" /\ conn.version = run.version /\ conn.token = run.token
  /\ conn.session = run.session

\* mark_expired: the provider has refused the session.
MarkExpired(t) ==
  /\ sessionRun[t].at = "using" /\ sessionRun[t].session \notin alive /\ EndsSession(t)
  /\ IF StillUsed(sessionRun[t])
     THEN /\ conn' = [conn EXCEPT !.status = "reauth_required"]
          /\ IF renewal.phase = "complete"
             THEN /\ renewal' = [NoRenewal EXCEPT !.phase = "login", !.version = renewal.version,
                                   !.token = renewal.token, !.logins = renewal.logins]
                  /\ renewalHolder' = None
             ELSE UNCHANGED <<renewal, renewalHolder>>
     ELSE UNCHANGED <<conn, renewal, renewalHolder>>
  /\ UNCHANGED <<app, tokens, promised, troubles>> /\ ProviderStays

-----------------------------------------------------------------------------
(* advance_session_refresh.                                                *)

\* Another generation begins when the connection was verified anew.
CurrentRenewal ==
  IF renewal.phase # "none" /\ renewal.version = conn.version /\ renewal.token = conn.token
  THEN renewal
  ELSE [NoRenewal EXCEPT !.phase = "login", !.version = conn.version, !.token = conn.token]

\* A finite burst of attempts, then a pause.
Exhausted(r) == r.attempts = MaxAttempts \/ (r.phase = "login" /\ r.logins = MaxAttempts)

BeginRenewal(t) ==
  /\ sessionRun[t].at = "idle" /\ conn.status = "reauth_required" /\ conn.token # None
  /\ \E windowOver \in BOOLEAN :
       LET c == CurrentRenewal
           r == IF windowOver THEN [c EXCEPT !.logins = 0] ELSE c
           login == IF r.phase = "login" THEN 1 ELSE 0
       IN /\ ~r.live /\ ~r.due
          /\ IF Exhausted(r)
             THEN /\ renewal' = [r EXCEPT !.due = TRUE, !.attempts = 0, !.logins = 0]
                  /\ UNCHANGED <<renewalHolder, sessionRun>>
             ELSE /\ renewal' = [r EXCEPT !.live = TRUE, !.attempts = @ + 1, !.logins = @ + login]
                  /\ renewalHolder' = t
                  /\ sessionRun' = [sessionRun EXCEPT
                       ![t] = [NoSessionRun EXCEPT !.at = "calling", !.phase = r.phase,
                                 !.version = conn.version, !.token = conn.token,
                                 !.session = r.candidate, !.seen = r.seen]]
  /\ UNCHANGED <<conn, app, tokens, promised, troubles>> /\ ProviderStays

\* A login at the provider with the credentials of this version.
LogIn(version) ==
  /\ madeFor' = Append(madeFor, version)
  /\ alive' = alive \cup {Len(madeFor')}

Answers(t, answer, session, seen) ==
  sessionRun' = [sessionRun EXCEPT ![t].at = "answered", ![t].answer = answer,
                                   ![t].session = session, ![t].seen = seen]

\* The one request of a phase.  A session that was refused at the login means wrong credentials.
CallProvider(t) ==
  LET run == sessionRun[t]
      offered == {a \in App : offer[a] # 0}
      Says(answer) == Answers(t, answer, run.session, run.seen)
  IN
  /\ run.at = "calling"
  /\ \/ /\ run.phase = "login" /\ LogIn(run.version)
        /\ Answers(t, "done", Len(madeFor'), run.seen) /\ UNCHANGED troubles
     \/ run.phase = "login" /\ Says("failed") /\ Trouble /\ UNCHANGED <<alive, madeFor>>
     \/ /\ run.phase # "login" /\ run.session \notin alive /\ Says("expired")
        /\ UNCHANGED <<alive, madeFor, troubles>>
     \/ /\ run.phase = "applications" /\ run.session \in alive
        /\ IF offered = {} THEN Says("failed")
           ELSE Answers(t, "done", run.session,
                        IF kind = "wangyan" THEN offer
                        ELSE [a \in App |-> IF a \in offered THEN Unread ELSE 0])
        /\ UNCHANGED <<alive, madeFor, troubles>>
     \/ /\ run.phase = "options" /\ run.session \in alive
        /\ \E a \in App :
             /\ run.seen[a] = Unread
             /\ IF offer[a] = 0 THEN Says("failed")
                ELSE Answers(t, "done", run.session, [run.seen EXCEPT ![a] = offer[a]])
        /\ UNCHANGED <<alive, madeFor, troubles>>
     \/ Says("unavailable") /\ Trouble /\ UNCHANGED <<alive, madeFor>>
  /\ UNCHANGED <<conn, renewal, renewalHolder, app, tokens, promised, kind, offer>>

\* The claim and what it began with are still there.
RenewalHeld(t) ==
  /\ renewalHolder = t /\ conn.status = "reauth_required"
  /\ conn.version = sessionRun[t].version /\ conn.token = sessionRun[t].token

\* An application that could be used has another configuration or is gone.
ConfigChanged(seen) == \E a \in App : app[a].token = conn.token /\ seen[a] # app[a].config

Seen(seen, token) ==
  [a \in App |-> IF seen[a] = 0 THEN app[a] ELSE [token |-> token, config |-> seen[a]]]

Promises(seen, token) == promised \cup {<<token, a, seen[a]>> : a \in {b \in App : seen[b] # 0}}

\* _publish
Publishes(run) ==
  LET changed == ConfigChanged(run.seen)
      token == IF changed THEN tokens + 1 ELSE conn.token
  IN
  /\ conn' = [conn EXCEPT !.status = "active", !.token = token, !.session = run.session]
  /\ tokens' = IF changed THEN tokens + 1 ELSE tokens
  /\ app' = Seen(run.seen, token) /\ promised' = Promises(run.seen, token)

\* Mutant: a candidate that expired is tried again.
AfterExpiry_Keeps(r) == [r EXCEPT !.attempts = 0, !.due = TRUE]

\* Only the login is begun again, its attempts are counted on.
AfterExpiry(r) ==
  [r EXCEPT !.phase = "login", !.attempts = 0, !.candidate = 0, !.seen = [a \in App |-> 0],
            !.due = TRUE]

StoreRenewal(t) ==
  LET run == sessionRun[t]
      freed == [renewal EXCEPT !.live = FALSE]
      over == [freed EXCEPT !.due = FALSE, !.attempts = 0]
      Continues(phase) == renewal' = [over EXCEPT !.phase = phase, !.candidate = run.session,
                                                  !.seen = run.seen]
      NothingPublished == UNCHANGED <<app, tokens, promised>>
  IN
  /\ run.at = "answered" /\ EndsSession(t)
  /\ IF ~RenewalHeld(t)
     THEN UNCHANGED <<conn, renewal, renewalHolder>> /\ NothingPublished
     ELSE /\ renewalHolder' = None
          /\ \/ /\ run.answer = "done"
                /\ IF run.phase = "login" \/ \E a \in App : run.seen[a] = Unread
                   THEN /\ Continues(IF run.phase = "login" THEN "applications" ELSE "options")
                        /\ UNCHANGED conn /\ NothingPublished
                   ELSE /\ renewal' = [over EXCEPT !.phase = "complete", !.candidate = 0,
                                                   !.seen = [a \in App |-> 0]]
                        /\ Publishes(run)
             \/ /\ run.answer = "expired" /\ renewal' = AfterExpiry(freed)
                /\ UNCHANGED conn /\ NothingPublished
             \/ /\ run.answer = "unavailable" /\ renewal' = [freed EXCEPT !.due = TRUE]
                /\ UNCHANGED conn /\ NothingPublished
             \/ /\ run.answer = "failed"
                /\ renewal' = [freed EXCEPT !.phase = "failed", !.candidate = 0]
                /\ conn' = [conn EXCEPT !.status = "error"] /\ NothingPublished
  /\ UNCHANGED troubles /\ ProviderStays

-----------------------------------------------------------------------------
(* Administrators: save_connection and verify_connection.                  *)

SaveConnection ==
  /\ Trouble
  /\ conn' = [status |-> "pending", version |-> conn.version + 1, token |-> None, session |-> 0]
  /\ UNCHANGED <<renewal, renewalHolder, app, sessionRun, tokens, promised>> /\ ProviderStays

\* A verification of more than five minutes may be begun again.
BeginVerification(t) ==
  /\ sessionRun[t].at = "idle" /\ Trouble
  /\ tokens' = tokens + 1
  /\ conn' = [conn EXCEPT !.status = "verifying", !.token = tokens + 1]
  /\ sessionRun' = [sessionRun EXCEPT ![t] = [NoSessionRun EXCEPT !.at = "verifying",
                                                !.version = conn.version, !.token = tokens + 1]]
  /\ UNCHANGED <<renewal, renewalHolder, app, promised>> /\ ProviderStays

CallVerification(t) ==
  LET Says(answer, seen) ==
        sessionRun' = [sessionRun EXCEPT ![t].at = "verified", ![t].answer = answer,
                                         ![t].seen = seen, ![t].session = Len(madeFor')]
  IN
  /\ sessionRun[t].at = "verifying"
  /\ \/ /\ LogIn(sessionRun[t].version) /\ UNCHANGED troubles
        /\ Says(IF \E a \in App : offer[a] # 0 THEN "done" ELSE "failed", offer)
     \/ Trouble /\ UNCHANGED <<alive, madeFor>> /\ Says("failed", sessionRun[t].seen)
  /\ UNCHANGED <<conn, renewal, renewalHolder, app, tokens, promised, kind, offer>>

VerificationHeld(run) ==
  conn.token = run.token /\ conn.version = run.version /\ conn.status = "verifying"

StoreVerification(t) ==
  LET run == sessionRun[t] IN
  /\ run.at = "verified" /\ EndsSession(t)
  /\ IF ~VerificationHeld(run) THEN UNCHANGED <<conn, app, promised>>
     ELSE IF run.answer = "done"
     THEN /\ conn' = [conn EXCEPT !.status = "active", !.session = run.session]
          /\ app' = Seen(run.seen, run.token) /\ promised' = Promises(run.seen, run.token)
     ELSE /\ conn' = [conn EXCEPT !.status = "error", !.token = None]
          /\ UNCHANGED <<app, promised>>
  /\ UNCHANGED <<renewal, renewalHolder, tokens, troubles>> /\ ProviderStays

-----------------------------------------------------------------------------
(* Time, faults and the provider.                                          *)

RenewalDue ==
  /\ renewal.due /\ renewal' = [renewal EXCEPT !.due = FALSE]
  /\ UNCHANGED <<conn, renewalHolder, app, sessionRun, tokens, promised, troubles>> /\ ProviderStays

\* The hard limit (45 s) ends a run before its claim (60 s) lapses, but for a host that stalls.
RenewalLapses ==
  /\ renewal.live /\ (IF renewalHolder = None THEN UNCHANGED troubles ELSE Trouble)
  /\ renewal' = [renewal EXCEPT !.live = FALSE]
  /\ UNCHANGED <<conn, renewalHolder, app, sessionRun, tokens, promised>> /\ ProviderStays

KillSession(t) ==
  /\ sessionRun[t].at # "idle" /\ Trouble /\ EndsSession(t)
  /\ renewalHolder' = (IF renewalHolder = t THEN None ELSE renewalHolder)
  /\ UNCHANGED <<conn, renewal, app, tokens, promised>> /\ ProviderStays

SessionExpires ==
  /\ Trouble /\ \E s \in alive : alive' = alive \ {s}
  /\ UNCHANGED <<conn, renewal, renewalHolder, app, sessionRun, tokens, promised, kind, offer,
                 madeFor>>

OfferChanges ==
  /\ Trouble /\ \E a \in App, c \in Config : c # offer[a] /\ offer' = [offer EXCEPT ![a] = c]
  /\ UNCHANGED <<conn, renewal, renewalHolder, app, sessionRun, tokens, promised, kind, alive,
                 madeFor>>

-----------------------------------------------------------------------------
SessionTask(t) ==
  CallProvider(t) \/ StoreRenewal(t) \/ CallVerification(t) \/ StoreVerification(t)
  \/ MarkExpired(t) \/ UseEnds(t)

SessionNext ==
  \/ \E t \in Task : SessionTask(t) \/ UseSession(t) \/ BeginRenewal(t) \/ BeginVerification(t)
                     \/ KillSession(t)
  \/ RenewalDue \/ RenewalLapses \/ SaveConnection \/ SessionExpires \/ OfferChanges

\* Requests are answered or time out, clocks go on, and the deliveries that wait for the session
\* come again (REFRESHING is retryable; their own queues bring them back).
SessionFairness ==
  /\ \A t \in Task : WF_sessionVars(SessionTask(t))
  /\ SF_sessionVars(\E t \in Task : BeginRenewal(t))
  /\ WF_sessionVars(RenewalDue) /\ WF_sessionVars(renewalHolder = None /\ RenewalLapses)

SessionSpec == SessionInit /\ [][SessionNext]_sessionVars /\ SessionFairness

-----------------------------------------------------------------------------
(* What must hold.                                                         *)

\* A late error of an old session never invalidates a newer login (mark_expired).
MarkedIsExpired == conn.status = "reauth_required" => conn.session \notin alive

\* The session in use was made with the credentials in force, however late an answer to older
\* ones comes (advance_session_refresh, verify_connection).
SessionOfCredentials ==
  /\ conn.status \in {"active", "reauth_required"} => madeFor[conn.session] = conn.version
  /\ renewal.candidate # 0 => madeFor[renewal.candidate] = renewal.version

\* Work that began under a verification token finds the configuration that it began with:
\* no token ever stood for two configurations of an application (_publish).
ProofKeepsConfig == \A p, q \in promised : p[1] = q[1] /\ p[2] = q[2] => p[3] = q[3]

SessionSafe == SessionTypeOK /\ MarkedIsExpired /\ SessionOfCredentials /\ ProofKeepsConfig

\* A session that was lost is renewed, or the connection asks for an administrator
\* (advance_session_refresh).
SessionRenewed == conn.status = "reauth_required" ~> conn.status # "reauth_required"
=============================================================================
