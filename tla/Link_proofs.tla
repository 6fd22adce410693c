---------------------------- MODULE Link_proofs ----------------------------
(* Theorems about LinkSteps, for any numbers of lines, configurations,     *)
(* tasks and faults.  The invariant says what a stored work, a run's copy  *)
(* of it, an effect and a request under way tell of the provider, and that *)
(* only the line that holds the scope has a write in doubt.                *)
EXTENDS LinkSteps, FiniteSetTheorems, TLAPS

\* The kind of the provider, and the stages in which its channel is known to be there.
Jiashu == provider = "jiashu"
ChannelStages == {"read_before", "generate", "save", "verify", "recover_generate", "recover_save"}
ConfigStages  == {"generate", "save", "recover_generate", "recover_save"}

\* The key of a write of a line, from the provider and what the lines ask for.
KeyOf(p, c, i, w) ==
  [step    |-> w.step,
   of      |-> IF p = "wangyan" THEN i ELSE IF w.step = "create" THEN None ELSE c[i],
   version |-> w.version]

\* Only a create of jiashu is ever sent again.
OneShot(e) == provider = "wangyan" \/ e.step # "create"

\* A write that is done at the provider.
Done(e) ==
  /\ e.step = "create" => shelf[IF Jiashu THEN None ELSE e.of] # 0
  /\ e.step = "save"   => jump = e.of

Doubted(e) == effect[e].status \in Uncertain

-----------------------------------------------------------------------------
(* What is known about the work of a line, be it stored or a run's copy.   *)

WorkStages(w) ==
  /\ w.stage \in Recovering => w.stage = RecoveryOf(w.step)
  /\ w.stage = "recover_create" /\ w.page = 2 => w.since = w.doubt
  /\ w.stage = "search" => w.page = 1
  /\ w.stage \in {"search", "lookup"} => ~w.active /\ w.doubt = 0

\* Rows that a work names exist.
WorkRows(w) ==
  /\ \A r \in w.found : shelf[r] # 0
  /\ w.row # 0 => shelf[w.row] # 0

\* wangyan has one write, named after the line; whoever recovers it has its effect.
WangyanWork(i, w) ==
  /\ w.step = "create" /\ w.stage \in {"search", "lookup", "create", "recover_create", "verify"}
  /\ w.doubt # 0 => w.named
  /\ w.named => w.stage \in {"create", "recover_create", "verify"}
  /\ w.stage = "recover_create" => w.named /\ w.found \subseteq {i}
  /\ w.stage = "verify" => w.row # 0
  /\ w.stage = "verify" /\ w.named => w.row = i
  /\ w.stage \in {"recover_create", "verify"} /\ w.named =>
       KeyOf(provider, config, i, w) \in DOMAIN effect

\* Facts that need no scope.
WorkFits(i, w) ==
  /\ WorkStages(w) /\ WorkRows(w)
  /\ Jiashu /\ w.stage \in ChannelStages => shelf[None] # 0
  /\ ~Jiashu => WangyanWork(i, w)

\* The work of the line that holds the scope.
ScopeFits(i, w) ==
  /\ Jiashu /\ w.stage \in ConfigStages => jump \in {0, config[i]}
  /\ ~Jiashu /\ w.stage = "create" => \A k \in Line \ {i} : shelf[k] = 0
  /\ ~Jiashu /\ w.stage = "lookup" /\ w.page = 2 =>
       \A k \in Line \ {i} : shelf[k] = 1 => k \in w.found

\* Work that only the holder of the scope does.
NeedsScope(w) == w.stage \notin {"search", "lookup"} \/ w.page = 2

\* The work of a line that knows of the write e, of which attempt is in doubt.
Weakly(e, attempt, i, w) == KeyOf(provider, config, i, w) = e /\ (w.active \/ w.doubt = attempt)
Knows(e, attempt, i, w) ==
  /\ KeyOf(provider, config, i, w) = e
  /\ \/ w.active /\ w.stage = w.step
     \/ /\ w.doubt = attempt
        /\ w.stage = RecoveryOf(w.step) \/ (~Jiashu /\ w.stage = "verify")

\* The work of the line that holds the scope, as it is stored: a line that is over needs to do
\* nothing about the write, and one that lost its credentials may have forgotten its attempt.
Recalls(e, attempt, i, status, w) ==
  /\ KeyOf(provider, config, i, w) = e
  /\ status # "blocked_auth" => Weakly(e, attempt, i, w)
  /\ status \notin Terminal => Knows(e, attempt, i, w)

-----------------------------------------------------------------------------
(* Rows and runs.                                                          *)

\* A row of a line.
LineOK(i, row) ==
  /\ WorkFits(i, row.work)
  /\ row.status = "needs_resolution" => row.work.stage = "search"
  /\ row.status = "ready" => link[config[i]] # 0
  /\ row.status \notin Terminal /\ NeedsScope(row.work) => scopeHolder = i
  /\ scopeHolder = i =>
       /\ ScopeFits(i, row.work)
       /\ \A e \in DOMAIN effect : Doubted(e) =>
            Recalls(e, effect[e].attempt, i, row.status, row.work)
Lines == \A i \in Line : LineOK(i, line[i])

Sends(run) == run.at \in {"armed", "posted"}
KeyOfRun(run) == KeyOf(provider, config, run.line, run.work)

\* A run, be its claim still its own or not.
RunOK(run) ==
  /\ run.at = "idle" => run = NoLinkRun
  /\ run.at # "idle" => run.line \in Line /\ WorkFits(run.line, run.work)
  /\ run.at \notin {"finish"} => run.decides = "none"
  /\ Sends(run) => /\ run.work.active /\ run.work.stage = run.work.step
                   /\ run.work.named = ~Jiashu
                   /\ KeyOfRun(run) \in DOMAIN effect
                   /\ run.attempt # 0 /\ run.attempt <= effect[KeyOfRun(run)].attempt
  /\ run.at = "posted" /\ run.answer \in {"accepted", "accepted_id"} => Done(KeyOfRun(run))
  /\ run.at = "looked" => ~Jiashu /\ run.work.stage = "verify"
  /\ run.decides # "none" => Jiashu /\ run.work.stage # "recover_create"
  /\ run.decides = "confirmed_absent" => run.work.step = "create" /\ run.work.since = run.work.doubt
  /\ run.decides = "succeeded" => Done(KeyOfRun(run)) /\ shelf[None] # 0
  /\ run.at = "finish" /\ run.status = "ready" =>
       IF Jiashu THEN jump = config[run.line] ELSE run.work.row # 0
  /\ run.at = "finish" /\ run.status = "needs_resolution" => run.work.stage = "search"
Runs == \A t \in Task : RunOK(linkRun[t])

\* A run whose claim is its own.
AtWork == {"working", "armed", "posted", "looked", "finish"}

HolderOK(i, run) ==
  /\ run.line = i /\ run.at \in AtWork
  /\ run.at # "finish" /\ run.work.stage # "search" => scopeHolder = i
  /\ NeedsScope(run.work) => scopeHolder = i
  /\ scopeHolder = i =>
       /\ ScopeFits(i, run.work)
       /\ run.decides = "none" =>
            \A e \in DOMAIN effect : Doubted(e) => Knows(e, effect[e].attempt, i, run.work)
       /\ run.decides # "none" =>
            \A e \in DOMAIN effect : Doubted(e) => Weakly(e, effect[e].attempt, i, run.work)
  /\ Sends(run) => run.attempt = effect[KeyOfRun(run)].attempt
Holders ==
  \A i \in Line : lineHolder[i] # None =>
    line[i].status = "pending" /\ HolderOK(i, linkRun[lineHolder[i]])

-----------------------------------------------------------------------------
(* Writes, requests under way and the provider.                            *)

\* An effect: what its status says of the provider.
EffectOK(e, row) ==
  /\ Jiashu => IF e.step = "create" THEN e.of = None ELSE e.of \in Episode
  /\ ~Jiashu => e.step = "create" /\ e.of \in Line
  /\ row.attempt # 0
  /\ row.attempt # 1 => ~OneShot(e)
  /\ row.status = "confirmed_absent" => ~OneShot(e) /\ row.since = row.attempt
  /\ row.status = "succeeded" => Done(e)
  /\ row.row # 0 => ~Jiashu /\ row.row = e.of /\ shelf[e.of] # 0
  /\ e.step = "save" => shelf[None] # 0
  /\ row.status \in Uncertain =>
       /\ scopeHolder # None
       /\ e.step = "save" => jump \in {0, e.of}
       /\ ~Jiashu => \A k \in Line \ {e.of} : shelf[k] = 0
Effects == \A e \in DOMAIN effect : EffectOK(e, effect[e])

\* A request under way.
FlightOK(f) ==
  /\ f[1] \in DOMAIN effect
  /\ Jiashu /\ f[1].step # "create" => f[1].of = config[f[2]]
  /\ ~Jiashu => f[1].of = f[2]
Flights == \A f \in flying : FlightOK(f)

\* One run at most sends an attempt.
OneSender ==
  \A t, u \in Task :
    /\ Sends(linkRun[t]) /\ Sends(linkRun[u]) /\ linkRun[t].attempt = linkRun[u].attempt
    /\ KeyOfRun(linkRun[t]) = KeyOfRun(linkRun[u])
    => t = u

\* A request that was given up is the only one of its write, unless that is sent again.
Quiet(e, run) == Sends(run) /\ KeyOfRun(run) = e => run.at = "posted" /\ run.answer = "unknown"
OneFlight == \A f \in flying : OneShot(f[1]) => \A t \in Task : Quiet(f[1], linkRun[t])

\* Nothing is under way of a write that was refused.
Refused ==
  \A e \in DOMAIN effect : OneShot(e) /\ effect[e].status = "failed" =>
    /\ \A f \in flying : f[1] # e
    /\ \A t \in Task : linkRun[t].at = "armed" => KeyOfRun(linkRun[t]) # e

\* The provider, and the links that name its rows.
World ==
  /\ Jiashu => \A k \in Line : shelf[k] = 0
  /\ ~Jiashu => jump = 0
  /\ jump # 0 => shelf[None] # 0
  /\ \A i, k \in Line : shelf[i] # 0 /\ shelf[k] # 0 => i = k
  /\ \A c \in Episode : link[c] # 0 => shelf[link[c]] # 0 /\ (Jiashu => jump = c)
  /\ ~overwritten
  /\ credentials <= linkFaults

\* The inductive invariant.
LinkInv == /\ LinkTypeOK /\ Lines /\ Runs /\ Holders /\ Effects /\ Flights
           /\ OneSender /\ OneFlight /\ Refused /\ World

\* The types of the rows.
RunRow == [at : {"idle", "queued", "working", "armed", "posted", "looked", "verified", "finish",
                 "finished"},
           line : Line \cup {None}, work : WorkType,
           status : Terminal \cup {"pending", "busy", "retryable_error", "result_unknown"},
           attempt : Nat, decides : {"none", "succeeded", "confirmed_absent"},
           answer : {"none", "accepted", "accepted_id", "rejected", "unknown"}]
LineRow == [status : Terminal \cup {"none", "pending", "retryable_error", "result_unknown"},
            live : BOOLEAN, work : WorkType]
EffectRow == [status : Uncertain \cup {"succeeded", "failed", "confirmed_absent"},
              attempt : Nat, since : Nat, row : LinkRows \cup {0}]

-----------------------------------------------------------------------------
(* What a step may do to the world and to the effects.                     *)

\* Nothing is lost at the provider, and no effect.
Grown ==
  /\ UNCHANGED <<provider, config>>
  /\ \A r \in LinkRows : shelf[r] # 0 => shelf'[r] # 0
  /\ jump # 0 => jump' = jump
  /\ \A c \in Episode : link[c] # 0 => link'[c] # 0
  /\ DOMAIN effect \subseteq DOMAIN effect'
  /\ \A e \in DOMAIN effect : effect[e].attempt <= effect'[e].attempt

\* No write is newly in doubt.
Calm ==
  /\ DOMAIN effect' = DOMAIN effect
  /\ \A e \in DOMAIN effect :
       effect'[e].attempt = effect[e].attempt /\ (Doubted(e)' => Doubted(e))

\* The scope of a line is as it was, and what it may rely on too.
Steady(k) ==
  /\ scopeHolder' = k <=> scopeHolder = k
  /\ scopeHolder = k => Calm /\ \A w \in WorkType : ScopeFits(k, w) => ScopeFits(k, w)'

\* Rows, runs and effects are records of their types.
LEMMA LinkTypes == LinkTypeOK =>
  /\ line \in [Line -> LineRow] /\ linkRun \in [Task -> RunRow]
  /\ \A e \in DOMAIN effect : e \in EffectKey /\ effect[e] \in EffectRow
  BY DEF LinkTypeOK, LineRow, RunRow, EffectRow

\* Rows, runs, effects and work stay of their types when a field is set.
LEMMA WorkWith ==
  ASSUME NEW w \in WorkType
  PROVE  /\ \A st \in Writes, b \in BOOLEAN : [w EXCEPT !.step = st, !.named = b] \in WorkType
         /\ \A b \in BOOLEAN : [w EXCEPT !.active = b] \in WorkType
  BY ZenonT(90), Zenon DEF WorkType

LEMMA EffectWith ==
  ASSUME NEW r \in EffectRow, NEW n \in LinkRows \cup {0}
  PROVE  [r EXCEPT !.status = "succeeded", !.row = n] \in EffectRow
  BY Zenon DEF EffectRow

LEMMA RunWith ==
  ASSUME NEW r \in RunRow, NEW w \in WorkType, NEW at \in {"working", "finish", "finished"},
         NEW s \in Terminal \cup {"pending", "busy", "retryable_error", "result_unknown"}
  PROVE  [r EXCEPT !.at = at, !.status = s, !.work = w] \in RunRow
<1>1. at \in {"idle", "queued", "working", "armed", "posted", "looked", "verified", "finish", "finished"}
  OBVIOUS
<1> QED
  BY <1>1, ZenonT(90) DEF RunRow

\* KeyOf depends on constants of a behaviour only, so that it can be compared across a step.
LEMMA KeyOfEffect == ASSUME NEW i, NEW w PROVE EffectOf(i, w) = KeyOf(provider, config, i, w)
  BY DEF EffectOf, KeyOf

\* Nothing that is known about a work is lost.
LEMMA WorkKeeps ==
  ASSUME Grown, NEW i \in Line, NEW w \in WorkType, WorkFits(i, w) PROVE WorkFits(i, w)'
<1>1. provider' = provider /\ config' = config
  BY DEF Grown
<1>2. Jiashu' <=> Jiashu
  BY <1>1 DEF Jiashu
<1>3. WorkRows(w)'
  BY SMT DEF WorkRows, WorkFits, Grown, WorkType, LinkRows
<1>4. ~Jiashu => WangyanWork(i, w)'
  BY SMT, <1>1 DEF WangyanWork, WorkFits, Grown
<1> QED
  BY <1>2, <1>3, <1>4 DEF WorkFits, Grown, LinkRows

\* What is done at the provider stays done.
LEMMA DoneKeeps == ASSUME Grown, LinkTypeOK, NEW e, e.of # 0, ~Jiashu => e.of \in Line, Done(e) PROVE Done(e)'
  BY DEF Done, Grown, Jiashu, LinkTypeOK, LinkRows

\* The key of a write of a line names no other line.
LEMMA KeyOfLine ==
  ASSUME LinkTypeOK, NEW i \in Line, NEW w
  PROVE  LET e == KeyOf(provider, config, i, w) IN e.of # 0 /\ (~Jiashu => e.of = i)
<1>1. config[i] \in Episode /\ provider \in {"jiashu", "wangyan"}
  BY DEF LinkTypeOK
<1>2. config[i] # 0 /\ i # 0 /\ None # 0
  BY <1>1, LinkStepsOK
<1> QED
  BY <1>1, <1>2, SMT DEF KeyOf, Jiashu

\* What is known of a run stays true while the world grows.
LEMMA RunKeeps ==
  ASSUME Grown, LinkTypeOK, LinkTypeOK', NEW r \in RunRow, RunOK(r) PROVE RunOK(r)'
<1>0. \A e \in DOMAIN effect' : effect'[e].attempt \in Nat
  BY DEF LinkTypeOK
<1>1. provider' = provider /\ config' = config /\ (Jiashu' <=> Jiashu)
  BY DEF Grown, Jiashu
<1>2. KeyOfRun(r)' = KeyOfRun(r)
  BY <1>1 DEF KeyOfRun
<1>3. r.at # "idle" => r.line \in Line /\ WorkFits(r.line, r.work)'
  BY WorkKeeps DEF RunOK, RunRow
<1>4. Sends(r) => KeyOfRun(r) \in DOMAIN effect' /\ r.attempt <= effect'[KeyOfRun(r)].attempt
  <2> SUFFICES ASSUME Sends(r) PROVE KeyOfRun(r) \in DOMAIN effect' /\ r.attempt <= effect'[KeyOfRun(r)].attempt
    OBVIOUS
  <2> DEFINE e == KeyOfRun(r)
  <2>1. e \in DOMAIN effect /\ r.attempt <= effect[e].attempt
    BY DEF RunOK
  <2>2. e \in DOMAIN effect' /\ effect[e].attempt <= effect'[e].attempt
    BY <2>1 DEF Grown
  <2>3. effect[e].attempt \in Nat
    BY <2>1, LinkTypes DEF EffectRow
  <2>4. effect'[e].attempt \in Nat
    BY <2>2, <1>0
  <2> QED
    BY <2>1, <2>2, <2>3, <2>4 DEF RunRow
<1>5. Done(KeyOfRun(r)) /\ r.at # "idle" => Done(KeyOfRun(r))'
  <2> SUFFICES ASSUME Done(KeyOfRun(r)), r.at # "idle" PROVE Done(KeyOfRun(r))'
    OBVIOUS
  <2>1. KeyOfRun(r).of # 0 /\ (~Jiashu => KeyOfRun(r).of \in Line)
    BY KeyOfLine, <1>3 DEF KeyOfRun
  <2>2. ASSUME NEW e, e = KeyOfRun(r) PROVE Done(e)'
    BY <2>1, <2>2, DoneKeeps
  <2> QED
    BY <2>2, <1>2
<1>6. r.at = "finish" /\ r.status = "ready" =>
        IF Jiashu THEN jump' = config[r.line] ELSE r.work.row # 0
  BY <1>3, LinkStepsOK DEF RunOK, Grown, LinkTypeOK
<1>7. r.decides = "succeeded" => shelf'[None] # 0
  BY DEF RunOK, Grown, LinkRows
<1> QED
  BY <1>1, <1>2, <1>3, <1>4, <1>5, <1>6, <1>7 DEF RunOK, Sends

\* What is known of the writes in doubt stays known.
LEMMA KnownKeeps ==
  ASSUME Grown, Calm, NEW i, NEW w, NEW s
  PROVE  /\ (\A e \in DOMAIN effect : Doubted(e) => Weakly(e, effect[e].attempt, i, w)) =>
              (\A e \in DOMAIN effect : Doubted(e) => Weakly(e, effect[e].attempt, i, w))'
         /\ (\A e \in DOMAIN effect : Doubted(e) => Knows(e, effect[e].attempt, i, w)) =>
              (\A e \in DOMAIN effect : Doubted(e) => Knows(e, effect[e].attempt, i, w))'
         /\ (\A e \in DOMAIN effect : Doubted(e) => Recalls(e, effect[e].attempt, i, s, w)) =>
              (\A e \in DOMAIN effect : Doubted(e) => Recalls(e, effect[e].attempt, i, s, w))'
<1>1. ASSUME NEW e, NEW a PROVE /\ Weakly(e, a, i, w) => Weakly(e, a, i, w)'
                                /\ Knows(e, a, i, w) => Knows(e, a, i, w)'
  BY DEF Weakly, Knows, Grown, Jiashu
<1>2. ASSUME NEW e, NEW a PROVE Recalls(e, a, i, s, w) => Recalls(e, a, i, s, w)'
  BY <1>1 DEF Recalls, Grown
<1>3. ASSUME NEW e \in DOMAIN effect'
      PROVE  e \in DOMAIN effect /\ (Doubted(e)' => Doubted(e)) /\ effect'[e].attempt = effect[e].attempt
  BY DEF Calm
<1> QED
  BY <1>1, <1>2, <1>3

\* What is known of a line stays true while its scope is steady.
LEMMA LineKeeps ==
  ASSUME LinkTypeOK, Grown, NEW k \in Line, Steady(k), NEW row \in LineRow, LineOK(k, row)
  PROVE  LineOK(k, row)'
<1>1. row.work \in WorkType
  BY DEF LineRow
<1>2. WorkFits(k, row.work)'
  BY <1>1, WorkKeeps DEF LineOK
<1>3. row.status = "ready" => link'[config'[k]] # 0
  BY DEF LineOK, Grown, LinkTypeOK
<1>4. ASSUME scopeHolder = k
      PROVE  /\ ScopeFits(k, row.work)'
             /\ (\A e \in DOMAIN effect : Doubted(e) =>
                   Recalls(e, effect[e].attempt, k, row.status, row.work))'
  <2>1. Calm /\ ScopeFits(k, row.work)'
    BY <1>1, <1>4 DEF LineOK, Steady
  <2>2. (\A e \in DOMAIN effect : Doubted(e) =>
           Recalls(e, effect[e].attempt, k, row.status, row.work))'
    BY <2>1, <1>4, KnownKeeps DEF LineOK
  <2> QED
    BY <2>1, <2>2
<1> QED
  BY <1>2, <1>3, <1>4 DEF LineOK, Steady

\* What is known of the run that holds a claim stays true while its scope is steady.
LEMMA HolderKeeps ==
  ASSUME LinkTypeOK, Grown, NEW k \in Line, Steady(k), NEW run \in RunRow, RunOK(run),
         HolderOK(k, run)
  PROVE  HolderOK(k, run)'
<1>1. run.work \in WorkType
  BY DEF RunRow
<1>2. ASSUME scopeHolder = k
      PROVE  /\ ScopeFits(k, run.work)'
             /\ run.decides = "none" =>
                  (\A e \in DOMAIN effect : Doubted(e) => Knows(e, effect[e].attempt, k, run.work))'
             /\ run.decides # "none" =>
                  (\A e \in DOMAIN effect : Doubted(e) => Weakly(e, effect[e].attempt, k, run.work))'
  <2>1. Calm /\ ScopeFits(k, run.work)'
    BY <1>1, <1>2 DEF HolderOK, Steady
  <2>2. CASE run.decides = "none"
    BY <2>1, <2>2, <1>2, KnownKeeps DEF HolderOK
  <2>3. CASE run.decides # "none"
    BY SMTT(90), <2>1, <2>3, <1>2, KnownKeeps DEF HolderOK
  <2> QED
    BY <2>1, <2>2, <2>3
<1>3. KeyOfRun(run)' = KeyOfRun(run)
  BY DEF KeyOfRun, Grown
<1>4. ASSUME Sends(run) PROVE run.attempt = effect'[KeyOfRun(run)].attempt
  <2>1. run.work.stage \in Writes
    BY <1>1, <1>4 DEF RunOK, WorkType
  <2>2. scopeHolder = k
    BY <2>1 DEF HolderOK, NeedsScope, Writes
  <2>3. Calm /\ KeyOfRun(run) \in DOMAIN effect
    BY <2>2, <1>4 DEF Steady, RunOK
  <2> QED
    BY <1>4, <2>3 DEF HolderOK, Calm
<1> QED
  BY <1>2, <1>3, <1>4 DEF HolderOK, Steady, Sends

\* A write whose doubt is over stays as it is.
LEMMA EffectKeeps ==
  ASSUME LinkTypeOK, Grown, NEW e \in EffectKey, NEW row \in EffectRow, EffectOK(e, row),
         row.status \in Uncertain => EffectOK(e, row)'
  PROVE  EffectOK(e, row)'
<1>1. e.of # 0
  BY LinkStepsOK DEF EffectKey
<1>2. row.status = "succeeded" => Done(e)'
  BY <1>1, DoneKeeps DEF EffectOK
<1> QED
  BY <1>2 DEF EffectOK, Grown, Jiashu, OneShot, LinkRows

\* Requests under way keep the key of their line.
LEMMA FlightKeeps == ASSUME Grown, NEW f, FlightOK(f) PROVE FlightOK(f)'
  BY DEF FlightOK, Grown, Jiashu

\* A step need only say what becomes of the rows, runs and claims that it changes.
LEMMA Progress ==
  ASSUME LinkInv, LinkTypeOK', Grown,
         \A k \in Line : (Steady(k) /\ line'[k] = line[k]) \/ LineOK(k, line[k])',
         \A u \in Task : linkRun'[u] = linkRun[u] \/ RunOK(linkRun[u])',
         \A k \in Line : lineHolder'[k] # None =>
           \/ /\ Steady(k) /\ lineHolder'[k] = lineHolder[k] /\ line'[k].status = line[k].status
              /\ linkRun'[lineHolder[k]] = linkRun[lineHolder[k]]
           \/ line'[k].status = "pending" /\ HolderOK(k, linkRun[lineHolder[k]])'
  PROVE  Lines' /\ Runs' /\ Holders'
<1>1. LinkTypeOK /\ Lines /\ Runs /\ Holders
  BY DEF LinkInv
<1>2. line \in [Line -> LineRow] /\ linkRun \in [Task -> RunRow] /\ lineHolder \in [Line -> Task \cup {None}]
  BY <1>1, LinkTypes DEF LinkTypeOK
<1>3. ASSUME NEW k \in Line PROVE LineOK(k, line[k])'
  <2>1. ASSUME Steady(k), NEW r \in LineRow, r = line[k], line'[k] = r PROVE LineOK(k, line[k])'
    <3>1. LineOK(k, r)
      BY <1>1, <2>1 DEF Lines
    <3>2. LineOK(k, r)'
      BY <1>1, <2>1, <3>1, LineKeeps
    <3> QED
      BY <2>1, <3>2
  <2> QED
    BY <2>1, <1>2
<1>4. ASSUME NEW u \in Task PROVE RunOK(linkRun[u])'
  <2>1. ASSUME NEW r \in RunRow, r = linkRun[u], linkRun'[u] = r PROVE RunOK(linkRun[u])'
    <3>1. RunOK(r)
      BY <1>1, <2>1 DEF Runs
    <3>2. RunOK(r)'
      BY <1>1, <2>1, <3>1, RunKeeps
    <3> QED
      BY <2>1, <3>2
  <2> QED
    BY <2>1, <1>2
<1>5. ASSUME NEW k \in Line, lineHolder'[k] # None
      PROVE  line'[k].status = "pending" /\ HolderOK(k, linkRun[lineHolder[k]])'
  <2>1. ASSUME Steady(k), lineHolder'[k] = lineHolder[k], line'[k].status = line[k].status,
               linkRun'[lineHolder[k]] = linkRun[lineHolder[k]]
        PROVE  line'[k].status = "pending" /\ HolderOK(k, linkRun[lineHolder[k]])'
    <3>1. lineHolder[k] \in Task /\ lineHolder[k] # None
      BY <1>2, <1>5, <2>1
    <3>2. PICK r \in RunRow : r = linkRun[lineHolder[k]]
      BY <1>2, <3>1
    <3>3. line[k].status = "pending" /\ HolderOK(k, r) /\ RunOK(r)
      BY <1>1, <3>1, <3>2 DEF Holders, Runs
    <3>4. HolderOK(k, r)'
      BY <1>1, <2>1, <3>3, HolderKeeps
    <3>5. linkRun'[lineHolder'[k]] = r
      BY <2>1, <3>2
    <3> QED
      BY <2>1, <3>3, <3>4, <3>5
  <2> QED
    BY <1>5, <2>1
<1> QED
  BY <1>3, <1>4, <1>5 DEF Lines, Runs, Holders

\* No new sender, request under way or refusal: the three facts about them stay.
LEMMA SendersKeep ==
  ASSUME LinkInv, UNCHANGED <<provider, config>>, flying' \subseteq flying,
         \A u \in Task : linkRun'[u] = linkRun[u] \/ ~Sends(linkRun[u])',
         \A e \in DOMAIN effect' : OneShot(e) /\ effect'[e].status = "failed" =>
           \/ e \in DOMAIN effect /\ effect[e].status = "failed"
           \/ /\ \A f \in flying : f[1] # e
              /\ \A u \in Task : linkRun'[u].at = "armed" => KeyOfRun(linkRun[u]) # e
  PROVE  OneSender' /\ OneFlight' /\ Refused'
<1>1. OneSender /\ OneFlight /\ Refused
  BY DEF LinkInv
<1>2. ASSUME NEW r PROVE KeyOfRun(r)' = KeyOfRun(r) /\ (Sends(r)' <=> Sends(r))
  BY DEF KeyOfRun, Sends
<1>3. ASSUME NEW u \in Task, Sends(linkRun[u])'
      PROVE  /\ linkRun'[u] = linkRun[u] /\ Sends(linkRun[u])
             /\ KeyOfRun(linkRun[u])' = KeyOfRun(linkRun[u])
  <2>1. PICK r : r = linkRun'[u]
    OBVIOUS
  <2>2. r = linkRun[u]
    BY <1>3, <2>1
  <2> QED
    BY <1>2, <1>3, <2>1, <2>2
<1>4. ASSUME NEW e PROVE OneShot(e)' <=> OneShot(e)
  BY DEF OneShot
<1>5. OneSender'
  BY <1>1, <1>3 DEF OneSender
<1>6. OneFlight'
  <2> SUFFICES ASSUME NEW f \in flying', OneShot(f[1])', NEW t \in Task
               PROVE  Quiet(f[1], linkRun[t])'
    BY DEF OneFlight
  <2>1. Quiet(f[1], linkRun[t])
    BY <1>1, <1>4 DEF OneFlight
  <2> QED
    BY <1>3, <2>1 DEF Quiet
<1>7. Refused'
  <2> SUFFICES ASSUME NEW e \in DOMAIN effect', OneShot(e)', effect'[e].status = "failed"
               PROVE  /\ \A f \in flying' : f[1] # e
                      /\ \A t \in Task : linkRun'[t].at = "armed" => KeyOfRun(linkRun[t])' # e
    BY DEF Refused
  <2>1. CASE e \in DOMAIN effect /\ effect[e].status = "failed"
    <3>1. /\ \A f \in flying : f[1] # e
          /\ \A t \in Task : linkRun[t].at = "armed" => KeyOfRun(linkRun[t]) # e
      BY <1>1, <1>4, <2>1 DEF Refused
    <3> QED
      BY <1>3, <3>1 DEF Sends
  <2>2. CASE /\ \A f \in flying : f[1] # e
             /\ \A u \in Task : linkRun'[u].at = "armed" => KeyOfRun(linkRun[u]) # e
    BY <1>3, <2>2 DEF Sends
  <2> QED
    BY <1>4, <2>1, <2>2
<1> QED
  BY <1>5, <1>6, <1>7

Still == UNCHANGED <<shelf, jump, effect, link, scopeHolder, provider, config, overwritten>>

\* A step that leaves effects, scope and provider alone disturbs nothing known of them.
LEMMA StillWorld ==
  ASSUME LinkInv, LinkTypeOK', Still, credentials' <= linkFaults'
  PROVE  Grown /\ (\A k \in Line : Steady(k)) /\ Effects' /\ World'
<1>1. LinkTypeOK /\ Effects /\ World
  BY DEF LinkInv
<1>2. Grown
  BY <1>1 DEF Still, Grown, LinkTypeOK
<1>3. Calm
  BY DEF Still, Calm, Doubted
<1>4. ASSUME NEW k \in Line, NEW w PROVE ScopeFits(k, w)' <=> ScopeFits(k, w)
  BY DEF Still, ScopeFits, Jiashu
<1>5. ASSUME NEW e, NEW r, EffectOK(e, r) PROVE EffectOK(e, r)'
  BY <1>5 DEF EffectOK, Still, Jiashu, OneShot, Done
<1>6. Effects'
  BY <1>1, <1>5 DEF Effects, Still
<1>7. World'
  BY <1>1 DEF World, Still, Jiashu
<1> QED
  BY <1>2, <1>3, <1>4, <1>6, <1>7 DEF Steady, Still

\* The same with the requests under way.
LEMMA StillKeeps ==
  ASSUME LinkInv, LinkTypeOK', Still, flying' \subseteq flying, credentials' <= linkFaults'
  PROVE  Grown /\ (\A k \in Line : Steady(k)) /\ Effects' /\ Flights' /\ World'
<1>1. Grown /\ (\A k \in Line : Steady(k)) /\ Effects' /\ World'
  BY StillWorld
<1>2. Flights'
  BY <1>1, FlightKeeps DEF LinkInv, Flights
<1> QED
  BY <1>1, <1>2

-----------------------------------------------------------------------------
(* Deliveries, claims that lapse and repairs.                              *)

\* New work fits every line.
LEMMA NewWorkFits == ASSUME NEW i \in Line PROVE WorkFits(i, NewWork) /\ ~NeedsScope(NewWork)
  BY DEF WorkFits, WorkStages, WorkRows, WangyanWork, NewWork, NeedsScope, ChannelStages,
     Recovering

\* An idle task is in order.
LEMMA NoRunOK == RunOK(NoLinkRun) /\ ~Sends(NoLinkRun)
  BY DEF RunOK, NoLinkRun, Sends

\* Runs that hold a line are at work on it, and hold no other.
LEMMA HolderWorks ==
  ASSUME LinkInv, NEW k \in Line, lineHolder[k] # None
  PROVE  /\ lineHolder[k] \in Task /\ linkRun[lineHolder[k]].line = k
         /\ linkRun[lineHolder[k]].at \in AtWork /\ line[k].status = "pending"
         /\ HolderOK(k, linkRun[lineHolder[k]])
  BY SMTT(90) DEF LinkInv, LinkTypeOK, Holders, HolderOK

\* A new line has new work.
LEMMA PrepareLineKeeps ==
  ASSUME LinkInv, LinkTypeOK', NEW i \in Line, PrepareLine(i) PROVE LinkInv'
<1>1. Still /\ UNCHANGED <<flying, linkRun, lineHolder, credentials, linkFaults>>
  BY DEF PrepareLine, Still
<1>2. Grown /\ (\A k \in Line : Steady(k)) /\ Effects' /\ Flights' /\ World'
  BY <1>1, StillKeeps DEF LinkInv, World
<1>3. OneSender' /\ OneFlight' /\ Refused'
  BY <1>1, SendersKeep DEF Still
<1>4. LineOK(i, line[i])'
  <2>1. PICK r \in LineRow : r = line[i]
    BY LinkTypes DEF LinkInv
  <2>2. PICK n \in LineRow : n = line'[i]
    BY LinkTypes DEF LinkTypeOK, LineRow
  <2>3. r.status = "none" /\ n.status = "pending" /\ n.work = r.work
    BY <2>1, <2>2, LinkTypes DEF PrepareLine, LinkInv, LineRow
  <2>4. LineOK(i, r)'
    BY <1>2, <2>1, LineKeeps DEF LinkInv, Lines
  <2>5. LineOK(i, n)'
    BY <2>3, <2>4 DEF LineOK, Recalls, Terminal
  <2> QED
    BY <2>2, <2>5
<1>5. \A k \in Line \ {i} : line'[k] = line[k]
  BY DEF PrepareLine, LinkInv, LinkTypeOK
<1>6. lineHolder[i] = None
  BY HolderWorks DEF PrepareLine
<1>7. Lines' /\ Runs' /\ Holders'
  BY <1>1, <1>2, <1>4, <1>5, <1>6, Progress
<1> QED
  BY <1>2, <1>3, <1>7 DEF LinkInv

\* A line that the operator decided about has done no write yet.
LEMMA SelectCandidateKeeps ==
  ASSUME LinkInv, LinkTypeOK', NEW i \in Line, SelectCandidate(i) PROVE LinkInv'
<1>1. Still /\ UNCHANGED <<flying, linkRun, credentials, linkFaults>>
  BY DEF SelectCandidate, Still
<1>2. Grown /\ (\A k \in Line : Steady(k)) /\ Effects' /\ Flights' /\ World'
  BY <1>1, StillKeeps DEF LinkInv, World
<1>3. OneSender' /\ OneFlight' /\ Refused'
  BY <1>1, SendersKeep DEF Still
<1>4. LineOK(i, line[i])'
  <2>1. PICK r \in LineRow : r = line[i]
    BY LinkTypes DEF LinkInv
  <2>2. PICK n \in LineRow : n = line'[i]
    BY LinkTypes DEF LinkTypeOK, LineRow
  <2>3. r.status = "needs_resolution" /\ n.status = "pending" /\ n.work = [r.work EXCEPT !.stage = "lookup"]
    BY <2>1, <2>2, LinkTypes DEF SelectCandidate, LinkInv, LineRow
  <2>4. r.work \in WorkType /\ n.work \in WorkType
    BY DEF LineRow
  <2>5. LineOK(i, r)'
    BY <1>2, <2>1, LineKeeps DEF LinkInv, Lines
  <2>6. /\ n.work.stage = "lookup" /\ n.work.step = r.work.step /\ n.work.page = r.work.page
        /\ n.work.found = r.work.found /\ n.work.row = r.work.row /\ n.work.active = r.work.active
        /\ n.work.named = r.work.named /\ n.work.doubt = r.work.doubt
    BY <2>3, <2>4 DEF WorkType
  <2>7. /\ r.work.stage = "search" /\ r.work.page = 1 /\ ~r.work.active /\ r.work.doubt = 0
    BY <2>3, <2>5 DEF LineOK, WorkFits, WorkStages
  <2>8. scopeHolder' = i => \A e \in DOMAIN effect' : ~Doubted(e)'
    <3> SUFFICES ASSUME scopeHolder' = i, NEW e \in DOMAIN effect', Doubted(e)' PROVE FALSE
      OBVIOUS
    <3>1. Weakly(e, effect[e].attempt, i, r.work)'
      BY <2>3, <2>5 DEF LineOK, Recalls
    <3>2. effect'[e].attempt = 0
      BY <2>7, <3>1 DEF Weakly
    <3>3. EffectOK(e, effect[e])'
      BY <1>2 DEF Effects
    <3> QED
      BY <3>2, <3>3 DEF EffectOK
  <2>9. WorkFits(i, n.work)' /\ ScopeFits(i, n.work)' /\ ~NeedsScope(n.work)
    BY <2>4, <2>5, <2>6, <2>7 DEF LineOK, WorkFits, WorkStages, WorkRows, WangyanWork,
       ScopeFits, NeedsScope,
       ChannelStages, ConfigStages, Recovering
  <2>10. LineOK(i, n)'
    BY <2>3, <2>8, <2>9 DEF LineOK, Terminal, NeedsScope
  <2> QED
    BY <2>2, <2>10
<1>5. \A k \in Line \ {i} : line'[k] = line[k] /\ lineHolder'[k] = lineHolder[k]
  BY DEF SelectCandidate, LinkInv, LinkTypeOK
<1>6. lineHolder'[i] = None
  BY DEF SelectCandidate, LinkInv, LinkTypeOK
<1>7. Lines' /\ Runs' /\ Holders'
  BY <1>1, <1>2, <1>4, <1>5, <1>6, Progress
<1> QED
  BY <1>2, <1>3, <1>7 DEF LinkInv

\* LineClaimLapses, LinkStalls: whether a claim is live says nothing about the work.
LEMMA LapseKeeps ==
  ASSUME LinkInv, LinkTypeOK', NEW i \in Line, LineClaimLapses(i) \/ LinkStalls(i) PROVE LinkInv'
<1>1. Still /\ UNCHANGED <<flying, linkRun, lineHolder, credentials>>
  BY DEF LineClaimLapses, LinkStalls, Still
<1>2. credentials' <= linkFaults'
  BY DEF LineClaimLapses, LinkStalls, LinkInv, World, LinkTypeOK, Version
<1>3. Grown /\ (\A k \in Line : Steady(k)) /\ Effects' /\ Flights' /\ World'
  BY <1>1, <1>2, StillKeeps
<1>4. OneSender' /\ OneFlight' /\ Refused'
  BY <1>1, SendersKeep DEF Still
<1>5. line' = [line EXCEPT ![i].live = FALSE]
  BY DEF LineClaimLapses, LinkStalls
<1>6. line'[i].status = line[i].status
  BY <1>5, LinkTypes DEF LinkInv, LineRow
<1>7. LineOK(i, line[i])'
  <2>1. PICK r \in LineRow : r = line[i]
    BY LinkTypes DEF LinkInv
  <2>2. PICK n \in LineRow : n = line'[i]
    BY LinkTypes DEF LinkTypeOK, LineRow
  <2>3. n.status = r.status /\ n.work = r.work
    BY <1>5, <2>1, <2>2, LinkTypes DEF LinkInv, LineRow
  <2>4. LineOK(i, r)'
    BY <1>3, <2>1, LineKeeps DEF LinkInv, Lines
  <2>5. LineOK(i, n)'
    BY <2>3, <2>4 DEF LineOK
  <2> QED
    BY <2>2, <2>5
<1>8. \A k \in Line \ {i} : line'[k] = line[k]
  BY <1>5 DEF LinkInv, LinkTypeOK
<1>9. Lines' /\ Runs' /\ Holders'
  BY <1>1, <1>3, <1>6, <1>7, <1>8, Progress
<1> QED
  BY <1>3, <1>4, <1>9 DEF LinkInv

\* WatchdogDue, RepairLine, ReplaceCredentials
LEMMA MessageKeeps ==
  ASSUME LinkInv, LinkTypeOK', ReplaceCredentials \/ \E i \in Line : WatchdogDue(i) \/ RepairLine(i)
  PROVE  LinkInv'
<1>1. Still /\ UNCHANGED <<flying, linkRun, lineHolder, line>>
  BY DEF WatchdogDue, RepairLine, ReplaceCredentials, Still
<1>2. credentials' <= linkFaults'
  BY DEF WatchdogDue, RepairLine, ReplaceCredentials, LinkInv, World, LinkTypeOK, Version
<1>3. Grown /\ (\A k \in Line : Steady(k)) /\ Effects' /\ Flights' /\ World'
  BY <1>1, <1>2, StillKeeps
<1>4. OneSender' /\ OneFlight' /\ Refused'
  BY <1>1, SendersKeep DEF Still
<1>5. Lines' /\ Runs' /\ Holders'
  BY <1>1, <1>3, Progress
<1> QED
  BY <1>3, <1>4, <1>5 DEF LinkInv

\* A delivery takes the message, not the claim.
LEMMA TakeLineKeeps ==
  ASSUME LinkInv, LinkTypeOK', NEW t \in Task, NEW i \in Line, TakeLine(t, i) PROVE LinkInv'
<1>1. Still /\ UNCHANGED <<flying, lineHolder, line, credentials, linkFaults>>
  BY DEF TakeLine, Still
<1>2. Grown /\ (\A k \in Line : Steady(k)) /\ Effects' /\ Flights' /\ World'
  BY <1>1, StillKeeps DEF LinkInv, World
<1>3. linkRun' = linkRun \/ linkRun' = [linkRun EXCEPT ![t] = [NoLinkRun EXCEPT !.at = "queued", !.line = i]]
  <2>1. linkRun[t] = NoLinkRun
    BY DEF TakeLine, LinkInv, Runs, RunOK
  <2>2. linkRun \in [Task -> RunRow] /\ NoLinkRun \in [at : {"idle"}, line : {None}, work : {NewWork},
          status : {"pending"}, decides : {"none"}, answer : {"none"}, attempt : {0}]
    BY LinkTypes DEF LinkInv, NoLinkRun
  <2>3. linkRun' = linkRun \/ linkRun' = [linkRun EXCEPT ![t].at = "queued", ![t].line = i]
    BY DEF TakeLine
  <2>4. [linkRun EXCEPT ![t].at = "queued", ![t].line = i]
          = [linkRun EXCEPT ![t] = [linkRun[t] EXCEPT !.at = "queued", !.line = i]]
    BY <2>2
  <2> QED
    BY <2>1, <2>3, <2>4
<1>4. ASSUME NEW r, r = [NoLinkRun EXCEPT !.at = "queued", !.line = i]
      PROVE  RunOK(r)' /\ ~Sends(r)
  <2>1. /\ r.at = "queued" /\ r.line = i /\ r.work = NewWork /\ r.decides = "none"
    BY <1>4 DEF NoLinkRun
  <2>2. WorkFits(i, NewWork)'
    BY NewWorkFits DEF WorkFits, WorkStages, WorkRows, WangyanWork, NewWork, ChannelStages,
       Recovering
  <2> QED
    BY <2>1, <2>2 DEF RunOK, Sends
<1>5. \A u \in Task : linkRun'[u] = linkRun[u] \/ (RunOK(linkRun[u])' /\ ~Sends(linkRun[u])')
  <2>1. linkRun \in [Task -> RunRow]
    BY LinkTypes DEF LinkInv
  <2>2. PICK r : r = [NoLinkRun EXCEPT !.at = "queued", !.line = i]
    OBVIOUS
  <2>3. linkRun' = linkRun \/ (linkRun'[t] = r /\ \A u \in Task \ {t} : linkRun'[u] = linkRun[u])
    BY <1>3, <2>1, <2>2
  <2>4. RunOK(r)' /\ ~Sends(r)'
    BY <1>4, <2>2 DEF Sends
  <2> QED
    BY <2>3, <2>4
<1>6. \A k \in Line : lineHolder[k] # None => linkRun'[lineHolder[k]] = linkRun[lineHolder[k]]
  <2>1. \A k \in Line : lineHolder[k] # None => lineHolder[k] # t \/ linkRun' = linkRun
    BY HolderWorks DEF TakeLine, AtWork
  <2> QED
    BY <1>3, <2>1, HolderWorks DEF LinkInv, LinkTypeOK
<1>7. OneSender' /\ OneFlight' /\ Refused'
  BY <1>1, <1>5, SendersKeep DEF Still
<1>8. Lines' /\ Runs' /\ Holders'
  BY <1>1, <1>2, <1>5, <1>6, Progress
<1> QED
  BY <1>2, <1>7, <1>8 DEF LinkInv

\* EndDelivery, KillLink: a run that is over holds no line.
LEMMA RunEndsKeeps ==
  ASSUME LinkInv, LinkTypeOK', NEW t \in Task, EndDelivery(t) \/ KillLink(t) PROVE LinkInv'
<1>1. Still /\ UNCHANGED <<flying, line, credentials>>
  BY DEF EndDelivery, KillLink, Still
<1>2. credentials' <= linkFaults'
  BY DEF EndDelivery, KillLink, LinkInv, World, LinkTypeOK, Version
<1>3. Grown /\ (\A k \in Line : Steady(k)) /\ Effects' /\ Flights' /\ World'
  BY <1>1, <1>2, StillKeeps
<1>4. linkRun' = [linkRun EXCEPT ![t] = NoLinkRun]
  BY DEF EndDelivery, KillLink, LinkRunEnds
<1>5. \A u \in Task : linkRun'[u] = linkRun[u] \/ (RunOK(linkRun[u])' /\ ~Sends(linkRun[u])')
  <2>1. linkRun'[t] = NoLinkRun /\ \A u \in Task \ {t} : linkRun'[u] = linkRun[u]
    BY <1>4 DEF LinkInv, LinkTypeOK
  <2>2. \A r : r = NoLinkRun => RunOK(r)' /\ ~Sends(r)'
    BY NoRunOK DEF RunOK, NoLinkRun, Sends
  <2> QED
    BY <2>1, <2>2
<1>6. ASSUME NEW k \in Line, lineHolder'[k] # None
      PROVE  lineHolder'[k] = lineHolder[k] /\ lineHolder[k] \in Task \ {t}
  <2>1. CASE EndDelivery(t)
    <3>1. lineHolder' = lineHolder /\ linkRun[t].at = "finished"
      BY <2>1 DEF EndDelivery
    <3> QED
      BY <1>6, <3>1, HolderWorks DEF AtWork
  <2>2. CASE KillLink(t)
    <3>1. lineHolder'[k] = IF lineHolder[k] = t THEN None ELSE lineHolder[k]
      BY <2>2 DEF KillLink, Forget, LinkInv, LinkTypeOK
    <3> QED
      BY <1>6, <3>1, HolderWorks
  <2> QED
    BY <2>1, <2>2
<1>7. \A k \in Line : lineHolder'[k] # None => linkRun'[lineHolder[k]] = linkRun[lineHolder[k]]
  BY <1>4, <1>6 DEF LinkInv, LinkTypeOK
<1>8. OneSender' /\ OneFlight' /\ Refused'
  BY <1>1, <1>5, SendersKeep DEF Still
<1>9. Lines' /\ Runs' /\ Holders'
  BY <1>1, <1>3, <1>5, <1>6, <1>7, Progress
<1> QED
  BY <1>3, <1>8, <1>9 DEF LinkInv

-----------------------------------------------------------------------------
(* The units: a run that has done its part goes on to finish.              *)

\* What is known of a run that goes on to finish with these.
Outcome(i, status, w, decides) ==
  /\ WorkFits(i, w)
  /\ decides # "none" => Jiashu /\ w.stage # "recover_create"
  /\ decides = "confirmed_absent" => w.step = "create" /\ w.since = w.doubt
  /\ decides = "succeeded" => Done(KeyOf(provider, config, i, w)) /\ shelf[None] # 0
  /\ status = "ready" => IF Jiashu THEN jump = config[i] ELSE w.row # 0
  /\ status = "needs_resolution" => w.stage = "search"

\* What is known of it besides, if it holds the line.
OutcomeHeld(i, w, decides) ==
  /\ NeedsScope(w) => scopeHolder = i
  /\ scopeHolder = i =>
       /\ ScopeFits(i, w)
       /\ decides = "none" => \A e \in DOMAIN effect : Doubted(e) => Knows(e, effect[e].attempt, i, w)
       /\ decides # "none" => \A e \in DOMAIN effect : Doubted(e) => Weakly(e, effect[e].attempt, i, w)

\* The run of a unit that is over.
LEMMA ToFinishDoes ==
  ASSUME LinkTypeOK, LinkTypeOK', NEW t \in Task, NEW s, NEW w, NEW d, ToFinish(t, s, w, d)
  PROVE  \E r \in RunRow :
           /\ linkRun'[t] = r /\ \A u \in Task \ {t} : linkRun'[u] = linkRun[u]
           /\ r.at = "finish" /\ r.line = linkRun[t].line /\ r.status = s /\ r.work = w /\ r.decides = d
<1>1. linkRun \in [Task -> RunRow] /\ linkRun' \in [Task -> RunRow]
  BY LinkTypes DEF LinkTypeOK, RunRow
<1>2. linkRun' = [linkRun EXCEPT ![t].at = "finish", ![t].status = s, ![t].work = w, ![t].decides = d]
  BY DEF ToFinish
<1>3. \A u \in Task \ {t} : linkRun'[u] = linkRun[u]
  BY <1>1, <1>2
<1>4. linkRun'[t] = [linkRun[t] EXCEPT !.at = "finish", !.status = s, !.work = w, !.decides = d]
  BY <1>1, <1>2
<1>5. linkRun'[t] \in RunRow /\ linkRun[t] \in RunRow
  BY <1>1
<1> HIDE <1>2
<1> QED
  BY ZenonT(90), <1>3, <1>4, <1>5 DEF RunRow

\* A run that goes on to finish is in order if its outcome fits.
LEMMA RunFinishes ==
  ASSUME LinkInv, LinkTypeOK', Grown, \A k \in Line : Steady(k), UNCHANGED lineHolder,
         \A k \in Line : line'[k].status = line[k].status /\ (line'[k] = line[k] \/ LineOK(k, line[k])'),
         NEW t \in Task, linkRun[t].at \in AtWork, NEW i \in Line, i = linkRun[t].line,
         NEW s, NEW w, NEW d, ToFinish(t, s, w, d),
         Outcome(i, s, w, d)', lineHolder[i] = t => OutcomeHeld(i, w, d)'
  PROVE  /\ Lines' /\ Runs' /\ Holders'
         /\ \A u \in Task : linkRun'[u] = linkRun[u] \/ ~Sends(linkRun[u])'
<1>1. PICK r \in RunRow :
           /\ linkRun'[t] = r /\ \A u \in Task \ {t} : linkRun'[u] = linkRun[u]
           /\ r.at = "finish" /\ r.line = i /\ r.status = s /\ r.work = w /\ r.decides = d
  BY ToFinishDoes DEF LinkInv
<1>2. RunOK(r)'
  BY <1>1 DEF RunOK, Outcome, KeyOfRun, Sends
<1>3. ~Sends(r)'
  BY <1>1 DEF Sends
<1>4. lineHolder[i] = t => HolderOK(i, r)'
  BY <1>1, <1>3 DEF HolderOK, OutcomeHeld, AtWork
<1>5. \A u \in Task : linkRun'[u] = linkRun[u] \/ (RunOK(linkRun[u])' /\ ~Sends(linkRun[u])')
  BY <1>1, <1>2, <1>3
<1>6. ASSUME NEW k \in Line, lineHolder'[k] # None, linkRun'[lineHolder[k]] # linkRun[lineHolder[k]]
      PROVE  line'[k].status = "pending" /\ HolderOK(k, linkRun[lineHolder[k]])'
  <2>1. lineHolder[k] = t /\ k = i /\ line[k].status = "pending"
    BY <1>1, <1>6, HolderWorks
  <2> QED
    BY <1>1, <1>4, <2>1
<1>7. Lines' /\ Runs' /\ Holders'
  BY <1>5, <1>6, Progress
<1> QED
  BY <1>5, <1>7

\* Another stage of the same write.
LEMMA StillWeakly ==
  ASSUME NEW i, NEW w, OutcomeHeld(i, w, "none"), scopeHolder = i,
         NEW v, v.step = w.step, v.version = w.version, v.active = w.active, v.doubt = w.doubt
  PROVE  \A e \in DOMAIN effect : Doubted(e) => Weakly(e, effect[e].attempt, i, v)
  BY DEF OutcomeHeld, Knows, Weakly, KeyOf

\* What is known of a run in the middle of a unit.
LEMMA RunAtWork ==
  ASSUME LinkInv, NEW t \in Task, linkRun[t].at \in {"working", "armed", "posted", "looked"},
         NEW i, i = linkRun[t].line, NEW w, w = linkRun[t].work
  PROVE  /\ i \in Line /\ w \in WorkType /\ WorkFits(i, w)
         /\ lineHolder[i] = t => OutcomeHeld(i, w, "none") /\ (w.stage # "search" => scopeHolder = i)
<1>1. PICK r \in RunRow : r = linkRun[t]
  BY LinkTypes DEF LinkInv
<1>2. RunOK(r)
  BY <1>1 DEF LinkInv, Runs
<1>3. i \in Line /\ w \in WorkType /\ WorkFits(i, w) /\ r.decides = "none"
  BY <1>1, <1>2 DEF RunOK, RunRow
<1>4. ASSUME lineHolder[i] = t PROVE HolderOK(i, r)
  <2>1. lineHolder[i] # None
    BY <1>4, TasksOK
  <2> QED
    BY <1>1, <1>3, <1>4, <2>1, HolderWorks
<1>5. lineHolder[i] = t => OutcomeHeld(i, w, "none") /\ (w.stage # "search" => scopeHolder = i)
  BY <1>1, <1>3, <1>4 DEF HolderOK, OutcomeHeld
<1> QED
  BY <1>3, <1>5

\* A unit that only read: the outcome is all there is to show.
LEMMA StillFinishes ==
  ASSUME LinkInv, LinkTypeOK', Still, UNCHANGED <<line, lineHolder, flying>>, credentials' <= linkFaults',
         NEW t \in Task, linkRun[t].at \in {"working", "posted", "looked"}, NEW i, i = linkRun[t].line,
         NEW s, NEW w, NEW d, ToFinish(t, s, w, d),
         Outcome(i, s, w, d), lineHolder[i] = t => OutcomeHeld(i, w, d)
  PROVE  LinkInv'
<1>1. Grown /\ (\A k \in Line : Steady(k)) /\ Effects' /\ Flights' /\ World'
  BY StillKeeps
<1>2. i \in Line
  BY RunAtWork
<1>3. Outcome(i, s, w, d)'
  BY DEF Outcome, Still, WorkFits, WorkRows, WangyanWork, Done, Jiashu
<1>4. lineHolder[i] = t => OutcomeHeld(i, w, d)'
  BY DEF OutcomeHeld, Still, ScopeFits, Knows, Weakly, Doubted, Jiashu
<1>5. /\ Lines' /\ Runs' /\ Holders'
      /\ \A u \in Task : linkRun'[u] = linkRun[u] \/ ~Sends(linkRun[u])'
  BY <1>1, <1>2, <1>3, <1>4, RunFinishes DEF AtWork
<1>6. OneSender' /\ OneFlight' /\ Refused'
  BY <1>5, SendersKeep DEF Still
<1> QED
  BY <1>1, <1>5, <1>6 DEF LinkInv

\* A step of a run alone leaves effects, scope and provider alone.
LEMMA OnlyRunIsStill ==
  ASSUME LinkInv, LinkTypeOK', OnlyRun, linkFaults <= linkFaults'
  PROVE  Still /\ UNCHANGED <<line, lineHolder, flying>> /\ credentials' <= linkFaults'
  BY DEF OnlyRun, OnlyRunAndRemote, Still, LinkInv, LinkTypeOK, World, Version

\* The search finds the drama and changes nothing else.
LEMMA SearchKeeps == ASSUME LinkInv, LinkTypeOK', NEW t \in Task, Search(t) PROVE LinkInv'
<1>1. Still /\ UNCHANGED <<line, lineHolder, flying>> /\ credentials' <= linkFaults'
  BY OnlyRunIsStill DEF Search, LinkInv, LinkTypeOK
<1>2. PICK i, w : i = linkRun[t].line /\ w = linkRun[t].work
  OBVIOUS
<1>3. linkRun[t].at = "working" /\ w.stage = "search"
  BY <1>2 DEF Search
<1>4. /\ i \in Line /\ w \in WorkType /\ WorkFits(i, w)
      /\ lineHolder[i] = t => OutcomeHeld(i, w, "none")
  BY <1>2, <1>3, RunAtWork
<1>5. CASE ToFinish(t, "needs_resolution", w, "none")
  <2>1. Outcome(i, "needs_resolution", w, "none")
    BY <1>3, <1>4 DEF Outcome
  <2> QED
    BY <1>1, <1>2, <1>3, <1>4, <1>5, <2>1, StillFinishes
<1>6. ASSUME NEW v, v = [w EXCEPT !.stage = "lookup"], ToFinish(t, "pending", v, "none") PROVE LinkInv'
  <2>1. /\ v.stage = "lookup" /\ v.step = w.step /\ v.page = w.page /\ v.found = w.found
        /\ v.row = w.row /\ v.active = w.active /\ v.named = w.named /\ v.doubt = w.doubt
    BY <1>4, <1>6 DEF WorkType
  <2>2. Outcome(i, "pending", v, "none")
    BY <1>3, <1>4, <2>1 DEF Outcome, WorkFits, WorkStages, WorkRows, WangyanWork,
       ChannelStages, Recovering
  <2>3. w.page = 1 /\ ~w.active /\ w.doubt = 0
    BY <1>3, <1>4 DEF WorkFits, WorkStages
  <2>4. ASSUME lineHolder[i] = t PROVE OutcomeHeld(i, v, "none")
    <3>1. scopeHolder = i => \A e \in DOMAIN effect : ~Doubted(e)
      <4> SUFFICES ASSUME scopeHolder = i, NEW e \in DOMAIN effect, Doubted(e) PROVE FALSE
        OBVIOUS
      <4>1. Knows(e, effect[e].attempt, i, w)
        BY <1>4, <2>4 DEF OutcomeHeld
      <4> QED
        BY <1>3, <2>3, <4>1 DEF Knows, RecoveryOf
    <3> QED
      BY <2>1, <2>3, <3>1 DEF OutcomeHeld, NeedsScope, ScopeFits, ConfigStages
  <2> QED
    BY <1>1, <1>2, <1>3, <1>6, <2>2, <2>4, StillFinishes
<1> QED
  BY <1>2, <1>5, <1>6 DEF Search

\* A read that fails leaves the work as it was.
LEMMA ReadFailsKeeps == ASSUME LinkInv, LinkTypeOK', NEW t \in Task, ReadFails(t) PROVE LinkInv'
<1>1. Still /\ UNCHANGED <<line, lineHolder, flying>> /\ credentials' <= linkFaults'
  BY OnlyRunIsStill DEF ReadFails, LinkInv, LinkTypeOK
<1>2. PICK i, w : i = linkRun[t].line /\ w = linkRun[t].work
  OBVIOUS
<1>3. /\ i \in Line /\ WorkFits(i, w) /\ linkRun[t].at = "working"
      /\ lineHolder[i] = t => OutcomeHeld(i, w, "none")
  BY <1>2, RunAtWork DEF ReadFails
<1>4. PICK s \in {"blocked_auth", "result_unknown", "retryable_error", "failed"} :
        ToFinish(t, s, w, "none")
  BY <1>2 DEF ReadFails
<1>5. Outcome(i, s, w, "none")
  BY <1>3, <1>4 DEF Outcome
<1> QED
  BY <1>1, <1>2, <1>3, <1>4, <1>5, StillFinishes

\* A url that was read and is none of the configuration proves nothing (read_before, recover_*).
LEMMA ReadLinkKeeps == ASSUME LinkInv, LinkTypeOK', NEW t \in Task, ReadLink(t) PROVE LinkInv'
<1>1. Still /\ UNCHANGED <<line, lineHolder, flying>> /\ credentials' <= linkFaults'
  BY OnlyRunIsStill DEF ReadLink, LinkInv, LinkTypeOK
<1>2. PICK i, w : i = linkRun[t].line /\ w = linkRun[t].work
  OBVIOUS
<1>3. /\ linkRun[t].at = "working" /\ Jiashu
      /\ w.stage \in {"read_before", "verify", "recover_generate", "recover_save"}
  BY <1>2 DEF ReadLink, Jiashu
<1>4. /\ i \in Line /\ w \in WorkType /\ WorkFits(i, w) /\ shelf[None] # 0
      /\ lineHolder[i] = t => OutcomeHeld(i, w, "none") /\ scopeHolder = i
  BY <1>2, <1>3, RunAtWork DEF WorkFits, ChannelStages
<1>5. ASSUME NEW s \in {"config_conflict", "result_unknown"}, ToFinish(t, s, w, "none") PROVE LinkInv'
  <2>1. Outcome(i, s, w, "none")
    BY <1>4, <1>5 DEF Outcome
  <2> QED
    BY <1>1, <1>2, <1>3, <1>4, <1>5, <2>1, StillFinishes
<1>6. ASSUME jump = config[i], NEW v, v = [w EXCEPT !.row = None],
             NEW d, d = IF w.stage \in Recovering THEN "succeeded" ELSE "none",
             ToFinish(t, "ready", v, d)
      PROVE  LinkInv'
  <2>1. /\ v.stage = w.stage /\ v.step = w.step /\ v.page = w.page /\ v.found = w.found /\ v.row = None
        /\ v.active = w.active /\ v.named = w.named /\ v.doubt = w.doubt /\ v.since = w.since
        /\ v.version = w.version
    BY <1>4, <1>6 DEF WorkType
  <2>2. WorkFits(i, v)
    BY <1>3, <1>4, <2>1 DEF WorkFits, WorkStages, WorkRows, ChannelStages
  <2>3. d = "succeeded" => Done(KeyOf(provider, config, i, v))
    <3>1. w.stage \in Recovering => w.step \in {"generate", "save"}
      BY <1>3, <1>4 DEF WorkFits, WorkStages, RecoveryOf, WorkType, Writes
    <3> QED
      BY <1>3, <1>6, <2>1, <3>1 DEF Done, KeyOf, Jiashu
  <2>4. Outcome(i, "ready", v, d)
    BY <1>3, <1>4, <1>6, <2>2, <2>3 DEF Outcome
  <2>5. ASSUME lineHolder[i] = t PROVE OutcomeHeld(i, v, d)
    <3>1. \A e \in DOMAIN effect : Doubted(e) => Weakly(e, effect[e].attempt, i, v)
      BY <1>4, <2>1, <2>5, StillWeakly
    <3>2. d = "none" => \A e \in DOMAIN effect : Doubted(e) => Knows(e, effect[e].attempt, i, v)
      BY <1>4, <2>1, <2>5 DEF OutcomeHeld, Knows, KeyOf
    <3> QED
      BY <1>3, <1>4, <2>1, <2>5, <3>1, <3>2 DEF OutcomeHeld, NeedsScope, ScopeFits
  <2> QED
    BY <1>1, <1>2, <1>3, <1>4, <1>6, <2>4, <2>5, StillFinishes
<1>7. ASSUME jump = 0, w.stage = "read_before", NEW v, v = [w EXCEPT !.stage = "generate"],
             ToFinish(t, "pending", v, "none")
      PROVE  LinkInv'
  <2>1. /\ v.stage = "generate" /\ v.step = w.step /\ v.page = w.page /\ v.found = w.found
        /\ v.row = w.row /\ v.active = w.active /\ v.named = w.named /\ v.doubt = w.doubt
    BY <1>4, <1>7 DEF WorkType
  <2>2. Outcome(i, "pending", v, "none")
    BY <1>3, <1>4, <2>1 DEF Outcome, WorkFits, WorkStages, WorkRows, Recovering,
       ChannelStages
  <2>3. ASSUME lineHolder[i] = t PROVE OutcomeHeld(i, v, "none")
    <3>1. \A e \in DOMAIN effect : ~Doubted(e)
      <4> SUFFICES ASSUME NEW e \in DOMAIN effect, Doubted(e) PROVE FALSE
        OBVIOUS
      <4>1. Knows(e, effect[e].attempt, i, w)
        BY <1>4, <2>3 DEF OutcomeHeld
      <4> QED
        BY <1>3, <1>4, <1>7, <4>1 DEF Knows, RecoveryOf, WorkType, Writes
    <3> QED
      BY <1>3, <1>4, <1>7, <2>1, <2>3, <3>1 DEF OutcomeHeld, ScopeFits
  <2> QED
    BY <1>1, <1>2, <1>3, <1>4, <1>7, <2>2, <2>3, StillFinishes
<1>8. CASE jump = config[i]
  BY <1>2, <1>6, <1>8 DEF ReadLink
<1>9. CASE jump # config[i] /\ jump # 0
  BY <1>2, <1>5, <1>9 DEF ReadLink, Conflicts
<1>10. CASE jump # config[i] /\ jump = 0
  BY <1>2, <1>5, <1>7, <1>10 DEF ReadLink, Conflicts
<1> QED
  BY <1>8, <1>9, <1>10

\* A promotion that is looked at is the one that the line made or found.
LEMMA VerifyRowKeeps == ASSUME LinkInv, LinkTypeOK', NEW t \in Task, VerifyRow(t) PROVE LinkInv'
<1>1. Still /\ UNCHANGED <<line, lineHolder, flying>> /\ credentials' <= linkFaults'
  BY OnlyRunIsStill DEF VerifyRow, LinkInv, LinkTypeOK
<1>2. PICK i, w, run : run = linkRun[t] /\ i = run.line /\ w = run.work
  OBVIOUS
<1>3. linkRun[t].at = "working" /\ ~Jiashu /\ w.stage = "verify"
  BY <1>2 DEF VerifyRow, Jiashu
<1>4. /\ i \in Line /\ w \in WorkType /\ WorkFits(i, w)
      /\ lineHolder[i] = t => OutcomeHeld(i, w, "none") /\ scopeHolder = i
  BY <1>2, <1>3, RunAtWork
<1>5. CASE ToFinish(t, "busy", w, "none")
  <2>1. Outcome(i, "busy", w, "none")
    BY <1>4 DEF Outcome
  <2> QED
    BY <1>1, <1>2, <1>3, <1>4, <1>5, <2>1, StillFinishes
<1>6. ASSUME NEW d, d = IF w.named /\ w.doubt = 0 THEN effect[EffectOf(i, w)].attempt ELSE w.doubt,
             lineHolder[i] = t, linkRun' = [linkRun EXCEPT ![t].at = "looked", ![t].work.doubt = d]
      PROVE  LinkInv'
  <2>1. run \in RunRow /\ linkRun \in [Task -> RunRow] /\ RunOK(run)
    BY <1>2, LinkTypes DEF LinkInv, Runs
  <2>2. PICK v : v = [w EXCEPT !.doubt = d]
    OBVIOUS
  <2>3. PICK r : r = [run EXCEPT !.at = "looked", !.work = v]
    OBVIOUS
  <2>4. linkRun'[t] = r /\ \A u \in Task \ {t} : linkRun'[u] = linkRun[u]
    BY <1>2, <1>6, <2>1, <2>2, <2>3 DEF RunRow
  <2>5. r.at = "looked" /\ r.line = i /\ r.work = v /\ r.decides = "none"
    BY <1>2, <1>3, <2>1, <2>3 DEF RunRow, RunOK
  <2>6. /\ v.stage = w.stage /\ v.step = w.step /\ v.page = w.page /\ v.found = w.found /\ v.row = w.row
        /\ v.active = w.active /\ v.named = w.named /\ v.doubt = d /\ v.since = w.since
        /\ v.version = w.version
    BY <1>4, <2>2 DEF WorkType
  <2>7. KeyOf(provider, config, i, v) = KeyOf(provider, config, i, w)
    BY <2>6 DEF KeyOf
  <2>8. d # 0 => w.named
    BY <1>3, <1>4, <1>6 DEF WorkFits, WangyanWork
  <2>9. WorkFits(i, v)
    <3>1. WorkStages(v) /\ WorkRows(v)
      BY <1>3, <1>4, <2>6 DEF WorkFits, WorkStages, WorkRows, Recovering
    <3>2. WangyanWork(i, v)
      BY <1>3, <1>4, <2>6, <2>7, <2>8 DEF WorkFits, WangyanWork
    <3> QED
      BY <1>3, <3>1, <3>2 DEF WorkFits
  <2>10. RunOK(r) /\ ~Sends(r)
    BY <1>3, <1>4, <2>5, <2>6, <2>9 DEF RunOK, Sends
  <2>11. HolderOK(i, r)
    <3>1. ASSUME NEW e \in DOMAIN effect, Doubted(e) PROVE Knows(e, effect[e].attempt, i, v)
      <4>1. Knows(e, effect[e].attempt, i, w)
        BY <1>4, <1>6, <3>1 DEF OutcomeHeld
      <4>2. effect[e].attempt # 0
        BY DEF LinkInv, Effects, EffectOK
      <4>3. w.doubt = effect[e].attempt
        BY <1>3, <1>4, <4>1 DEF Knows, WorkType, Writes
      <4> QED
        BY <1>3, <1>6, <2>6, <2>7, <4>1, <4>2, <4>3 DEF Knows
    <3>2. ScopeFits(i, v)
      BY <1>3, <2>6 DEF ScopeFits
    <3> QED
      BY <1>4, <1>6, <2>5, <2>10, <3>1, <3>2 DEF HolderOK, AtWork
  <2>12. Grown /\ (\A k \in Line : Steady(k)) /\ Effects' /\ Flights' /\ World'
    BY <1>1, StillKeeps
  <2>13. r \in RunRow
    BY <2>4, LinkTypes DEF LinkTypeOK, RunRow
  <2>14. RunOK(r)' /\ HolderOK(i, r)'
    BY <1>4, <2>10, <2>11, <2>12, <2>13, RunKeeps, HolderKeeps DEF LinkInv
  <2>15. \A u \in Task : linkRun'[u] = linkRun[u] \/ (RunOK(linkRun[u])' /\ ~Sends(linkRun[u])')
    BY <2>4, <2>10, <2>14 DEF Sends
  <2>16. ASSUME NEW k \in Line, lineHolder[k] # None, linkRun'[lineHolder[k]] # linkRun[lineHolder[k]]
         PROVE  line'[k].status = "pending" /\ HolderOK(k, linkRun[lineHolder[k]])'
    <3>1. lineHolder[k] = t /\ k = i /\ line[k].status = "pending"
      BY <1>2, <2>4, <2>16, HolderWorks
    <3> QED
      BY <1>1, <2>4, <2>14, <3>1
  <2>17. Lines' /\ Runs' /\ Holders'
    BY <1>1, <2>12, <2>15, <2>16, Progress
  <2>18. OneSender' /\ OneFlight' /\ Refused'
    BY <1>1, <2>15, SendersKeep DEF Still
  <2> QED
    BY <2>12, <2>17, <2>18 DEF LinkInv
<1> QED
  BY <1>2, <1>5, <1>6 DEF VerifyRow

\* A line that looks for what is there has no write in doubt.
LEMMA LookupIsSure ==
  ASSUME NEW i, NEW w, w.stage = "lookup" \/ w.stage = "read_before", w.step \in Writes,
         scopeHolder = i, OutcomeHeld(i, w, "none")
  PROVE  \A e \in DOMAIN effect : ~Doubted(e)
<1> SUFFICES ASSUME NEW e \in DOMAIN effect, Doubted(e) PROVE FALSE
  OBVIOUS
<1>1. Knows(e, effect[e].attempt, i, w)
  BY DEF OutcomeHeld
<1> QED
  BY <1>1 DEF Knows, RecoveryOf, Writes

\* A lookup that starts again.
LEMMA RescanFits ==
  ASSUME NEW i \in Line, NEW w \in WorkType, w.stage \in {"lookup", "recover_create"},
         WorkFits(i, w), NEW held \in BOOLEAN, held => OutcomeHeld(i, w, "none") /\ scopeHolder = i,
         NEW s \in {"result_unknown", "failed"}, NEW v, v = Rescan(w)
  PROVE  Outcome(i, s, v, "none") /\ (held => OutcomeHeld(i, v, "none"))
<1>1. /\ v.stage = w.stage /\ v.step = w.step /\ v.page = 1 /\ v.found = {} /\ v.row = 0
      /\ v.active = w.active /\ v.named = w.named /\ v.doubt = w.doubt /\ v.version = w.version
  BY DEF WorkType, Rescan
<1>2. KeyOf(provider, config, i, v) = KeyOf(provider, config, i, w)
  BY <1>1 DEF KeyOf
<1>3. WorkFits(i, v)
  <2>1. WorkStages(v) /\ WorkRows(v)
    BY <1>1 DEF WorkFits, WorkStages, WorkRows
  <2>2. ~Jiashu => WangyanWork(i, v)
    BY <1>1, <1>2 DEF WorkFits, WangyanWork
  <2> QED
    BY <1>1, <2>1, <2>2 DEF WorkFits, ChannelStages
<1>4. Outcome(i, s, v, "none")
  BY <1>3 DEF Outcome
<1>5. ASSUME held PROVE OutcomeHeld(i, v, "none")
  <2>1. ASSUME NEW e \in DOMAIN effect, Doubted(e) PROVE Knows(e, effect[e].attempt, i, v)
    BY <1>1, <1>2, <1>5, <2>1 DEF OutcomeHeld, Knows
  <2>2. ScopeFits(i, v)
    BY <1>1 DEF ScopeFits, ConfigStages
  <2> QED
    BY <1>5, <2>1, <2>2 DEF OutcomeHeld
<1> QED
  BY <1>4, <1>5

\* The end of a lookup that went through the pages of w.
LEMMA LookupDoneFits ==
  ASSUME LinkInv, NEW i \in Line, NEW w \in WorkType, w.stage \in {"lookup", "recover_create"},
         WorkFits(i, w), w.page = 2, NEW held \in BOOLEAN,
         held => OutcomeHeld(i, w, "none") /\ scopeHolder = i,
         held /\ ~Jiashu /\ w.stage = "lookup" => \A k \in Line \ {i} : shelf[k] # 0 => k \in w.found,
         NEW t, LookupDone(t, w)
  PROVE  \E s, v, d : ToFinish(t, s, v, d) /\ Outcome(i, s, v, d) /\ (held => OutcomeHeld(i, v, d))
<1>1. World /\ LinkTypeOK /\ provider \in {"jiashu", "wangyan"}
  BY DEF LinkInv, LinkTypeOK
<1>2. w.stage = "recover_create" => w.step = "create"
  BY DEF WorkFits, WorkStages, Recovering, RecoveryOf, WorkType, Writes
<1>3. w.step \in Writes /\ w.found \subseteq LinkRows
  BY DEF WorkType
<1>4. ASSUME Jiashu, NEW d,
             NEW v, v = [Rescan(w) EXCEPT !.stage = IF w.found # {} THEN "read_before" ELSE "create"],
             d = IF w.stage = "lookup" THEN "none"
                 ELSE IF w.found # {} THEN "succeeded" ELSE "confirmed_absent"
      PROVE  Outcome(i, "pending", v, d) /\ (held => OutcomeHeld(i, v, d))
  <2>1. /\ v.stage = (IF w.found # {} THEN "read_before" ELSE "create") /\ v.step = w.step
        /\ v.page = 1 /\ v.found = {} /\ v.row = 0 /\ v.since = w.since
        /\ v.active = w.active /\ v.named = w.named /\ v.doubt = w.doubt /\ v.version = w.version
    BY <1>4 DEF WorkType, Rescan
  <2>2. w.found # {} => shelf[None] # 0
    BY <1>1, <1>3, <1>4 DEF World, WorkFits, WorkRows, LinkRows
  <2>3. WorkFits(i, v)
    BY <1>4, <2>1, <2>2 DEF WorkFits, WorkStages, WorkRows, Recovering, ChannelStages
  <2>4. d = "succeeded" => Done(KeyOf(provider, config, i, v))
    BY <1>2, <1>4, <2>1, <2>2 DEF Done, KeyOf
  <2>5. d = "confirmed_absent" => v.step = "create" /\ v.since = v.doubt
    BY <1>2, <1>4, <2>1 DEF WorkFits, WorkStages
  <2>6. Outcome(i, "pending", v, d)
    BY <1>4, <2>2, <2>3, <2>4, <2>5 DEF Outcome
  <2>7. ASSUME held PROVE OutcomeHeld(i, v, d)
    <3>1. d = "none" => \A e \in DOMAIN effect : ~Doubted(e)
      BY <1>3, <1>4, <2>7, LookupIsSure
    <3>2. ScopeFits(i, v)
      BY <1>4, <2>1 DEF ScopeFits, ConfigStages
    <3>3. \A e \in DOMAIN effect : Doubted(e) => Weakly(e, effect[e].attempt, i, v)
      BY <2>1, <2>7, StillWeakly
    <3> QED
      BY <2>7, <3>1, <3>2, <3>3 DEF OutcomeHeld
  <2> QED
    BY <2>6, <2>7
<1>5. ASSUME ~Jiashu, NEW r \in w.found, NEW v, v = [Rescan(w) EXCEPT !.stage = "verify", !.row = r]
      PROVE  Outcome(i, "pending", v, "none") /\ (held => OutcomeHeld(i, v, "none"))
  <2>1. /\ v.stage = "verify" /\ v.step = w.step /\ v.page = 1 /\ v.found = {} /\ v.row = r
        /\ v.active = w.active /\ v.named = w.named /\ v.doubt = w.doubt /\ v.version = w.version
    BY <1>5 DEF WorkType, Rescan
  <2>2. KeyOf(provider, config, i, v) = KeyOf(provider, config, i, w)
    BY <2>1 DEF KeyOf
  <2>3. r # 0 /\ shelf[r] # 0
    BY <1>3, LinkStepsOK DEF WorkFits, WorkRows, LinkRows
  <2>4. WorkFits(i, v)
    <3>1. WorkStages(v) /\ WorkRows(v)
      BY <2>1, <2>3 DEF WorkStages, WorkRows, Recovering
    <3>2. WangyanWork(i, v)
      BY <1>5, <2>1, <2>2, <2>3 DEF WorkFits, WangyanWork
    <3> QED
      BY <1>5, <3>1, <3>2 DEF WorkFits
  <2>5. Outcome(i, "pending", v, "none")
    BY <2>4 DEF Outcome
  <2>6. ASSUME held PROVE OutcomeHeld(i, v, "none")
    <3>1. ASSUME NEW e \in DOMAIN effect, Doubted(e) PROVE Knows(e, effect[e].attempt, i, v)
      <4>1. w.stage # "lookup"
        BY <1>3, <2>6, <3>1, LookupIsSure
      <4>2. Knows(e, effect[e].attempt, i, w)
        BY <2>6, <3>1 DEF OutcomeHeld
      <4> QED
        BY <1>2, <1>5, <2>1, <2>2, <4>1, <4>2 DEF Knows
    <3>2. ScopeFits(i, v)
      BY <1>5, <2>1 DEF ScopeFits
    <3> QED
      BY <2>6, <3>1, <3>2 DEF OutcomeHeld
  <2> QED
    BY <2>5, <2>6
<1>6. ASSUME ~Jiashu, w.found = {}, w.stage = "lookup", NEW v, v = [Rescan(w) EXCEPT !.stage = "create"]
      PROVE  Outcome(i, "pending", v, "none") /\ (held => OutcomeHeld(i, v, "none"))
  <2>1. /\ v.stage = "create" /\ v.step = w.step /\ v.page = 1 /\ v.found = {} /\ v.row = 0
        /\ v.active = w.active /\ v.named = w.named /\ v.doubt = w.doubt /\ v.version = w.version
    BY <1>6 DEF WorkType, Rescan
  <2>2. WorkFits(i, v)
    <3>1. WorkStages(v) /\ WorkRows(v)
      BY <2>1 DEF WorkStages, WorkRows, Recovering
    <3>2. WangyanWork(i, v)
      BY <1>6, <2>1 DEF WorkFits, WangyanWork
    <3> QED
      BY <1>6, <3>1, <3>2 DEF WorkFits
  <2>3. ASSUME held PROVE OutcomeHeld(i, v, "none")
    <3>1. \A e \in DOMAIN effect : ~Doubted(e)
      BY <1>3, <1>6, <2>3, LookupIsSure
    <3>2. ScopeFits(i, v)
      BY <1>6, <2>1, <2>3 DEF ScopeFits
    <3> QED
      BY <2>3, <3>1, <3>2 DEF OutcomeHeld
  <2> QED
    BY <2>2, <2>3 DEF Outcome
<1>7. ASSUME ~Jiashu, w.stage # "lookup", NEW v, v = Rescan(w)
      PROVE  Outcome(i, "result_unknown", v, "none") /\ (held => OutcomeHeld(i, v, "none"))
  BY <1>7, RescanFits
<1>8. CASE Jiashu
  BY SMTT(90), <1>4, <1>8 DEF LookupDone, Jiashu
<1>9. CASE ~Jiashu
  BY <1>5, <1>6, <1>7, <1>9 DEF LookupDone, Jiashu
<1> QED
  BY <1>8, <1>9

\* The provider has one promotion at most of those that lines make, and one of earlier times.
LEMMA RowsAreFinite == ASSUME World, shelf \in [LinkRows -> 0 .. 2] PROVE Cardinality({r \in LinkRows : shelf[r] # 0}) \in Nat
<1> DEFINE S == {r \in LinkRows : shelf[r] # 0}
<1>1. CASE \E k \in Line : shelf[k] # 0
  <2>1. PICK k \in Line : shelf[k] # 0
    BY <1>1
  <2>2. S \subseteq {k, None}
    BY <2>1 DEF World, LinkRows
  <2>3. IsFiniteSet({k, None})
    <3>1. IsFiniteSet({k})
      BY FS_Singleton
    <3>2. IsFiniteSet({k} \cup {None})
      BY <3>1, FS_AddElement
    <3>3. {k} \cup {None} = {k, None}
      OBVIOUS
    <3> QED
      BY <3>2, <3>3
  <2> QED
    BY <2>2, <2>3, FS_Subset, FS_CardinalityType
<1>2. CASE \A k \in Line : shelf[k] = 0
  <2>1. S \subseteq {None}
    BY <1>2 DEF LinkRows
  <2>2. IsFiniteSet({None})
    BY FS_Singleton
  <2> QED
    BY <2>1, <2>2, FS_Subset, FS_CardinalityType
<1> QED
  BY <1>1, <1>2

\* A page adds rows that exist.
LEMMA PageFits ==
  ASSUME NEW w \in WorkType, NEW f \in SUBSET LinkRows, NEW n \in Nat, NEW s \in Nat
  PROVE  [w EXCEPT !.found = f, !.total = n, !.page = 2, !.since = s] \in WorkType
<1>1. 2 \in 1 .. 2
  OBVIOUS
<1> QED
  BY <1>1 DEF WorkType

\* A lookup that ended without a row shows that the write did not happen only if it began after it.
LEMMA LookPageKeeps == ASSUME LinkInv, LinkTypeOK', NEW t \in Task, LookPage(t) PROVE LinkInv'
<1>1. Still /\ UNCHANGED <<line, lineHolder, flying>> /\ credentials' <= linkFaults'
  BY SMTT(90), OnlyRunIsStill DEF LookPage, LinkInv, LinkTypeOK
<1>2. PICK i, w : i = linkRun[t].line /\ w = linkRun[t].work
  OBVIOUS
<1>3. linkRun[t].at = "working" /\ w.stage \in {"lookup", "recover_create"}
  BY <1>2 DEF LookPage
<1>4. /\ i \in Line /\ w \in WorkType /\ WorkFits(i, w)
      /\ lineHolder[i] = t => OutcomeHeld(i, w, "none") /\ scopeHolder = i
  BY <1>2, <1>3, RunAtWork
<1>5. PICK held \in BOOLEAN : held <=> lineHolder[i] = t
  OBVIOUS
<1>6. ASSUME NEW s, NEW v, NEW d, ToFinish(t, s, v, d), Outcome(i, s, v, d),
             held => OutcomeHeld(i, v, d)
      PROVE  LinkInv'
  BY <1>1, <1>2, <1>3, <1>5, <1>6, StillFinishes
<1> DEFINE own == provider = "wangyan" /\ w.stage = "recover_create"
           seen == {r \in LinkRows : shelf[r] = w.page /\ (own => r = i)}
           total == IF provider = "jiashu" THEN 0 ELSE Cardinality({r \in LinkRows : shelf[r] # 0})
           next == [w EXCEPT !.found = @ \cup seen, !.total = total, !.page = 2,
                             !.since = IF w.page = 1 THEN w.doubt ELSE @]
           e == EffectOf(i, w)
<1>7. /\ shelf \in [LinkRows -> 0 .. 2] /\ World /\ total \in Nat
      /\ w.page \in 1 .. 2 /\ w.found \subseteq LinkRows /\ w.doubt \in Nat /\ w.since \in Nat
  <2>1. shelf \in [LinkRows -> 0 .. 2] /\ World
    BY DEF LinkInv, LinkTypeOK
  <2>2. w.page \in 1 .. 2 /\ w.found \subseteq LinkRows /\ w.doubt \in Nat /\ w.since \in Nat
    BY <1>4 DEF WorkType
  <2> QED
    BY <2>1, <2>2, RowsAreFinite
<1>8. PICK n \in WorkType :
        /\ n = next /\ n.stage = w.stage /\ n.step = w.step /\ n.page = 2 /\ n.found = w.found \cup seen
        /\ n.row = w.row /\ n.since = (IF w.page = 1 THEN w.doubt ELSE w.since)
        /\ n.active = w.active /\ n.named = w.named /\ n.doubt = w.doubt /\ n.version = w.version
  <2> HIDE DEF total
  <2>1. seen \subseteq LinkRows
    OBVIOUS
  <2> HIDE DEF seen
  <2> DEFINE f == w.found \cup seen
             since == IF w.page = 1 THEN w.doubt ELSE w.since
  <2>2. f \in SUBSET LinkRows /\ since \in Nat
    BY <1>7, <2>1
  <2>3. next = [w EXCEPT !.found = f, !.total = total, !.page = 2, !.since = since]
    BY <1>4 DEF WorkType
  <2> HIDE DEF f, since
  <2>4. [w EXCEPT !.found = f, !.total = total, !.page = 2, !.since = since] \in WorkType
    BY <1>4, <1>7, <2>2, PageFits
  <2>5. next \in WorkType
    BY <2>3, <2>4
  <2>6. PICK n : n = [w EXCEPT !.found = f, !.total = total, !.page = 2, !.since = since]
    OBVIOUS
  <2>7. /\ n.stage = w.stage /\ n.step = w.step /\ n.page = 2 /\ n.found = f
        /\ n.row = w.row /\ n.since = since
        /\ n.active = w.active /\ n.named = w.named /\ n.doubt = w.doubt /\ n.version = w.version
    BY <1>4, <2>6 DEF WorkType
  <2> HIDE DEF next
  <2> QED
    BY <2>3, <2>5, <2>6, <2>7 DEF f, since
<1>9. KeyOf(provider, config, i, n) = KeyOf(provider, config, i, w)
  BY <1>8 DEF KeyOf
<1>10. WorkFits(i, n)
  <2>1. WorkStages(n) /\ WorkRows(n)
    BY <1>3, <1>4, <1>7, <1>8 DEF WorkFits, WorkStages, WorkRows
  <2>2. ~Jiashu => WangyanWork(i, n)
    BY <1>3, <1>4, <1>8, <1>9 DEF WorkFits, WangyanWork, Jiashu, LinkInv, LinkTypeOK
  <2> QED
    BY <1>3, <1>8, <2>1, <2>2 DEF WorkFits, ChannelStages
<1>11. ASSUME held PROVE OutcomeHeld(i, n, "none")
  <2>1. ASSUME NEW x \in DOMAIN effect, Doubted(x) PROVE Knows(x, effect[x].attempt, i, n)
    BY <1>4, <1>5, <1>8, <1>9, <1>11, <2>1 DEF OutcomeHeld, Knows
  <2>2. ScopeFits(i, n)
    <3>1. ScopeFits(i, w)
      BY <1>4, <1>5, <1>11 DEF OutcomeHeld
    <3> QED
      BY <1>3, <1>7, <1>8, <3>1 DEF ScopeFits, ConfigStages, LinkRows
  <2> QED
    BY <1>4, <1>5, <1>11, <2>1, <2>2 DEF OutcomeHeld
<1>12. ASSUME own, effect[e].row # 0, NEW v, v = [w EXCEPT !.stage = "verify", !.row = effect[e].row]
       PROVE  Outcome(i, "pending", v, "none") /\ (held => OutcomeHeld(i, v, "none"))
  <2>1. ~Jiashu /\ w.stage = "recover_create" /\ e = KeyOf(provider, config, i, w)
    BY <1>12, KeyOfEffect DEF Jiashu
  <2>2. w.named /\ w.step = "create" /\ e \in DOMAIN effect
    BY <1>4, <2>1 DEF WorkFits, WangyanWork
  <2>3. e.of = i
    BY <1>4, <2>1, KeyOfLine DEF LinkInv
  <2>4. effect[e].row = i /\ shelf[i] # 0
    BY <1>12, <2>2, <2>3 DEF LinkInv, Effects, EffectOK
  <2>5. /\ v.stage = "verify" /\ v.step = w.step /\ v.page = w.page /\ v.found = w.found /\ v.row = i
        /\ v.active = w.active /\ v.named = w.named /\ v.doubt = w.doubt /\ v.version = w.version
    BY <1>4, <1>12, <2>4 DEF WorkType
  <2>6. KeyOf(provider, config, i, v) = KeyOf(provider, config, i, w)
    BY <2>5 DEF KeyOf
  <2>7. WorkFits(i, v)
    <3>1. WorkStages(v) /\ WorkRows(v)
      BY <1>4, <2>4, <2>5 DEF WorkFits, WorkStages, WorkRows, Recovering
    <3>2. WangyanWork(i, v)
      BY <1>4, <2>1, <2>2, <2>5, <2>6, LinkStepsOK DEF WorkFits, WangyanWork
    <3> QED
      BY <2>1, <3>1, <3>2 DEF WorkFits
  <2>8. ASSUME held PROVE OutcomeHeld(i, v, "none")
    <3>1. ASSUME NEW x \in DOMAIN effect, Doubted(x) PROVE Knows(x, effect[x].attempt, i, v)
      <4>1. Knows(x, effect[x].attempt, i, w)
        BY <1>4, <1>5, <2>8, <3>1 DEF OutcomeHeld
      <4> QED
        BY <2>1, <2>2, <2>5, <2>6, <4>1 DEF Knows
    <3>2. ScopeFits(i, v)
      BY <2>1, <2>5 DEF ScopeFits
    <3> QED
      BY <1>4, <1>5, <2>8, <3>1, <3>2 DEF OutcomeHeld
  <2> QED
    BY <2>7, <2>8 DEF Outcome
<1>13. CASE own /\ effect[e].status = "failed"
  <2>1. ToFinish(t, "result_unknown", w, "none")
    BY <1>2, <1>13 DEF LookPage
  <2>2. Outcome(i, "result_unknown", w, "none")
    BY <1>4 DEF Outcome
  <2> QED
    BY <1>4, <1>5, <1>6, <2>1, <2>2
<1>14. CASE own /\ effect[e].status # "failed" /\ effect[e].row # 0
  <2>1. ToFinish(t, "pending", [w EXCEPT !.stage = "verify", !.row = effect[e].row], "none")
    BY <1>2, <1>14 DEF LookPage
  <2> QED
    BY <1>6, <1>12, <1>14, <2>1
<1>15. CASE ~(own /\ (effect[e].status = "failed" \/ effect[e].row # 0)) /\ w.page = 1
  <2>1. ToFinish(t, "pending", n, "none")
    BY <1>2, <1>8, <1>15 DEF LookPage
  <2>2. Outcome(i, "pending", n, "none")
    BY <1>10 DEF Outcome
  <2> QED
    BY SMTT(90), <1>6, <1>11, <2>1, <2>2
<1>16. CASE ~(own /\ (effect[e].status = "failed" \/ effect[e].row # 0)) /\ w.page # 1 /\ w.total # total
  <2>1. ToFinish(t, IF own THEN "result_unknown" ELSE "failed", Rescan(w), "none")
    BY <1>2, <1>16 DEF LookPage
  <2>2. PICK s \in {"result_unknown", "failed"} : s = IF own THEN "result_unknown" ELSE "failed"
    OBVIOUS
  <2>3. Outcome(i, s, Rescan(w), "none") /\ (held => OutcomeHeld(i, Rescan(w), "none"))
    BY <1>3, <1>4, <1>5, RescanFits
  <2> QED
    BY <1>6, <2>1, <2>2, <2>3
<1>17. CASE ~(own /\ (effect[e].status = "failed" \/ effect[e].row # 0)) /\ w.page # 1 /\ w.total = total
  <2>1. LookupDone(t, n)
    BY <1>2, <1>8, <1>17 DEF LookPage
  <2>2. ASSUME held, ~Jiashu, w.stage = "lookup", NEW k \in Line \ {i}, shelf[k] # 0 PROVE k \in n.found
    <3>1. w.page = 2 /\ k \in LinkRows
      BY <1>7, <1>17 DEF LinkRows
    <3>2. shelf[k] = 1 => k \in w.found
      BY <1>4, <1>5, <2>2, <3>1 DEF OutcomeHeld, ScopeFits
    <3>3. shelf[k] = 2 => k \in seen
      BY <2>2, <3>1
    <3>4. shelf[k] \in {1, 2}
      BY <1>7, <2>2, <3>1
    <3> QED
      BY <1>8, <3>2, <3>3, <3>4
  <2>3. \E s, v, d : ToFinish(t, s, v, d) /\ Outcome(i, s, v, d) /\ (held => OutcomeHeld(i, v, d))
    <3>1. n.stage \in {"lookup", "recover_create"} /\ n.page = 2 /\ WorkFits(i, n)
      BY <1>3, <1>8, <1>10
    <3>2. held => OutcomeHeld(i, n, "none") /\ scopeHolder = i
      BY <1>4, <1>5, <1>11
    <3>3. held /\ ~Jiashu /\ n.stage = "lookup" => \A k \in Line \ {i} : shelf[k] # 0 => k \in n.found
      BY <1>8, <2>2
    <3> HIDE DEF own, seen, total, next, e
    <3> QED
      BY <1>4, <1>5, <2>1, <3>1, <3>2, <3>3, LookupDoneFits
  <2> QED
    BY SMTT(90), <1>6, <2>3
<1> QED
  BY <1>13, <1>14, <1>15, <1>16, <1>17

\* The work of a write that is about to be sent.
Writing(w) == [w EXCEPT !.step = w.stage, !.named = provider = "wangyan"]

\* The work that a write is armed with.
LEMMA WritingFits ==
  ASSUME LinkInv, NEW i \in Line, NEW w \in WorkType, w.stage \in Writes, WorkFits(i, w),
         NEW v, v = Writing(w), NEW e, e = EffectOf(i, v)
  PROVE  /\ v \in WorkType /\ WorkFits(i, v) /\ v.stage = w.stage /\ v.step = w.stage
         /\ v.named = ~Jiashu /\ v.active = w.active /\ v.doubt = w.doubt /\ v.page = w.page
         /\ v.found = w.found /\ v.row = w.row /\ v.version = w.version
         /\ e = KeyOf(provider, config, i, v) /\ e.step = w.stage
         /\ (~Jiashu => e.step = "create" /\ e.of = i)
         /\ (Jiashu /\ e.step = "create" => e.of = None)
         /\ (Jiashu /\ e.step # "create" => e.of = config[i])
<1>1. provider \in {"jiashu", "wangyan"}
  BY DEF LinkInv, LinkTypeOK
<1>2. /\ v.stage = w.stage /\ v.step = w.stage /\ v.page = w.page /\ v.found = w.found /\ v.row = w.row
      /\ v.active = w.active /\ v.named = (provider = "wangyan") /\ v.doubt = w.doubt
      /\ v.version = w.version
  BY DEF WorkType, Writing
<1>3. v \in WorkType
  BY ZenonT(90) DEF WorkType, Writing, Writes
<1>4. e = KeyOf(provider, config, i, v)
  BY KeyOfEffect
<1>5. ~Jiashu => w.stage = "create"
  BY DEF WorkFits, WangyanWork, Writes
<1>6. WorkFits(i, v)
  <2>1. WorkStages(v) /\ WorkRows(v)
    BY <1>2 DEF WorkFits, WorkStages, WorkRows, Recovering, Writes
  <2>2. ~Jiashu => WangyanWork(i, v)
    BY <1>1, <1>2, <1>5 DEF WorkFits, WangyanWork, Jiashu
  <2> QED
    BY <1>2, <2>1, <2>2 DEF WorkFits
<1>7. e.step = w.stage /\ e.of = IF provider = "wangyan" THEN i
                                 ELSE IF w.stage = "create" THEN None ELSE config[i]
  BY <1>2, <1>4 DEF KeyOf
<1>8. v.named = ~Jiashu
  BY <1>1, <1>2 DEF Jiashu
<1> QED
  BY <1>1, <1>2, <1>3, <1>4, <1>5, <1>6, <1>7, <1>8 DEF Jiashu

\* Only the write that the line does may be in doubt then.
LEMMA WritingIsSure ==
  ASSUME NEW i, NEW w, w.stage \in Writes, NEW v, v.stage = w.stage, v.step = w.stage,
         v.version = w.version, v.active = w.active, scopeHolder = i, OutcomeHeld(i, w, "none"),
         NEW x \in DOMAIN effect, Doubted(x)
  PROVE  w.active /\ KeyOf(provider, config, i, v) = x /\ Knows(x, effect[x].attempt, i, v)
<1>1. Knows(x, effect[x].attempt, i, w)
  BY DEF OutcomeHeld
<1>2. w.active /\ w.stage = w.step
  BY <1>1 DEF Knows, RecoveryOf, Writes
<1> QED
  BY <1>1, <1>2 DEF Knows, KeyOf

\* A write that was sent before is not armed again: the unit ends with what is known of it.
LEMMA ArmWriteStays ==
  ASSUME LinkInv, LinkTypeOK', NEW t \in Task, ArmWrite(t), effect' = effect, line' = line,
         linkRun'[t].at = "finish"
  PROVE  LinkInv'
<1>1. Still /\ UNCHANGED <<line, lineHolder, flying>> /\ credentials' <= linkFaults'
  BY DEF ArmWrite, Still, LinkInv, World
<1>2. PICK i, w : i = linkRun[t].line /\ w = linkRun[t].work
  OBVIOUS
<1>3. linkRun[t].at = "working" /\ w.stage \in Writes
  BY <1>2 DEF ArmWrite
<1>4. /\ i \in Line /\ w \in WorkType /\ WorkFits(i, w)
      /\ lineHolder[i] = t => OutcomeHeld(i, w, "none") /\ scopeHolder = i
  BY <1>2, <1>3, RunAtWork DEF Writes
<1>5. PICK held \in BOOLEAN : held <=> lineHolder[i] = t
  OBVIOUS
<1>6. ASSUME NEW s, NEW v, NEW d, ToFinish(t, s, v, d), Outcome(i, s, v, d),
             held => OutcomeHeld(i, v, d)
      PROVE  LinkInv'
  BY <1>1, <1>2, <1>3, <1>5, <1>6, StillFinishes
<1>7. PICK v, e : v = Writing(w) /\ e = EffectOf(i, v)
  OBVIOUS
<1>8. /\ v \in WorkType /\ WorkFits(i, v) /\ v.stage = w.stage /\ v.step = w.stage
      /\ v.named = ~Jiashu /\ v.active = w.active /\ v.doubt = w.doubt /\ v.page = w.page
      /\ v.found = w.found /\ v.row = w.row /\ v.version = w.version
      /\ e = KeyOf(provider, config, i, v) /\ e.step = w.stage
      /\ (~Jiashu => e.step = "create" /\ e.of = i)
  BY <1>3, <1>4, <1>7, WritingFits
<1>9. ASSUME held, NEW x \in DOMAIN effect, Doubted(x)
      PROVE  w.active /\ x = e /\ Knows(x, effect[x].attempt, i, v)
  BY <1>3, <1>4, <1>5, <1>8, <1>9, WritingIsSure
<1>10. ASSUME NEW s \in {"busy", "blocked_auth", "failed"}, ToFinish(t, s, v, "none") PROVE LinkInv'
  <2>1. Outcome(i, s, v, "none")
    BY <1>8 DEF Outcome
  <2>2. held => OutcomeHeld(i, v, "none")
    BY <1>4, <1>5, <1>8, <1>9 DEF OutcomeHeld, ScopeFits
  <2> QED
    BY <1>6, <1>10, <2>1, <2>2
<1>11. ASSUME NEW u, u = [v EXCEPT !.stage = AfterWrite(v.step), !.active = FALSE], Jiashu,
              e \in DOMAIN effect, effect[e].status = "succeeded", ToFinish(t, "pending", u, "none")
       PROVE  LinkInv'
  <2>1. /\ u.stage = AfterWrite(w.stage) /\ u.step = v.step /\ u.page = v.page /\ u.found = v.found
        /\ u.row = v.row /\ u.active = FALSE /\ u.named = v.named /\ u.doubt = v.doubt
    BY <1>8, <1>11 DEF WorkType
  <2>2. u.stage \in {"read_before", "save", "verify"} /\ (u.stage = "save" => w.stage = "generate")
    BY <1>3, <2>1 DEF AfterWrite, Writes
  <2>3. shelf[None] # 0
    <3>1. CASE w.stage = "create"
      BY <1>8, <1>11, <3>1 DEF LinkInv, Effects, EffectOK, Done
    <3>2. CASE w.stage # "create"
      BY <1>3, <1>4, <1>11, <3>2 DEF WorkFits, ChannelStages, Writes
    <3> QED
      BY <3>1, <3>2
  <2>4. WorkFits(i, u)
    BY <1>8, <1>11, <2>1, <2>2, <2>3 DEF WorkFits, WorkStages, WorkRows, Recovering
  <2>5. ASSUME held PROVE OutcomeHeld(i, u, "none")
    <3>1. \A x \in DOMAIN effect : ~Doubted(x)
      BY <1>9, <1>11, <2>5 DEF Doubted, Uncertain
    <3>2. ScopeFits(i, u)
      BY <1>4, <1>5, <1>11, <2>2, <2>5 DEF OutcomeHeld, ScopeFits, ConfigStages
    <3> QED
      BY <1>4, <1>5, <2>5, <3>1, <3>2 DEF OutcomeHeld
  <2>6. Outcome(i, "pending", u, "none")
    BY <2>4 DEF Outcome
  <2> QED
    BY <1>6, <1>11, <2>5, <2>6
<1>12. ASSUME NEW a, NEW r, NEW u, u = [Doubting(v, a) EXCEPT !.stage = "verify", !.row = r],
              e \in DOMAIN effect, r = effect[e].row, r # 0, a = effect[e].attempt,
              ToFinish(t, "pending", u, "none")
       PROVE  LinkInv'
  <2>1. ~Jiashu /\ r = i /\ shelf[i] # 0 /\ a # 0
    BY <1>8, <1>12 DEF LinkInv, Effects, EffectOK
  <2>2. /\ u.stage = "verify" /\ u.step = v.step /\ u.page = 1 /\ u.found = {} /\ u.row = i
        /\ u.active = v.active /\ u.named = v.named /\ u.doubt = a /\ u.version = v.version
    BY <1>8, <1>12, <2>1 DEF WorkType, Doubting, Rescan
  <2>3. KeyOf(provider, config, i, u) = e
    BY <1>8, <2>2 DEF KeyOf
  <2>4. WorkFits(i, u)
    <3>1. WorkStages(u) /\ WorkRows(u)
      BY <2>1, <2>2 DEF WorkStages, WorkRows, Recovering
    <3>2. WangyanWork(i, u)
      <4>1. u.step = "create" /\ u.stage = "verify" /\ u.named /\ u.row = i /\ i # 0
        <5>1. v.step = "create" /\ v.named
          BY <1>8, <2>1
        <5>2. i # 0
          BY <1>12, <2>1
        <5> QED
          BY <2>2, <5>1, <5>2
      <4>2. KeyOf(provider, config, i, u) \in DOMAIN effect
        BY <1>12, <2>3
      <4> QED
        BY <4>1, <4>2, <2>2 DEF WangyanWork
    <3> QED
      BY <2>1, <3>1, <3>2 DEF WorkFits
  <2>5. ASSUME held PROVE OutcomeHeld(i, u, "none")
    <3>1. ASSUME NEW x \in DOMAIN effect, Doubted(x) PROVE Knows(x, effect[x].attempt, i, u)
      BY <1>9, <1>12, <2>1, <2>2, <2>3, <2>5, <3>1 DEF Knows
    <3>2. ScopeFits(i, u)
      BY <2>1, <2>2 DEF ScopeFits
    <3> QED
      BY <1>4, <1>5, <2>5, <3>1, <3>2 DEF OutcomeHeld
  <2>6. Outcome(i, "pending", u, "none")
    BY <2>4 DEF Outcome
  <2> QED
    BY <1>6, <1>12, <2>5, <2>6
<1>13. ASSUME NEW a, NEW u, u = Doubting(v, a), e \in DOMAIN effect, a = effect[e].attempt,
              NEW s \in {"pending", "result_unknown"}, ToFinish(t, s, u, "none")
       PROVE  LinkInv'
  <2>1. /\ u.stage = RecoveryOf(w.stage) /\ u.step = w.stage /\ u.page = 1 /\ u.found = {} /\ u.row = 0
        /\ u.active = v.active /\ u.named = v.named /\ u.doubt = a /\ u.version = v.version
    BY <1>8, <1>13 DEF WorkType, Doubting, Rescan
  <2>2. KeyOf(provider, config, i, u) = e
    BY <1>8, <2>1 DEF KeyOf
  <2>3. WorkFits(i, u)
    <3>1. WorkStages(u) /\ WorkRows(u)
      BY <1>3, <2>1 DEF WorkStages, WorkRows, Recovering, RecoveryOf, Writes
    <3>2. ~Jiashu => WangyanWork(i, u)
      BY ZenonT(90), <1>8, <1>13, <2>1, <2>2 DEF WangyanWork, RecoveryOf
    <3>3. Jiashu /\ u.stage \in ChannelStages => shelf[None] # 0
      BY <1>3, <1>4, <2>1 DEF WorkFits, RecoveryOf, ChannelStages, Writes
    <3> QED
      BY <3>1, <3>2, <3>3 DEF WorkFits
  <2>4. ASSUME held PROVE OutcomeHeld(i, u, "none")
    <3>1. ASSUME NEW x \in DOMAIN effect, Doubted(x) PROVE Knows(x, effect[x].attempt, i, u)
      BY <1>9, <1>13, <2>1, <2>2, <2>4, <3>1 DEF Knows
    <3>2. ScopeFits(i, u)
      BY <1>3, <1>4, <1>5, <2>1, <2>4 DEF OutcomeHeld, ScopeFits, ConfigStages, RecoveryOf,
         Writes
    <3> QED
      BY <1>4, <1>5, <2>4, <3>1, <3>2 DEF OutcomeHeld
  <2>5. Outcome(i, s, u, "none")
    BY <2>3 DEF Outcome
  <2> QED
    BY <1>6, <1>13, <2>4, <2>5
<1>14. v = [linkRun[t].work EXCEPT !.step = linkRun[t].work.stage, !.named = provider = "wangyan"]
  BY <1>2, <1>7 DEF Writing
<1>15. CASE Sendable(e)
  <2>1. ToFinish(t, "busy", v, "none") \/ ToFinish(t, "blocked_auth", v, "none")
    <3>1. linkRun \in [Task -> RunRow]
      BY LinkTypes DEF LinkInv
    <3>2. ASSUME NEW x, NEW a, linkRun' = [linkRun EXCEPT ![t].at = "armed", ![t].work = x, ![t].attempt = a]
          PROVE  FALSE
      <4>1. linkRun'[t].at = "armed"
        BY <3>1, <3>2 DEF RunRow
      <4> QED
        BY <4>1
    <3>3. \/ ToFinish(t, "busy", v, "none") \/ ToFinish(t, "blocked_auth", v, "none")
          \/ linkRun' = [linkRun EXCEPT ![t].at = "armed", ![t].work = [v EXCEPT !.active = TRUE],
                          ![t].attempt = IF e \in DOMAIN effect THEN effect[e].attempt + 1 ELSE 1]
      BY <1>2, <1>7, <1>14, <1>15, Zenon DEF ArmWrite
    <3> QED
      BY <3>2, <3>3
  <2> QED
    BY <1>10, <2>1
<1>16. CASE ~Sendable(e)
  <2>1. e \in DOMAIN effect
    BY <1>16 DEF Sendable
  <2>2. SentBefore(t, e, v)
    BY <1>2, <1>7, <1>14, <1>16 DEF ArmWrite
  <2> QED
    BY <1>10, <1>11, <1>12, <1>13, <2>1, <2>2 DEF SentBefore, Jiashu
<1> QED
  BY <1>15, <1>16

\* A write e of line i that t arms, as its attempt a: w becomes v before it, and u with it.
Arms(t, i, w, v, e, a, u) ==
  /\ i = linkRun[t].line /\ w = linkRun[t].work /\ v = Writing(w)
  /\ e = EffectOf(i, v) /\ Sendable(e) /\ lineHolder[i] = t
  /\ a = IF e \in DOMAIN effect THEN effect[e].attempt + 1 ELSE 1
  /\ effect' = WithEffect(e, [status |-> "sending", attempt |-> a, since |-> 0, row |-> 0])
  /\ u = [v EXCEPT !.active = TRUE] /\ line' = [line EXCEPT ![i].work = u]
  /\ linkRun' = [linkRun EXCEPT ![t].at = "armed", ![t].work = u, ![t].attempt = a]

\* Such a write is in doubt from then on, and its line holds the scope.
LEMMA ArmWriteArms ==
  ASSUME LinkInv, LinkTypeOK', NEW t \in Task, ArmWrite(t),
         NEW i, NEW w, NEW v, NEW e, NEW a, NEW u, Arms(t, i, w, v, e, a, u)
  PROVE  LinkInv'
<1>a. /\ i = linkRun[t].line /\ w = linkRun[t].work /\ v = Writing(w)
      /\ e = EffectOf(i, v) /\ Sendable(e) /\ lineHolder[i] = t
  BY SMTT(90) DEF Arms
<1>b. a = IF e \in DOMAIN effect THEN effect[e].attempt + 1 ELSE 1
  BY SMTT(90) DEF Arms
<1>c. u = [v EXCEPT !.active = TRUE]
  BY SMTT(90) DEF Arms
<1>d. line' = [line EXCEPT ![i].work = u]
  BY SMTT(90) DEF Arms
<1>e. linkRun' = [linkRun EXCEPT ![t].at = "armed", ![t].work = u, ![t].attempt = a]
  BY DEF Arms
<1>1. UNCHANGED <<lineHolder, scopeHolder, link, provider, config, shelf, jump, flying, overwritten,
                  credentials, linkFaults>>
  BY SMTT(90) DEF ArmWrite
<1>2. linkRun[t].at = "working" /\ w.stage \in Writes
  BY <1>a DEF ArmWrite
<1>3. /\ i \in Line /\ w \in WorkType /\ WorkFits(i, w) /\ OutcomeHeld(i, w, "none") /\ scopeHolder = i
  BY <1>a, <1>2, RunAtWork DEF Writes
<1>4. /\ v \in WorkType /\ WorkFits(i, v) /\ v.stage = w.stage /\ v.step = w.stage
      /\ v.named = ~Jiashu /\ v.active = w.active /\ v.doubt = w.doubt /\ v.page = w.page
      /\ v.found = w.found /\ v.row = w.row /\ v.version = w.version
      /\ e = KeyOf(provider, config, i, v) /\ e.step = w.stage
      /\ (~Jiashu => e.step = "create" /\ e.of = i)
      /\ (Jiashu /\ e.step = "create" => e.of = None)
      /\ (Jiashu /\ e.step # "create" => e.of = config[i])
  BY <1>a, <1>2, <1>3, WritingFits
<1>5. LinkTypeOK /\ Effects /\ Flights /\ OneSender /\ OneFlight /\ Refused /\ World /\ Runs
  BY DEF LinkInv
<1>6. /\ line \in [Line -> LineRow] /\ linkRun \in [Task -> RunRow]
      /\ line' \in [Line -> LineRow] /\ linkRun' \in [Task -> RunRow]
      /\ \A x \in DOMAIN effect : x \in EffectKey /\ effect[x] \in EffectRow
      /\ \A x \in DOMAIN effect' : x \in EffectKey /\ effect'[x] \in EffectRow
  <2>1. /\ line \in [Line -> LineRow] /\ linkRun \in [Task -> RunRow]
        /\ \A x \in DOMAIN effect : x \in EffectKey /\ effect[x] \in EffectRow
    BY <1>5, LinkTypes
  <2>2. line' \in [Line -> LineRow] /\ linkRun' \in [Task -> RunRow]
    BY DEF LinkTypeOK, LineRow, RunRow
  <2>3. \A x \in DOMAIN effect' : x \in EffectKey /\ effect'[x] \in EffectRow
    BY DEF LinkTypeOK, EffectRow
  <2> QED
    BY <2>1, <2>2, <2>3
\* The write that is armed is the only one in doubt.
<1>7. \A x \in DOMAIN effect : ~Doubted(x)
  <2> SUFFICES ASSUME NEW x \in DOMAIN effect, Doubted(x) PROVE FALSE
    OBVIOUS
  <2>1. KeyOf(provider, config, i, v) = x
    BY <1>2, <1>3, <1>4, WritingIsSure
  <2>2. x = e
    BY <1>4, <2>1
  <2> QED
    BY <1>a, <2>2 DEF Doubted, Sendable, Uncertain
<1>8. PICK row : row = [status |-> "sending", attempt |-> a, since |-> 0, row |-> 0]
  OBVIOUS
<1>9. /\ e \in DOMAIN effect' /\ effect'[e] = row /\ DOMAIN effect' = DOMAIN effect \cup {e}
      /\ \A x \in DOMAIN effect \ {e} : effect'[x] = effect[x]
  BY <1>8 DEF Arms, WithEffect
<1>10. row.status = "sending" /\ row.attempt = a /\ row.row = 0 /\ row \in EffectRow
  BY <1>6, <1>8, <1>9
<1>11. a \in Nat /\ a # 0 /\ (e \in DOMAIN effect => effect[e].attempt < a /\ ~OneShot(e))
  <2>1. CASE e \in DOMAIN effect
    <3>1. effect[e].status = "confirmed_absent" /\ effect[e].attempt \in Nat
      BY <1>a, <1>6, <2>1 DEF Sendable, EffectRow
    <3>2. ~OneShot(e)
      BY <1>5, <2>1, <3>1 DEF Effects, EffectOK
    <3> QED
      BY <1>b, <2>1, <3>1, <3>2
  <2> QED
    BY <1>b, <2>1
<1>12. Grown
  <2>1. ASSUME NEW x \in DOMAIN effect PROVE effect[x].attempt <= effect'[x].attempt
    <3>1. effect[x].attempt \in Nat
      BY <1>6 DEF EffectRow
    <3> QED
      BY <1>9, <1>10, <1>11, <3>1
  <2> QED
    BY <1>1, <1>9, <2>1 DEF Grown
<1>13. \A k \in Line \ {i} : Steady(k)
  BY <1>1, <1>3 DEF Steady
<1>14. /\ u.stage = w.stage /\ u.step = w.stage /\ u.active = TRUE /\ u.named = v.named
       /\ u.doubt = v.doubt /\ u.page = v.page /\ u.found = v.found /\ u.row = v.row
       /\ u.version = v.version /\ u \in WorkType
  BY <1>c, <1>4 DEF WorkType
<1>15. KeyOf(provider, config, i, u) = e
  BY <1>4, <1>14 DEF KeyOf
<1>16. WorkFits(i, u)
  <2>1. WorkStages(u) /\ WorkRows(u)
    BY <1>2, <1>4, <1>14 DEF WorkFits, WorkStages, WorkRows, Recovering, Writes
  <2>2. ~Jiashu => WangyanWork(i, u)
    BY <1>4, <1>14, <1>15 DEF WorkFits, WangyanWork
  <2> QED
    BY <1>4, <1>14, <2>1, <2>2 DEF WorkFits
<1>17. WorkFits(i, u)'
  BY <1>3, <1>12, <1>14, <1>16, WorkKeeps
<1>18. ScopeFits(i, u)'
  <2>1. ScopeFits(i, w)
    BY <1>3 DEF OutcomeHeld
  <2>2. ScopeFits(i, u)
    BY <1>2, <1>14, <2>1 DEF ScopeFits, Writes
  <2> QED
    BY <1>1, <2>2 DEF ScopeFits, Jiashu
<1>19. ASSUME NEW x \in DOMAIN effect', Doubted(x)', NEW q, q = u
       PROVE  Weakly(x, effect[x].attempt, i, q)' /\ Knows(x, effect[x].attempt, i, q)'
  <2>1. x = e
    BY <1>7, <1>9, <1>19 DEF Doubted
  <2>2. KeyOf(provider', config', i, q) = e
    BY <1>1, <1>15, <1>19
  <2>3. q.active /\ q.stage = q.step
    BY <1>14, <1>19
  <2> QED
    BY <2>1, <2>2, <2>3 DEF Weakly, Knows
<1>20. LineOK(i, line[i])'
  <2>1. PICK n \in LineRow : n = line'[i]
    BY <1>3, <1>6
  <2>2. n.work = u /\ n.status = line[i].status
    BY <1>d, <1>3, <1>6, <2>1 DEF LineRow
  <2>3. n.status = "pending"
    BY <1>a, <1>3, <2>2, HolderWorks, TasksOK
  <2>4. (\A x \in DOMAIN effect : Doubted(x) =>
          Recalls(x, effect[x].attempt, i, n.status, n.work))'
    <3>1. ASSUME NEW x \in DOMAIN effect', Doubted(x)'
          PROVE  Recalls(x, effect[x].attempt, i, n.status, n.work)'
      BY <1>19, <2>2, <3>1 DEF Recalls, Weakly
    <3> QED
      BY <3>1
  <2>5. WorkFits(i, n.work)' /\ ScopeFits(i, n.work)' /\ scopeHolder' = i
    BY <1>1, <1>3, <1>17, <1>18, <2>2
  <2>6. LineOK(i, n)'
    BY <2>3, <2>4, <2>5 DEF LineOK
  <2> QED
    BY <2>1, <2>6
<1>21. PICK r \in RunRow : r = linkRun'[t]
  BY <1>6
<1>22. /\ r.at = "armed" /\ r.line = i /\ r.work = u /\ r.attempt = a /\ r.decides = "none"
       /\ \A s \in Task \ {t} : linkRun'[s] = linkRun[s]
  <2>1. linkRun[t].decides = "none"
    BY <1>2, <1>5 DEF Runs, RunOK
  <2> QED
    BY <1>a, <1>e, <1>6, <1>21, <2>1 DEF RunRow
<1>23. KeyOfRun(r)' = e
  BY <1>1, <1>15, <1>22 DEF KeyOfRun
<1>24. RunOK(r)'
  <2>1. u.named = ~Jiashu'
    BY <1>1, <1>4, <1>14 DEF Jiashu
  <2> QED
    BY <1>3, <1>9, <1>10, <1>11, <1>14, <1>17, <1>22, <1>23, <2>1 DEF RunOK, Sends
<1>25. HolderOK(i, r)'
  BY <1>1, <1>3, <1>9, <1>10, <1>18, <1>19, <1>22, <1>23 DEF HolderOK, AtWork, Sends
<1>26. \A s \in Task : linkRun'[s] = linkRun[s] \/ RunOK(linkRun[s])'
  BY <1>21, <1>22, <1>24
<1>27. ASSUME NEW k \in Line, lineHolder'[k] # None
       PROVE  \/ /\ Steady(k) /\ lineHolder'[k] = lineHolder[k] /\ line'[k].status = line[k].status
                 /\ linkRun'[lineHolder[k]] = linkRun[lineHolder[k]]
              \/ line'[k].status = "pending" /\ HolderOK(k, linkRun[lineHolder[k]])'
  <2>1. CASE k = i
    <3>1. line'[i].status = line[i].status
      BY <1>d, <1>3, <1>6 DEF LineRow
    <3>2. line[i].status = "pending"
      BY <1>a, <1>3, HolderWorks, TasksOK
    <3> QED
      BY <1>a, <1>1, <1>21, <1>25, <2>1, <3>1, <3>2
  <2>2. CASE k # i
    <3>1. lineHolder[k] \in Task \ {t}
      BY <1>a, <1>1, <1>27, <2>2, HolderWorks
    <3>2. line'[k] = line[k]
      BY <1>d, <1>6, <2>2
    <3> QED
      BY <1>1, <1>13, <1>22, <2>2, <3>1, <3>2
  <2> QED
    BY <2>1, <2>2
<1>28. \A k \in Line : (Steady(k) /\ line'[k] = line[k]) \/ LineOK(k, line[k])'
  BY <1>d, <1>6, <1>13, <1>20
<1>29. Lines' /\ Runs' /\ Holders'
  BY <1>12, <1>26, <1>27, <1>28, Progress
<1>30. EffectOK(e, row)'
  <2>1. e.of # 0 /\ row.attempt # 0
    BY <1>3, <1>4, <1>5, <1>10, <1>11, KeyOfLine
  <2>2. Jiashu /\ e.step # "create" => e.of \in Episode
    <3>1. config[i] \in Episode
      <4>1. config \in [Line -> Episode]
        BY <1>5 DEF LinkTypeOK
      <4> QED
        BY <1>3, <4>1
    <3>2. Jiashu /\ e.step # "create" => e.of = config[i]
      BY <1>4
    <3> QED
      BY <3>1, <3>2
  <2>3. row.attempt # 1 => ~OneShot(e)'
    BY <1>b, <1>1, <1>10, <1>11 DEF OneShot
  <2>4. e.step = "save" => Jiashu /\ shelf[None] # 0 /\ jump \in {0, e.of}
    BY <1>3, <1>4 DEF WorkFits, OutcomeHeld, ScopeFits, ChannelStages, ConfigStages
  <2>5. ~Jiashu => \A k \in Line \ {e.of} : shelf[k] = 0
    BY <1>3, <1>4 DEF OutcomeHeld, ScopeFits
  <2>6. scopeHolder # None
    BY <1>3, LinkStepsOK
  <2> QED
    BY <1>1, <1>3, <1>4, <1>10, <2>1, <2>2, <2>3, <2>4, <2>5, <2>6 DEF EffectOK,
       Jiashu
<1>31. ASSUME NEW x, NEW n, EffectOK(x, n) PROVE EffectOK(x, n)'
  BY <1>1, <1>31 DEF EffectOK, Jiashu, OneShot, Done
<1>32. Effects'
  BY <1>5, <1>9, <1>30, <1>31 DEF Effects
<1>33. Flights'
  BY <1>1, <1>5, <1>12, FlightKeeps DEF Flights
<1>34. World'
  BY <1>1, <1>5 DEF World, Jiashu
<1>35. ASSUME NEW s \in Task, Sends(linkRun[s])', s # t
       PROVE  /\ linkRun'[s] = linkRun[s] /\ Sends(linkRun[s])
              /\ KeyOfRun(linkRun[s])' = KeyOfRun(linkRun[s])
              /\ KeyOfRun(linkRun[s]) \in DOMAIN effect /\ linkRun[s] \in RunRow
              /\ linkRun[s].attempt <= effect[KeyOfRun(linkRun[s])].attempt
  <2>1. PICK q : q = linkRun[s] /\ linkRun'[s] = q
    BY <1>22, <1>35
  <2>2. Sends(q) /\ KeyOfRun(q)' = KeyOfRun(q)
    BY <1>1, <1>35, <2>1 DEF Sends, KeyOfRun
  <2>3. RunOK(q) /\ q \in RunRow
    BY <1>5, <1>6, <2>1 DEF Runs
  <2> QED
    BY <2>1, <2>2, <2>3 DEF RunOK
<1>36. KeyOfRun(linkRun[t])' = e
  BY <1>21, <1>23
<1>37. OneSender'
  <2>1. ASSUME NEW s \in Task, Sends(linkRun[s])', s # t, linkRun'[s].attempt = a,
               KeyOfRun(linkRun[s])' = e
        PROVE  FALSE
    <3>1. e \in DOMAIN effect /\ a <= effect[e].attempt
      BY <1>35, <2>1
    <3>2. effect[e].attempt < a /\ effect[e].attempt \in Nat
      BY <1>6, <1>11, <3>1 DEF EffectRow
    <3> QED
      BY <1>11, <3>1, <3>2
  <2> SUFFICES ASSUME NEW s \in Task, NEW q \in Task, Sends(linkRun[s])', Sends(linkRun[q])',
                      linkRun'[s].attempt = linkRun'[q].attempt,
                      KeyOfRun(linkRun[s])' = KeyOfRun(linkRun[q])'
               PROVE  s = q
    BY DEF OneSender
  <2>2. linkRun'[t].attempt = a
    BY <1>21, <1>22
  <2>3. s = t \/ q # t
    BY <1>36, <2>1, <2>2
  <2>4. s # t \/ q = t
    BY <1>36, <2>1, <2>2
  <2>5. CASE s # t /\ q # t
    BY <1>5, <1>35, <2>5 DEF OneSender
  <2> QED
    BY <2>3, <2>4, <2>5
<1>38. ASSUME NEW x PROVE OneShot(x)' <=> OneShot(x)
  BY <1>1 DEF OneShot
<1>39. OneFlight'
  <2> SUFFICES ASSUME NEW f \in flying', OneShot(f[1])', NEW s \in Task PROVE Quiet(f[1], linkRun[s])'
    BY DEF OneFlight
  <2>1. f \in flying /\ OneShot(f[1]) /\ f[1] \in DOMAIN effect
    BY <1>1, <1>5, <1>38 DEF Flights, FlightOK
  <2>2. CASE s = t
    BY <1>11, <1>36, <2>1, <2>2 DEF Quiet
  <2>3. CASE s # t
    <3>1. Quiet(f[1], linkRun[s])
      BY <1>5, <2>1 DEF OneFlight
    <3> QED
      BY <1>35, <2>3, <3>1 DEF Quiet
  <2> QED
    BY <2>2, <2>3
<1>40. Refused'
  <2> SUFFICES ASSUME NEW x \in DOMAIN effect', OneShot(x)', effect'[x].status = "failed"
               PROVE  /\ \A f \in flying' : f[1] # x
                      /\ \A s \in Task : linkRun'[s].at = "armed" => KeyOfRun(linkRun[s])' # x
    BY DEF Refused
  <2>1. x \in DOMAIN effect /\ x # e /\ effect[x].status = "failed" /\ OneShot(x)
    BY <1>9, <1>10, <1>38
  <2>2. /\ \A f \in flying : f[1] # x
        /\ \A s \in Task : linkRun[s].at = "armed" => KeyOfRun(linkRun[s]) # x
    BY <1>5, <2>1 DEF Refused
  <2>3. ASSUME NEW s \in Task, linkRun'[s].at = "armed" PROVE KeyOfRun(linkRun[s])' # x
    <3>1. CASE s = t
      BY <1>36, <2>1, <3>1
    <3>2. CASE s # t
      BY <1>35, <2>2, <2>3, <3>2 DEF Sends
    <3> QED
      BY <3>1, <3>2
  <2> QED
    BY <1>1, <2>2, <2>3
<1> QED
  BY SMTT(90), <1>29, <1>32, <1>33, <1>34, <1>37, <1>39, <1>40 DEF LinkInv

\* Both ends of arming a write.
LEMMA ArmWriteKeeps == ASSUME LinkInv, LinkTypeOK', NEW t \in Task, ArmWrite(t) PROVE LinkInv'
<1>1. PICK i, w : i = linkRun[t].line /\ w = linkRun[t].work
  OBVIOUS
<1>2. PICK v : v = Writing(w)
  OBVIOUS
<1>3. PICK e, u : e = EffectOf(i, v) /\ u = [v EXCEPT !.active = TRUE]
  OBVIOUS
<1>4. PICK a : a = IF e \in DOMAIN effect THEN effect[e].attempt + 1 ELSE 1
  OBVIOUS
<1>5. v = [linkRun[t].work EXCEPT !.step = linkRun[t].work.stage, !.named = provider = "wangyan"]
  BY <1>1, <1>2 DEF Writing
<1>6. \/ /\ UNCHANGED <<line, effect>>
         /\ \/ ToFinish(t, "busy", v, "none") \/ ToFinish(t, "blocked_auth", v, "none")
            \/ SentBefore(t, e, v)
      \/ /\ Sendable(e) /\ lineHolder[i] = t
         /\ effect' = WithEffect(e, [status |-> "sending", attempt |-> a, since |-> 0, row |-> 0])
         /\ line' = [line EXCEPT ![i].work = u]
         /\ linkRun' = [linkRun EXCEPT ![t].at = "armed", ![t].work = u, ![t].attempt = a]
  BY <1>1, <1>3, <1>4, <1>5, Zenon DEF ArmWrite
<1>7. ASSUME NEW s, NEW x, ToFinish(t, s, x, "none") PROVE linkRun'[t].at = "finish"
  BY <1>7, ToFinishDoes DEF LinkInv
<1>8. CASE /\ UNCHANGED <<line, effect>>
           /\ \/ ToFinish(t, "busy", v, "none") \/ ToFinish(t, "blocked_auth", v, "none")
              \/ SentBefore(t, e, v)
  <2>1. linkRun'[t].at = "finish"
    BY <1>7, <1>8 DEF SentBefore
  <2> QED
    BY <1>8, <2>1, ArmWriteStays
<1>9. CASE /\ Sendable(e) /\ lineHolder[i] = t
           /\ effect' = WithEffect(e, [status |-> "sending", attempt |-> a, since |-> 0, row |-> 0])
           /\ line' = [line EXCEPT ![i].work = u]
           /\ linkRun' = [linkRun EXCEPT ![t].at = "armed", ![t].work = u, ![t].attempt = a]
  <2>1. Arms(t, i, w, v, e, a, u)
    BY <1>1, <1>2, <1>3, <1>4, <1>9, Zenon DEF Arms
  <2> QED
    BY <2>1, ArmWriteArms
<1> QED
  BY <1>6, <1>8, <1>9

-----------------------------------------------------------------------------
(* What a write does at the provider, and what is learned of it.           *)

\* A run that sends.
LEMMA RunSends ==
  ASSUME LinkInv, NEW t \in Task, Sends(linkRun[t]), NEW i, i = linkRun[t].line, NEW w, w = linkRun[t].work,
         NEW e, e = EffectOf(i, w), NEW a, a = linkRun[t].attempt
  PROVE  /\ i \in Line /\ w \in WorkType /\ WorkFits(i, w)
         /\ w.active /\ w.stage \in Writes /\ w.stage = w.step /\ w.named = ~Jiashu
         /\ e = KeyOf(provider, config, i, w) /\ e = KeyOfRun(linkRun[t]) /\ e.step = w.step
         /\ e \in DOMAIN effect /\ e \in EffectKey /\ effect[e] \in EffectRow /\ EffectOK(e, effect[e])
         /\ a \in Nat /\ a # 0 /\ a <= effect[e].attempt /\ (~Jiashu => e.of = i /\ e.step = "create")
         /\ (Jiashu /\ e.step # "create" => e.of = config[i])
         /\ linkRun[t].answer \in {"accepted", "accepted_id"} /\ linkRun[t].at = "posted" => Done(e)
         /\ lineHolder[i] = t => /\ OutcomeHeld(i, w, "none") /\ scopeHolder = i
                                 /\ a = effect[e].attempt
                                 /\ \A x \in DOMAIN effect : Doubted(x) => x = e
<1>1. PICK r \in RunRow : r = linkRun[t]
  BY LinkTypes DEF LinkInv
<1>2. RunOK(r)
  BY <1>1 DEF LinkInv, Runs
<1>3. /\ i \in Line /\ w \in WorkType /\ WorkFits(i, w)
      /\ lineHolder[i] = t => OutcomeHeld(i, w, "none") /\ (w.stage # "search" => scopeHolder = i)
  BY RunAtWork DEF Sends
<1>4. e = KeyOf(provider, config, i, w) /\ e = KeyOfRun(r)
  BY <1>1, KeyOfEffect DEF KeyOfRun
<1>5. /\ w.active /\ w.stage = w.step /\ w.named = ~Jiashu /\ e \in DOMAIN effect
      /\ a # 0 /\ a <= effect[e].attempt
  BY <1>1, <1>2, <1>4 DEF RunOK
<1>6. w.stage \in Writes /\ a \in Nat
  BY <1>1, <1>3, <1>5 DEF WorkType, RunRow
<1>7. e \in EffectKey /\ effect[e] \in EffectRow /\ EffectOK(e, effect[e])
  BY <1>5, LinkTypes DEF LinkInv, Effects
<1>8. e.step = w.step /\ (~Jiashu => e.of = i)
  BY SMTT(90), <1>3, <1>4, KeyOfLine DEF KeyOf, LinkInv
<1>9. (~Jiashu => e.step = "create") /\ (Jiashu /\ e.step # "create" => e.of = config[i])
  BY <1>3, <1>4, <1>7 DEF EffectOK, KeyOf, Jiashu
<1>10. r.at = "posted" /\ r.answer \in {"accepted", "accepted_id"} => Done(e)
  BY <1>2, <1>4 DEF RunOK
<1>11. ASSUME lineHolder[i] = t
       PROVE  /\ scopeHolder = i /\ a = effect[e].attempt
              /\ \A x \in DOMAIN effect : Doubted(x) => x = e
  <2>1. scopeHolder = i
    BY <1>3, <1>6, <1>11 DEF Writes
  <2>2. HolderOK(i, r)
    BY <1>1, <1>3, <1>11, HolderWorks, TasksOK
  <2>3. a = effect[e].attempt
    BY <1>1, <1>4, <2>2 DEF HolderOK
  <2>4. ASSUME NEW x \in DOMAIN effect, Doubted(x) PROVE x = e
    BY <1>3, <1>4, <1>11, <2>1, <2>4 DEF OutcomeHeld, Knows
  <2> QED
    BY <2>1, <2>3, <2>4
<1> QED
  BY <1>1, <1>3, <1>4, <1>5, <1>6, <1>7, <1>8, <1>9, <1>10, <1>11

\* Of a write that is sent once there is one sender.
LEMMA OneShotSender ==
  ASSUME LinkInv, NEW t \in Task, Sends(linkRun[t]), NEW s \in Task, Sends(linkRun[s]),
         NEW e, OneShot(e), KeyOfRun(linkRun[t]) = e, KeyOfRun(linkRun[s]) = e
  PROVE  s = t
<1>1. ASSUME NEW q \in Task, Sends(linkRun[q]), KeyOfRun(linkRun[q]) = e PROVE linkRun[q].attempt = 1
  <2>1. PICK a : a = linkRun[q].attempt
    OBVIOUS
  <2>2. /\ EffectOK(e, effect[e]) /\ effect[e] \in EffectRow
        /\ a \in Nat /\ a # 0 /\ a <= effect[e].attempt
    BY <1>1, <2>1, RunSends
  <2>3. effect[e].attempt = 1
    BY <2>2 DEF EffectOK
  <2> QED
    BY <2>1, <2>2, <2>3
<1> QED
  BY <1>1 DEF LinkInv, OneSender

\* What an answer does to the effects: no write becomes doubtful by it.
LEMMA CalmKeeps ==
  ASSUME LinkInv, LinkTypeOK', Calm,
         UNCHANGED <<shelf, jump, link, scopeHolder, provider, config, overwritten, flying,
                     credentials, linkFaults>>
  PROVE  /\ Grown /\ (\A k \in Line : Steady(k)) /\ Flights' /\ World'
         /\ \A e, row : EffectOK(e, row) => EffectOK(e, row)'
         /\ \A e : OneShot(e)' <=> OneShot(e)
<1>1. ASSUME NEW e \in DOMAIN effect PROVE effect[e].attempt <= effect'[e].attempt
  BY LinkTypes DEF LinkInv, EffectRow, Calm
<1>2. Grown
  BY <1>1 DEF Grown, Calm
<1>3. ASSUME NEW k \in Line, NEW w PROVE ScopeFits(k, w)' <=> ScopeFits(k, w)
  BY DEF ScopeFits, Jiashu
<1>4. Flights'
  BY <1>2, FlightKeeps DEF LinkInv, Flights
<1>5. World'
  BY DEF LinkInv, World, Jiashu
<1>6. ASSUME NEW e, NEW row, EffectOK(e, row) PROVE EffectOK(e, row)'
  BY <1>6 DEF EffectOK, Jiashu, OneShot, Done
<1> QED
  BY <1>2, <1>3, <1>4, <1>5, <1>6 DEF Steady, OneShot

EffectBecomes(e, row) ==
  /\ e \in DOMAIN effect /\ DOMAIN effect' = DOMAIN effect /\ effect'[e] = row
  /\ \A x \in DOMAIN effect \ {e} : effect'[x] = effect[x]

\* What is stored of an answer, and the work that the run of t goes on with.
AnswerFits(t, i, e, row, s, w) ==
  /\ row.attempt = effect[e].attempt /\ EffectOK(e, row)
  /\ row.status \in Uncertain => Doubted(e)
  /\ row.status = "failed" /\ OneShot(e) => effect[e].status = "failed" \/
       (/\ \A f \in flying : f[1] # e
        /\ \A q \in Task : linkRun[q].at = "armed" => KeyOfRun(linkRun[q]) # e)
  /\ WorkFits(i, w) /\ s \notin {"ready", "needs_resolution"}
  /\ lineHolder[i] = t => /\ scopeHolder = i /\ ScopeFits(i, w)
                          /\ \A x \in DOMAIN effect : Doubted(x) => x = e
                          /\ row.status \in Uncertain => Knows(e, row.attempt, i, w)

\* An answer is stored, and the run goes on to finish.
LEMMA AnswerFinishes ==
  ASSUME LinkInv, LinkTypeOK', NEW t \in Task, linkRun[t].at = "posted",
         UNCHANGED <<line, lineHolder, shelf, jump, link, scopeHolder, provider, config, overwritten,
                     flying, credentials, linkFaults>>,
         NEW i, i = linkRun[t].line, NEW e, NEW row, EffectBecomes(e, row),
         NEW s, NEW w, ToFinish(t, s, w, "none"), AnswerFits(t, i, e, row, s, w)
  PROVE  LinkInv'
<1>1. /\ e \in DOMAIN effect /\ DOMAIN effect' = DOMAIN effect /\ effect'[e] = row
      /\ \A x \in DOMAIN effect \ {e} : effect'[x] = effect[x]
  BY DEF EffectBecomes
<1> USE DEF AnswerFits
<1>2. Calm
  <2>1. ASSUME NEW x \in DOMAIN effect
        PROVE  effect'[x].attempt = effect[x].attempt /\ (Doubted(x)' => Doubted(x))
    <3>1. CASE x = e
      BY <1>1, <3>1 DEF Doubted
    <3>2. CASE x # e
      BY <1>1, <3>2 DEF Doubted
    <3> QED
      BY <3>1, <3>2
  <2> QED
    BY <1>1, <2>1 DEF Calm
<1>3. /\ Grown /\ (\A k \in Line : Steady(k)) /\ Flights' /\ World'
      /\ \A x, r : EffectOK(x, r) => EffectOK(x, r)'
      /\ \A x : OneShot(x)' <=> OneShot(x)
  BY <1>2, CalmKeeps
<1>4. Effects'
  BY <1>1, <1>3 DEF LinkInv, Effects
<1>5. linkRun[t] \in RunRow /\ i \in Line
  BY LinkTypes, RunAtWork DEF LinkInv
<1>6. w \in WorkType
  <2>1. PICK r \in RunRow : r.work = w
    BY ToFinishDoes DEF LinkInv
  <2> QED
    BY <2>1 DEF RunRow
<1>7. Outcome(i, s, w, "none")'
  <2>1. WorkFits(i, w)'
    BY <1>3, <1>5, <1>6, WorkKeeps
  <2> QED
    BY <2>1 DEF Outcome
<1>8. ASSUME lineHolder[i] = t PROVE OutcomeHeld(i, w, "none")'
  <2>1. ScopeFits(i, w)' /\ scopeHolder' = i
    BY <1>3, <1>5, <1>6, <1>8 DEF Steady
  <2>2. ASSUME NEW x \in DOMAIN effect', Doubted(x)' PROVE Knows(x, effect[x].attempt, i, w)'
    <3>1. x = e
      BY <1>2, <1>8, <2>2 DEF Calm
    <3>2. Knows(e, row.attempt, i, w)
      BY <1>1, <1>8, <2>2, <3>1 DEF Doubted
    <3> QED
      BY <1>1, <3>1, <3>2 DEF Knows, Jiashu
  <2> QED
    BY <2>1, <2>2 DEF OutcomeHeld
<1>9. /\ Lines' /\ Runs' /\ Holders'
      /\ \A u \in Task : linkRun'[u] = linkRun[u] \/ ~Sends(linkRun[u])'
  BY <1>3, <1>5, <1>7, <1>8, RunFinishes DEF AtWork
<1>10. OneSender' /\ OneFlight' /\ Refused'
  <2>1. ASSUME NEW x \in DOMAIN effect', OneShot(x), effect'[x].status = "failed"
        PROVE \/ x \in DOMAIN effect /\ effect[x].status = "failed"
              \/ /\ \A f \in flying : f[1] # x
                 /\ \A u \in Task : linkRun'[u].at = "armed" => KeyOfRun(linkRun[u]) # x
    <3>1. CASE x = e /\ effect[e].status # "failed"
      <4>1. /\ \A f \in flying : f[1] # e
            /\ \A u \in Task : linkRun[u].at = "armed" => KeyOfRun(linkRun[u]) # e
        BY <1>1, <2>1, <3>1
      <4>2. \A u \in Task : linkRun'[u].at = "armed" => linkRun[u].at = "armed"
        BY <1>9 DEF Sends
      <4> QED
        BY <3>1, <4>1, <4>2
    <3> QED
      BY <1>1, <2>1, <3>1
  <2> QED
    BY <1>9, <2>1, SendersKeep
<1> QED
  BY <1>3, <1>4, <1>9, <1>10 DEF LinkInv

\* The work of a write whose result is not known.
LEMMA DoubtingFits ==
  ASSUME LinkInv, NEW i \in Line, NEW w \in WorkType, WorkFits(i, w), w.stage \in Writes, w.stage = w.step,
         w.named = ~Jiashu, NEW e \in DOMAIN effect, e = KeyOf(provider, config, i, w),
         NEW a, a # 0, NEW v, v.stage = RecoveryOf(w.step), v.step = w.step, v.page = 1, v.found = {},
         v.row = 0, v.named = w.named, v.doubt = a, v.version = w.version
  PROVE  /\ WorkFits(i, v) /\ Knows(e, a, i, v)
         /\ ScopeFits(i, w) => ScopeFits(i, v)
<1>3. KeyOf(provider, config, i, v) = e
  BY DEF KeyOf
<1>4. WorkFits(i, v)
  <2>1. WorkStages(v) /\ WorkRows(v)
    BY DEF WorkStages, WorkRows, Recovering, RecoveryOf, Writes
  <2>2. ASSUME ~Jiashu PROVE WangyanWork(i, v)
    <3>1. w.step = "create" /\ w.named
      BY <2>2 DEF WorkFits, WangyanWork
    <3>2. v.step = "create" /\ v.stage = "recover_create" /\ v.named /\ v.found = {}
      BY <3>1 DEF RecoveryOf
    <3> QED
      BY <1>3, <3>2 DEF WangyanWork
  <2>3. Jiashu /\ v.stage \in ChannelStages => shelf[None] # 0
    BY DEF WorkFits, RecoveryOf, ChannelStages, Writes
  <2> QED
    BY <2>1, <2>2, <2>3 DEF WorkFits
<1>5. ScopeFits(i, w) => ScopeFits(i, v)
  BY DEF ScopeFits, ConfigStages, RecoveryOf, Writes
<1>6. Knows(e, a, i, v)
  BY <1>3 DEF Knows
<1> QED
  BY <1>4, <1>5, <1>6

\* A rejection: nothing of the write is under way.
LEMMA RejectedIsOver ==
  ASSUME LinkInv, NEW t \in Task, linkRun[t].at = "posted", linkRun[t].answer = "rejected",
         NEW e, e = KeyOfRun(linkRun[t]), OneShot(e)
  PROVE  /\ \A f \in flying : f[1] # e
         /\ \A s \in Task : linkRun[s].at = "armed" => KeyOfRun(linkRun[s]) # e
<1>1. Sends(linkRun[t])
  BY DEF Sends
<1>2. ASSUME NEW f \in flying PROVE f[1] # e
  BY <1>1 DEF LinkInv, OneFlight, Quiet
<1>3. ASSUME NEW s \in Task, linkRun[s].at = "armed", KeyOfRun(linkRun[s]) = e PROVE FALSE
  <2>1. s = t
    BY <1>1, <1>3, OneShotSender DEF Sends
  <2> QED
    BY <1>3, <2>1
<1> QED
  BY <1>2, <1>3

\* An answer is stored while the effect still carries the attempt of the run.
LEMMA StoreAnswerKeeps == ASSUME LinkInv, LinkTypeOK', NEW t \in Task, StoreAnswer(t) PROVE LinkInv'
<1>1. PICK i, w, a : i = linkRun[t].line /\ w = linkRun[t].work /\ a = linkRun[t].attempt
  BY SMTT(90)
<1>2. PICK e : e = EffectOf(i, w)
  OBVIOUS
<1>3. /\ linkRun[t].at = "posted" /\ Jiashu /\ Sends(linkRun[t])
      /\ UNCHANGED <<line, lineHolder, shelf, jump, link, scopeHolder, provider, config, overwritten,
                     flying, credentials, linkFaults>>
  BY DEF StoreAnswer, OnlyRunAndRemote, Jiashu, Sends
<1>4. /\ i \in Line /\ w \in WorkType /\ WorkFits(i, w)
      /\ w.active /\ w.stage \in Writes /\ w.stage = w.step /\ w.named = ~Jiashu
      /\ e = KeyOf(provider, config, i, w) /\ e = KeyOfRun(linkRun[t]) /\ e.step = w.step
      /\ e \in DOMAIN effect /\ effect[e] \in EffectRow /\ EffectOK(e, effect[e])
      /\ a # 0
      /\ linkRun[t].answer = "accepted" => Done(e)
      /\ lineHolder[i] = t => /\ OutcomeHeld(i, w, "none") /\ scopeHolder = i
                              /\ a = effect[e].attempt
                              /\ \A x \in DOMAIN effect : Doubted(x) => x = e
  BY <1>1, <1>2, <1>3, RunSends
<1>5. lineHolder[i] = t => ScopeFits(i, w)
  BY <1>4 DEF OutcomeHeld
<1>6. CASE linkRun[t].answer = "accepted"
  <2>1. CASE lineHolder[i] = t /\ effect[e].attempt = a /\ effect[e].status = "sending"
    <3>1. PICK row : row = [effect[e] EXCEPT !.status = "succeeded"]
      OBVIOUS
    <3>2. /\ row.status = "succeeded" /\ row.attempt = effect[e].attempt /\ row.since = effect[e].since
          /\ row.row = effect[e].row
      BY <1>4, <3>1 DEF EffectRow
    <3>3. PICK v : v = [w EXCEPT !.stage = AfterWrite(w.step), !.active = FALSE]
      OBVIOUS
    <3>4. EffectBecomes(e, row) /\ ToFinish(t, "pending", v, "none")
      BY <1>1, <1>2, <1>4, <1>6, <2>1, <3>1, <3>3 DEF StoreAnswer, EffectBecomes
    <3>5. EffectOK(e, row)
      BY <1>4, <1>6, <3>2 DEF EffectOK, Uncertain
    <3>6. /\ v.stage = AfterWrite(w.step) /\ v.step = w.step /\ v.page = w.page /\ v.found = w.found
          /\ v.row = w.row /\ v.active = FALSE /\ v.named = w.named /\ v.doubt = w.doubt
      BY <1>4, <3>3 DEF WorkType
    <3>7. v.stage \in {"read_before", "save", "verify"} /\ (v.stage = "save" => w.stage = "generate")
      BY <1>4, <3>6 DEF AfterWrite, Writes
    <3>8. shelf[None] # 0
      <4>1. CASE w.step = "create"
        BY <1>3, <1>4, <1>6, <4>1 DEF Done
      <4>2. CASE w.step # "create"
        BY <1>3, <1>4, <4>2 DEF WorkFits, ChannelStages, Writes
      <4> QED
        BY <4>1, <4>2
    <3>9. WorkFits(i, v)
      BY <1>3, <1>4, <3>6, <3>7, <3>8 DEF WorkFits, WorkStages, WorkRows, Recovering
    <3>10. ScopeFits(i, w) => ScopeFits(i, v)
      BY <1>3, <3>7 DEF ScopeFits, ConfigStages
    <3>11. row.status \notin Uncertain /\ row.status # "failed"
      BY <3>2 DEF Uncertain
    <3>12. lineHolder[i] = t => /\ scopeHolder = i /\ ScopeFits(i, v)
                                /\ \A x \in DOMAIN effect : Doubted(x) => x = e
      BY <1>4, <1>5, <3>10
    <3>13. AnswerFits(t, i, e, row, "pending", v)
      BY <3>2, <3>5, <3>9, <3>11, <3>12 DEF AnswerFits
    <3> QED
      BY <1>1, <1>3, <3>4, <3>13, AnswerFinishes
  <2>2. CASE ~(lineHolder[i] = t /\ effect[e].attempt = a /\ effect[e].status = "sending")
    <3>1. ToFinish(t, "busy", w, "none") /\ effect' = effect
      BY <1>1, <1>2, <1>6, <2>2 DEF StoreAnswer
    <3>2. Still /\ credentials' <= linkFaults'
      BY <1>3, <3>1 DEF Still, LinkInv, World
    <3>3. Outcome(i, "busy", w, "none")
      BY <1>4 DEF Outcome
    <3> QED
      BY SMTT(90), <1>1, <1>3, <1>4, <3>1, <3>2, <3>3, StillFinishes
  <2> QED
    BY <2>1, <2>2
<1>7. ASSUME NEW s \in {"failed", "result_unknown"}, Persisted(e, a, s), NEW v, ToFinish(t, s, v, "none"),
             WorkFits(i, v), lineHolder[i] = t => ScopeFits(i, v) /\ Knows(e, a, i, v),
             s = "failed" => linkRun[t].answer = "rejected"
      PROVE  LinkInv'
  <2>1. PICK row : row = IF effect[e].attempt = a /\ effect[e].status = "sending"
                         THEN [effect[e] EXCEPT !.status = s] ELSE effect[e]
    OBVIOUS
  <2>2. EffectBecomes(e, row)
    BY <1>4, <1>7, <2>1 DEF Persisted, EffectBecomes
  <2>3. /\ row.attempt = effect[e].attempt /\ row.since = effect[e].since /\ row.row = effect[e].row
        /\ row.status \in {effect[e].status, s}
        /\ row.status # effect[e].status => effect[e].status = "sending"
    BY <1>4, <2>1 DEF EffectRow
  <2>4. row.status \in Uncertain => Doubted(e)
    BY <1>7, <2>3 DEF Doubted, Uncertain
  <2>5. EffectOK(e, row)
    BY <1>4, <1>7, <2>3 DEF EffectOK, Uncertain
  <2>6. row.status = "failed" /\ OneShot(e) => effect[e].status = "failed" \/
           (/\ \A f \in flying : f[1] # e
            /\ \A q \in Task : linkRun[q].at = "armed" => KeyOfRun(linkRun[q]) # e)
    BY <1>3, <1>4, <1>7, <2>3, RejectedIsOver
  <2>7. lineHolder[i] = t => /\ scopeHolder = i /\ ScopeFits(i, v) /\ Knows(e, row.attempt, i, v)
                             /\ \A x \in DOMAIN effect : Doubted(x) => x = e
    BY <1>4, <1>7, <2>3
  <2>8. AnswerFits(t, i, e, row, s, v)
    BY <1>7, <2>3, <2>4, <2>5, <2>6, <2>7 DEF AnswerFits
  <2> QED
    BY <1>1, <1>3, <1>7, <2>2, <2>8, AnswerFinishes
<1>8. CASE linkRun[t].answer = "rejected"
  <2>1. Persisted(e, a, "failed") /\ ToFinish(t, "failed", w, "none")
    BY <1>1, <1>2, <1>8 DEF StoreAnswer
  <2>2. Knows(e, a, i, w)
    BY <1>4 DEF Knows
  <2> QED
    BY <1>4, <1>5, <1>7, <1>8, <2>1, <2>2
<1>9. CASE linkRun[t].answer = "unknown"
  <2>1. PICK v : v = Doubting(w, a)
    OBVIOUS
  <2>2. Persisted(e, a, "result_unknown") /\ ToFinish(t, "result_unknown", v, "none")
    BY <1>1, <1>2, <1>9, <2>1 DEF StoreAnswer
  <2>3. /\ v.stage = RecoveryOf(w.step) /\ v.step = w.step /\ v.page = 1 /\ v.found = {}
        /\ v.row = 0 /\ v.named = w.named /\ v.doubt = a /\ v.version = w.version
    BY <1>4, <2>1 DEF WorkType, Doubting, Rescan
  <2>4. WorkFits(i, v) /\ (ScopeFits(i, w) => ScopeFits(i, v)) /\ Knows(e, a, i, v)
    BY <1>4, <2>3, DoubtingFits
  <2> QED
    BY <1>5, <1>7, <2>2, <2>4
<1>10. linkRun[t].answer \in {"accepted", "rejected", "unknown"}
  BY DEF StoreAnswer
<1> QED
  BY <1>6, <1>8, <1>9, <1>10

\* A receipt of wangyan may name the row; without it the line looks for it.
LEMMA StoreLinkReceiptKeeps ==
  ASSUME LinkInv, LinkTypeOK', NEW t \in Task, StoreLinkReceipt(t) PROVE LinkInv'
<1>1. PICK i, w, a : i = linkRun[t].line /\ w = linkRun[t].work /\ a = linkRun[t].attempt
  OBVIOUS
<1>2. PICK e, answer : e = EffectOf(i, w) /\ answer = linkRun[t].answer
  OBVIOUS
<1>3. /\ linkRun[t].at = "posted" /\ ~Jiashu /\ Sends(linkRun[t])
      /\ UNCHANGED <<line, lineHolder, shelf, jump, link, scopeHolder, provider, config, overwritten,
                     flying, credentials, linkFaults>>
  BY DEF StoreLinkReceipt, OnlyRunAndRemote, Jiashu, Sends
<1>4. /\ i \in Line /\ w \in WorkType /\ WorkFits(i, w)
      /\ w.active /\ w.stage \in Writes /\ w.stage = w.step /\ w.named = ~Jiashu
      /\ e = KeyOf(provider, config, i, w) /\ e = KeyOfRun(linkRun[t]) /\ e.step = "create" /\ e.of = i
      /\ e \in DOMAIN effect /\ effect[e] \in EffectRow /\ EffectOK(e, effect[e])
      /\ a \in Nat /\ a # 0
      /\ answer = "accepted_id" => Done(e)
      /\ lineHolder[i] = t => /\ OutcomeHeld(i, w, "none") /\ scopeHolder = i
                              /\ a = effect[e].attempt
                              /\ \A x \in DOMAIN effect : Doubted(x) => x = e
  BY <1>1, <1>2, <1>3, RunSends
<1>5. lineHolder[i] = t => ScopeFits(i, w)
  BY <1>4 DEF OutcomeHeld
<1>6. CASE answer = "rejected"
  <2>1. ToFinish(t, "failed", w, "none") /\ Persisted(e, a, "failed")
    BY <1>1, <1>2, <1>6 DEF StoreLinkReceipt
  <2>2. PICK row : row = IF effect[e].attempt = a /\ effect[e].status = "sending"
                         THEN [effect[e] EXCEPT !.status = "failed"] ELSE effect[e]
    OBVIOUS
  <2>3. EffectBecomes(e, row)
    BY <1>4, <2>1, <2>2 DEF Persisted, EffectBecomes
  <2>4. /\ row.attempt = effect[e].attempt /\ row.since = effect[e].since /\ row.row = effect[e].row
        /\ row.status \in {effect[e].status, "failed"}
    BY <1>4, <2>2 DEF EffectRow
  <2>5. (row.status \in Uncertain => Doubted(e)) /\ EffectOK(e, row)
    BY <1>4, <2>4 DEF EffectOK, Uncertain, Doubted
  <2>6. OneShot(e) => /\ \A f \in flying : f[1] # e
                      /\ \A q \in Task : linkRun[q].at = "armed" => KeyOfRun(linkRun[q]) # e
    BY <1>2, <1>3, <1>4, <1>6, RejectedIsOver
  <2>7. Knows(e, a, i, w)
    BY <1>4 DEF Knows
  <2>8. AnswerFits(t, i, e, row, "failed", w)
    BY <1>4, <1>5, <2>4, <2>5, <2>6, <2>7 DEF AnswerFits
  <2> QED
    BY <1>1, <1>3, <2>1, <2>3, <2>8, AnswerFinishes
<1>7. CASE answer # "rejected"
  <2>1. PICK id : id = IF answer = "accepted_id" THEN i ELSE 0
    OBVIOUS
  <2>2. PICK v : v = [Doubting(w, a) EXCEPT !.active = FALSE]
    OBVIOUS
  <2>3. PICK u : u = [v EXCEPT !.stage = "verify", !.row = id]
    OBVIOUS
  <2>4. effect' = Received(e, id)
    BY <1>1, <1>2, <1>7, <2>1 DEF StoreLinkReceipt
  <2>5. PICK s \in {"result_unknown", "pending"}, n \in {u, v} :
          ToFinish(t, s, n, "none") /\ (n # v => id # 0)
    BY <1>1, <1>2, <1>7, <2>1, <2>2, <2>3 DEF StoreLinkReceipt
  <2>6. /\ v.stage = RecoveryOf(w.step) /\ v.step = w.step /\ v.page = 1 /\ v.found = {}
        /\ v.row = 0 /\ v.active = FALSE /\ v.named = w.named /\ v.doubt = a /\ v.version = w.version
        /\ u.stage = "verify" /\ u.step = w.step /\ u.page = 1 /\ u.found = {}
        /\ u.row = id /\ u.active = FALSE /\ u.named = w.named /\ u.doubt = a /\ u.version = w.version
    BY <1>4, <2>2, <2>3 DEF WorkType, Doubting, Rescan
  <2>7. WorkFits(i, v) /\ Knows(e, a, i, v) /\ (ScopeFits(i, w) => ScopeFits(i, v))
    BY <1>4, <2>6, DoubtingFits
  <2>8. id # 0 => id = i /\ shelf[i] # 0
    BY <1>3, <1>4, <2>1 DEF Done
  <2>9. KeyOf(provider, config, i, u) = e
    BY <1>4, <2>6 DEF KeyOf
  <2>10. id # 0 => WorkFits(i, u)
    <3> SUFFICES ASSUME id # 0 PROVE WorkFits(i, u)
      OBVIOUS
    <3>1. WorkStages(u) /\ WorkRows(u)
      BY <2>6, <2>8 DEF WorkStages, WorkRows, Recovering
    <3>2. WangyanWork(i, u)
      <4>1. u.step = "create" /\ u.named
        BY <1>3, <1>4, <2>6 DEF WorkFits, WangyanWork
      <4> QED
        BY <1>4, <2>6, <2>8, <2>9, <4>1 DEF WangyanWork
    <3> QED
      BY <1>3, <3>1, <3>2 DEF WorkFits
  <2>11. Knows(e, a, i, u) /\ ScopeFits(i, u)
    BY <1>3, <2>6, <2>9 DEF Knows, ScopeFits
  <2>12. WorkFits(i, n) /\ Knows(e, a, i, n) /\ (lineHolder[i] = t => ScopeFits(i, n))
    BY <1>5, <2>5, <2>7, <2>10, <2>11
  <2>13. PICK row : row = IF effect[e].status \in Uncertain
                          THEN [effect[e] EXCEPT !.status = "result_unknown", !.row = id] ELSE effect[e]
    OBVIOUS
  <2>14. EffectBecomes(e, row)
    BY <1>4, <2>4, <2>13 DEF Received, EffectBecomes
  <2>15. /\ row.attempt = effect[e].attempt /\ row.since = effect[e].since
         /\ \/ row = effect[e]
            \/ row.status = "result_unknown" /\ row.row = id /\ effect[e].status \in Uncertain
    BY <1>4, <2>13 DEF EffectRow
  <2>16. EffectOK(e, row)
    <3>1. CASE row = effect[e]
      BY <1>4, <3>1
    <3>2. CASE row.status = "result_unknown" /\ row.row = id /\ effect[e].status \in Uncertain
      BY <1>3, <1>4, <2>8, <2>15, <3>2 DEF EffectOK
    <3> QED
      BY <2>15, <3>1, <3>2
  <2>17. (row.status \in Uncertain => Doubted(e)) /\ (row.status = "failed" => effect[e].status = "failed")
    BY <2>15 DEF Doubted
  <2>18. AnswerFits(t, i, e, row, s, n)
    BY <1>4, <2>12, <2>15, <2>16, <2>17 DEF AnswerFits
  <2> QED
    BY <1>1, <1>3, <2>5, <2>14, <2>18, AnswerFinishes
<1> QED
  BY <1>6, <1>7

\* A write in doubt is the one of the line that has the scope, and there is no other.
LEMMA DoubtOfScope ==
  ASSUME LinkInv, NEW e \in DOMAIN effect, Doubted(e)
  PROVE  /\ scopeHolder \in Line /\ KeyOf(provider, config, scopeHolder, line[scopeHolder].work) = e
         /\ \A x \in DOMAIN effect : Doubted(x) => x = e
<1>1. scopeHolder \in Line
  BY DEF LinkInv, LinkTypeOK, Effects, EffectOK, Doubted
<1>2. ASSUME NEW x \in DOMAIN effect, Doubted(x)
      PROVE  KeyOf(provider, config, scopeHolder, line[scopeHolder].work) = x
  <2>1. LineOK(scopeHolder, line[scopeHolder])
    BY <1>1 DEF LinkInv, Lines
  <2> QED
    BY <1>2, <2>1 DEF LineOK, Recalls
<1> QED
  BY <1>1, <1>2

\* A request that may be on its way: its write was not refused.
Pending(e, i) ==
  /\ e \in DOMAIN effect /\ i \in Line
  /\ Jiashu /\ e.step # "create" => e.of = config[i]
  /\ ~Jiashu => e.of = i
  /\ OneShot(e) => effect[e].status # "failed"

\* It changes nothing that is done already, and else nothing that a line relies on.
LEMMA ArrivesChanges ==
  ASSUME LinkInv, NEW e, NEW i, Pending(e, i), Arrives(e, i)
  PROVE  /\ overwritten' = FALSE /\ UNCHANGED <<shelf, jump>>
         \/ /\ overwritten' = FALSE /\ jump' = jump /\ Jiashu /\ e.step = "create"
            /\ \E p \in {1, 2} : shelf' = [shelf EXCEPT ![None] = p]
         \/ /\ overwritten' = FALSE /\ jump' = jump /\ ~Jiashu /\ Doubted(e) /\ shelf[i] = 0
            /\ \E p \in {1, 2} : shelf' = [shelf EXCEPT ![i] = p]
         \/ /\ overwritten' = FALSE /\ shelf' = shelf /\ Jiashu /\ Doubted(e) /\ jump = 0
            /\ e.step = "save" /\ jump' = e.of
<1>1. /\ e \in DOMAIN effect /\ e \in EffectKey /\ effect[e] \in EffectRow /\ EffectOK(e, effect[e])
      /\ overwritten = FALSE /\ provider \in {"jiashu", "wangyan"}
  BY LinkTypes DEF LinkInv, LinkTypeOK, Effects, World, Pending
<1>2. ASSUME OneShot(e) PROVE Done(e) \/ Doubted(e)
  <2>1. effect[e].status # "failed" /\ effect[e].status # "confirmed_absent"
    BY <1>1, <1>2 DEF Pending, EffectOK
  <2>2. effect[e].status \in Uncertain \/ effect[e].status = "succeeded"
    BY <1>1, <2>1 DEF EffectRow
  <2> QED
    BY <1>1, <2>2 DEF EffectOK, Doubted
<1>3. CASE Jiashu /\ e.step = "create"
  <2>1. e.step # "save" /\ provider = "jiashu"
    BY <1>3 DEF Jiashu
  <2>2. jump' = jump /\ overwritten' = FALSE
    BY <1>1, <2>1 DEF Arrives
  <2>3. UNCHANGED shelf \/ \E p \in {1, 2} : shelf' = [shelf EXCEPT ![None] = p]
    BY <1>3, <2>1 DEF Arrives
  <2> QED
    BY <1>3, <2>2, <2>3
<1>4. CASE Jiashu /\ e.step # "create"
  <2>1. shelf' = shelf /\ e.of = config[i]
    BY <1>4 DEF Arrives, Pending
  <2>2. CASE e.step # "save"
    BY <1>1, <2>1, <2>2 DEF Arrives
  <2>3. CASE e.step = "save" /\ Done(e)
    <3>1. jump = config[i]
      BY <2>1, <2>3 DEF Done
    <3> QED
      BY <1>1, <2>1, <2>3, <3>1 DEF Arrives
  <2>4. CASE e.step = "save" /\ Doubted(e)
    <3>1. jump \in {0, e.of}
      BY <1>1, <2>4 DEF EffectOK, Doubted
    <3> QED
      BY <1>1, <1>4, <2>1, <2>4, <3>1 DEF Arrives
  <2> QED
    BY <1>2, <1>4, <2>2, <2>3, <2>4 DEF OneShot
<1>5. CASE ~Jiashu
  <2>1. e.step = "create" /\ e.of = i /\ provider # "jiashu" /\ OneShot(e)
    BY <1>1, <1>5 DEF EffectOK, Pending, Jiashu, OneShot
  <2>2. jump' = jump /\ overwritten' = FALSE
    BY <1>1, <2>1 DEF Arrives
  <2>3. CASE shelf[i] # 0
    BY <2>1, <2>2, <2>3 DEF Arrives
  <2>4. CASE shelf[i] = 0
    <3>1. Doubted(e)
      BY <1>2, <1>5, <2>1, <2>4 DEF Done
    <3>2. \E p \in {1, 2} : shelf' = [shelf EXCEPT ![i] = p]
      BY <2>1, <2>4 DEF Arrives
    <3> QED
      BY <1>5, <2>2, <2>4, <3>1, <3>2
  <2> QED
    BY <2>3, <2>4
<1> QED
  BY <1>3, <1>4, <1>5

\* A request that arrives does what the one scope that is in doubt expects of it.
LEMMA ArrivesKeeps ==
  ASSUME LinkInv, LinkTypeOK', NEW e, NEW i, Pending(e, i), Arrives(e, i),
         UNCHANGED <<effect, link, scopeHolder, provider, config, credentials>>, credentials' <= linkFaults'
  PROVE  Grown /\ (\A k \in Line : Steady(k)) /\ Effects' /\ World' /\ Done(e)'
<1>1. /\ LinkTypeOK /\ Effects /\ World /\ shelf \in [LinkRows -> 0 .. 2] /\ jump \in Episode \cup {0}
      /\ i \in Line /\ i \in LinkRows /\ None \in LinkRows /\ None \notin Line
      /\ shelf' \in [LinkRows -> 0 .. 2] /\ link \in [Episode -> LinkRows \cup {0}]
      /\ \A x \in DOMAIN effect : x \in EffectKey /\ effect[x] \in EffectRow
      /\ \A k \in Line : k \in LinkRows
      /\ e \in DOMAIN effect /\ EffectOK(e, effect[e])
  BY LinkTypes, LinkStepsOK DEF LinkInv, LinkTypeOK, LinkRows, Pending, Effects
<1>2. /\ \A r \in LinkRows : shelf[r] # 0 => shelf'[r] # 0
      /\ \A k \in Line : shelf'[k] # shelf[k] => ~Jiashu /\ k = i /\ Doubted(e)
      /\ jump' # jump => Jiashu /\ Doubted(e) /\ jump = 0 /\ e.step = "save" /\ jump' = e.of
      /\ overwritten' = FALSE
  <2>1. CASE overwritten' = FALSE /\ UNCHANGED <<shelf, jump>>
    BY <2>1
  <2>2. CASE /\ overwritten' = FALSE /\ jump' = jump /\ Jiashu /\ e.step = "create"
             /\ \E p \in {1, 2} : shelf' = [shelf EXCEPT ![None] = p]
    <3>1. PICK p \in {1, 2} : shelf' = [shelf EXCEPT ![None] = p]
      BY <2>2
    <3> QED
      BY <1>1, <2>2, <3>1
  <2>3. CASE /\ overwritten' = FALSE /\ jump' = jump /\ ~Jiashu /\ Doubted(e) /\ shelf[i] = 0
             /\ \E p \in {1, 2} : shelf' = [shelf EXCEPT ![i] = p]
    <3>1. PICK p \in {1, 2} : shelf' = [shelf EXCEPT ![i] = p]
      BY <2>3
    <3> QED
      BY <1>1, <2>3, <3>1
  <2>4. CASE /\ overwritten' = FALSE /\ shelf' = shelf /\ Jiashu /\ Doubted(e) /\ jump = 0
             /\ e.step = "save" /\ jump' = e.of
    BY <2>4
  <2> QED
    BY <2>1, <2>2, <2>3, <2>4, ArrivesChanges
<1>3. Calm
  BY DEF Calm, Doubted
<1>4. Grown
  <2>1. jump # 0 => jump' = jump
    BY <1>2
  <2>2. \A x \in DOMAIN effect : effect'[x].attempt = effect[x].attempt /\ effect[x].attempt \in Nat
    BY <1>1 DEF EffectRow
  <2> QED
    BY <1>2, <2>1, <2>2 DEF Grown
<1>5. ASSUME Doubted(e)
      PROVE  /\ \A x \in DOMAIN effect : Doubted(x) => x = e
             /\ scopeHolder \in Line /\ e.step # "create" /\ Jiashu => e.of = config[scopeHolder]
             /\ ~Jiashu => scopeHolder = i
  <2>1. /\ scopeHolder \in Line /\ KeyOf(provider, config, scopeHolder, line[scopeHolder].work) = e
        /\ \A x \in DOMAIN effect : Doubted(x) => x = e
    BY <1>1, <1>5, DoubtOfScope
  <2>2. e.step # "create" /\ Jiashu => e.of = config[scopeHolder]
    BY <2>1 DEF KeyOf, Jiashu
  <2>3. ~Jiashu => e.of = scopeHolder
    BY <1>1, <2>1, KeyOfLine
  <2> QED
    BY <2>1, <2>2, <2>3 DEF Pending
<1>6. ASSUME NEW k \in Line, scopeHolder = k, NEW w, ScopeFits(k, w) PROVE ScopeFits(k, w)'
  <2>1. Jiashu' <=> Jiashu
    BY DEF Jiashu
  <2>2. Jiashu /\ w.stage \in ConfigStages => jump' \in {0, config[k]}
    BY <1>2, <1>5, <1>6 DEF ScopeFits
  <2>3. \A m \in Line \ {k} : ~Jiashu => shelf'[m] = shelf[m]
    BY <1>2, <1>5, <1>6
  <2> QED
    BY <1>6, <2>1, <2>2, <2>3 DEF ScopeFits
<1>7. \A k \in Line : Steady(k)
  BY <1>3, <1>6 DEF Steady
<1>8. Effects'
  <2> SUFFICES ASSUME NEW x \in DOMAIN effect PROVE EffectOK(x, effect[x])'
    BY DEF Effects
  <2>1. PICK row \in EffectRow : row = effect[x]
    BY <1>1
  <2>2. EffectOK(x, row)
    BY <1>1, <2>1 DEF Effects
  <2>3. ASSUME row.status \in Uncertain PROVE EffectOK(x, row)'
    <3>1. Doubted(x)
      BY <2>1, <2>3 DEF Doubted
    <3>2. x.step = "save" => jump' \in {0, x.of}
      BY <1>2, <1>5, <2>2, <2>3, <3>1 DEF EffectOK
    <3>3. ~Jiashu => \A k \in Line \ {x.of} : shelf'[k] = 0
      BY <1>2, <1>5, <2>2, <2>3, <3>1 DEF EffectOK, Pending
    <3>4. /\ row.row # 0 => ~Jiashu /\ row.row = x.of /\ shelf'[x.of] # 0
          /\ x.step = "save" => shelf'[None] # 0
      BY <1>1, <1>2, <2>1, <2>2 DEF EffectOK, EffectRow
    <3> QED
      BY <2>2, <2>3, <3>2, <3>3, <3>4 DEF EffectOK, Jiashu, OneShot, Uncertain
  <2>4. EffectOK(x, row)'
    BY <1>1, <1>4, <2>1, <2>2, <2>3, EffectKeeps
  <2> QED
    BY <2>1, <2>4
<1>9. World'
  <2>1. Jiashu' <=> Jiashu
    BY DEF Jiashu
  <2>2. /\ Jiashu => \A k \in Line : shelf'[k] = 0
        /\ ~Jiashu => jump' = 0
    BY <1>1, <1>2 DEF World
  <2>3. jump' # 0 => shelf'[None] # 0
    BY <1>1, <1>2 DEF World, EffectOK
  <2>4. \A k, m \in Line : shelf'[k] # 0 /\ shelf'[m] # 0 => k = m
    <3>1. ASSUME ~Jiashu, Doubted(e) PROVE \A k \in Line \ {i} : shelf[k] = 0
      BY <1>1, <3>1 DEF EffectOK, Doubted, Pending
    <3> QED
      BY <1>1, <1>2, <3>1 DEF World
  <2>5. ASSUME NEW c \in Episode, link[c] # 0 PROVE shelf'[link[c]] # 0 /\ (Jiashu => jump' = c)
    <3>1. link[c] \in LinkRows /\ c # 0
      BY <1>1, <2>5, LinkStepsOK
    <3>2. shelf[link[c]] # 0 /\ (Jiashu => jump = c)
      BY <1>1, <2>5 DEF World
    <3> QED
      BY <1>2, <3>1, <3>2
  <2> QED
    BY <1>2, <2>1, <2>2, <2>3, <2>4, <2>5 DEF World
<1>10. Done(e)'
  <2>1. (~Jiashu => e.step = "create" /\ e.of = i) /\ (Jiashu /\ e.step # "create" => e.of = config[i])
    BY <1>1 DEF EffectOK, Pending
  <2>2. PICK r \in LinkRows : r = IF Jiashu THEN None ELSE i
    BY <1>1
  <2>3. e.step = "create" => shelf'[r] # 0
    <3> SUFFICES ASSUME e.step = "create", shelf[r] = 0 PROVE shelf'[r] # 0
      BY <1>2, <2>2
    <3>1. \E p \in {1, 2} : shelf' = [shelf EXCEPT ![r] = p]
      BY <2>2 DEF Arrives, Jiashu
    <3>2. PICK p \in {1, 2} : shelf' = [shelf EXCEPT ![r] = p]
      BY <3>1
    <3> QED
      BY <1>1, <3>2
  <2>4. e.step = "save" => jump' = e.of
    BY <2>1 DEF Arrives
  <2> QED
    BY <2>1, <2>2, <2>3, <2>4 DEF Done, Jiashu
<1> QED
  BY <1>4, <1>7, <1>8, <1>9, <1>10

\* So does one that arrives after it was given up.
LEMMA ArrivesLateKeeps == ASSUME LinkInv, LinkTypeOK', ArrivesLate PROVE LinkInv'
<1>1. PICK f \in flying : Arrives(f[1], f[2]) /\ flying' = flying \ {f}
  BY DEF ArrivesLate
<1>2. UNCHANGED <<line, lineHolder, scopeHolder, link, credentials, provider, config, linkRun, effect,
                  linkFaults>>
  BY DEF ArrivesLate, OnlyRunAndRemote
<1>3. Pending(f[1], f[2])
  <2>1. FlightOK(f) /\ f[2] \in Line
    BY DEF LinkInv, Flights, LinkTypeOK
  <2>2. OneShot(f[1]) => effect[f[1]].status # "failed"
    BY <2>1 DEF LinkInv, Refused, FlightOK
  <2> QED
    BY <2>1, <2>2 DEF FlightOK, Pending
<1>4. credentials' <= linkFaults'
  BY <1>2 DEF LinkInv, World
<1>5. Grown /\ (\A k \in Line : Steady(k)) /\ Effects' /\ World'
  BY <1>1, <1>2, <1>3, <1>4, ArrivesKeeps
<1>6. Flights'
  BY <1>1, <1>5, FlightKeeps DEF LinkInv, Flights
<1>7. Lines' /\ Runs' /\ Holders'
  BY <1>2, <1>5, Progress
<1>8. OneSender' /\ OneFlight' /\ Refused'
  BY <1>1, <1>2, SendersKeep
<1> QED
  BY <1>5, <1>6, <1>7, <1>8 DEF LinkInv

\* A request is carried out, refused, or given up and perhaps still under way.
LEMMA PostWriteKeeps == ASSUME LinkInv, LinkTypeOK', NEW t \in Task, PostWrite(t) PROVE LinkInv'
<1>1. PICK r \in RunRow, n \in RunRow : r = linkRun[t] /\ n = linkRun'[t]
  BY LinkTypes DEF LinkInv, LinkTypeOK, RunRow
<1>2. PICK i, w, e : i = linkRun[t].line /\ w = linkRun[t].work /\ e = EffectOf(i, w)
  OBVIOUS
<1>3. UNCHANGED <<line, lineHolder, scopeHolder, link, credentials, provider, config, effect>>
  BY DEF PostWrite, OnlyRunAndRemote
<1>4. r.at = "armed" /\ Sends(linkRun[t])
  BY <1>1 DEF PostWrite, Sends
<1>5. PICK answer : /\ linkRun' = [linkRun EXCEPT ![t].at = "posted", ![t].answer = answer]
                    /\ \/ answer \in {"accepted", "accepted_id", "unknown"} /\ Arrives(e, i) /\ flying' = flying
                       \/ /\ answer \in {"rejected", "unknown"} /\ UNCHANGED <<shelf, jump, overwritten>>
                          /\ \/ flying' = flying
                             \/ answer = "unknown" /\ flying' = flying \cup {<<e, i>>}
                    /\ linkFaults' \in {linkFaults, linkFaults + 1}
  BY <1>2, Zenon DEF PostWrite
<1>6. /\ n.at = "posted" /\ n.answer = answer /\ n.line = i /\ n.work = w /\ n.attempt = r.attempt
      /\ n.status = r.status /\ n.decides = r.decides /\ r.line = i /\ r.work = w
      /\ \A u \in Task \ {t} : linkRun'[u] = linkRun[u]
  <2>1. linkRun \in [Task -> RunRow] /\ n = [r EXCEPT !.at = "posted", !.answer = answer]
    BY <1>1, <1>5, LinkTypes DEF LinkInv
  <2> QED
    BY <1>1, <1>2, <1>5, <2>1 DEF RunRow
<1>7. /\ i \in Line /\ e \in DOMAIN effect /\ e = KeyOfRun(linkRun[t])
      /\ (~Jiashu => e.of = i) /\ (Jiashu /\ e.step # "create" => e.of = config[i])
  BY <1>2, <1>4, RunSends
<1>8. Pending(e, i)
  <2>1. OneShot(e) => effect[e].status # "failed"
    BY <1>1, <1>4, <1>7 DEF LinkInv, Refused
  <2> QED
    BY <1>7, <2>1 DEF Pending
<1>9. credentials' <= linkFaults'
  <2>1. credentials \in Nat /\ linkFaults \in Nat /\ credentials <= linkFaults
    BY DEF LinkInv, LinkTypeOK, World, Version
  <2> QED
    BY <1>3, <1>5, <2>1
<1>10. /\ Grown /\ (\A k \in Line : Steady(k)) /\ Effects' /\ World'
       /\ answer \in {"accepted", "accepted_id"} => Done(e)'
  <2>1. CASE Arrives(e, i)
    BY <1>3, <1>8, <1>9, <2>1, ArrivesKeeps
  <2>2. CASE answer \in {"rejected", "unknown"} /\ UNCHANGED <<shelf, jump, overwritten>>
    <3>1. Still
      BY <1>3, <2>2 DEF Still
    <3> QED
      BY <1>9, <2>2, <3>1, StillWorld
  <2> QED
    BY <1>5, <2>1, <2>2
<1>11. /\ KeyOfRun(n)' = e /\ KeyOfRun(r) = e /\ KeyOfRun(r)' = e
       /\ \A x : OneShot(x)' <=> OneShot(x)
  BY <1>1, <1>3, <1>6, <1>7 DEF KeyOfRun, OneShot
<1>12. RunOK(r)' /\ RunOK(n)'
  <2>1. RunOK(r)'
    BY <1>1, <1>10, RunKeeps DEF LinkInv, Runs
  <2> QED
    BY <1>4, <1>6, <1>10, <1>11, <2>1 DEF RunOK, Sends
<1>13. ASSUME lineHolder[i] = t PROVE HolderOK(i, n)' /\ line'[i].status = "pending"
  <2>1. HolderOK(i, r) /\ line[i].status = "pending"
    BY <1>1, <1>7, <1>13, HolderWorks, TasksOK
  <2>2. HolderOK(i, r)'
    BY <1>1, <1>7, <1>10, <2>1, HolderKeeps DEF LinkInv, Runs
  <2> QED
    BY <1>3, <1>4, <1>6, <1>11, <2>1, <2>2 DEF HolderOK, Sends, AtWork
<1>14. Lines' /\ Runs' /\ Holders'
  <2>1. \A k \in Line : Steady(k) /\ line'[k] = line[k]
    BY <1>3, <1>10
  <2>2. \A u \in Task : linkRun'[u] = linkRun[u] \/ RunOK(linkRun[u])'
    BY <1>1, <1>6, <1>12
  <2>3. ASSUME NEW k \in Line, lineHolder'[k] # None
        PROVE  \/ /\ Steady(k) /\ lineHolder'[k] = lineHolder[k] /\ line'[k].status = line[k].status
                  /\ linkRun'[lineHolder[k]] = linkRun[lineHolder[k]]
               \/ line'[k].status = "pending" /\ HolderOK(k, linkRun[lineHolder[k]])'
    <3>1. CASE lineHolder[k] = t
      <4>1. k = i
        BY <1>2, <3>1, HolderWorks, TasksOK
      <4> QED
        BY <1>1, <1>3, <1>13, <3>1, <4>1
    <3>2. CASE lineHolder[k] # t
      <4>1. lineHolder[k] \in Task \ {t}
        BY <1>3, <2>3, <3>2, HolderWorks
      <4> QED
        BY <1>3, <1>6, <1>10, <4>1
    <3> QED
      BY <3>1, <3>2
  <2> QED
    BY <1>10, <2>1, <2>2, <2>3, Progress
<1>15. Flights'
  <2>1. FlightOK(<<e, i>>)'
    BY <1>3, <1>7 DEF FlightOK, Jiashu
  <2>2. \A f \in flying : FlightOK(f)'
    BY <1>10, FlightKeeps DEF LinkInv, Flights
  <2> QED
    BY <1>5, <2>1, <2>2 DEF Flights
<1>16. ASSUME NEW s \in Task
       PROVE  /\ Sends(linkRun[s])' <=> Sends(linkRun[s])
              /\ linkRun'[s].attempt = linkRun[s].attempt
              /\ KeyOfRun(linkRun[s])' = KeyOfRun(linkRun[s])
              /\ s # t => \A x : Quiet(x, linkRun[s])' <=> Quiet(x, linkRun[s])
              /\ linkRun'[s].at = "armed" => linkRun[s].at = "armed"
  <2>1. CASE s = t
    BY <1>1, <1>4, <1>6, <1>7, <1>11, <2>1 DEF Sends
  <2>2. CASE s # t
    <3>1. PICK q : q = linkRun[s] /\ linkRun'[s] = q
      BY <1>6, <2>2
    <3>2. KeyOfRun(q)' = KeyOfRun(q)
      BY <1>3 DEF KeyOfRun
    <3> QED
      BY <3>1, <3>2 DEF Sends, Quiet
  <2> QED
    BY <2>1, <2>2
<1>17. OneSender'
  BY <1>16 DEF LinkInv, OneSender
<1>18. OneFlight'
  <2> SUFFICES ASSUME NEW f \in flying', OneShot(f[1])', NEW s \in Task PROVE Quiet(f[1], linkRun[s])'
    BY DEF OneFlight
  <2>1. OneShot(f[1])
    BY <1>11
  <2>2. CASE f \in flying
    <3>1. Quiet(f[1], linkRun[s])
      BY <2>1, <2>2 DEF LinkInv, OneFlight
    <3>2. CASE s = t
      BY <1>1, <1>4, <1>7, <1>11, <3>1, <3>2 DEF Quiet
    <3> QED
      BY <1>16, <3>1, <3>2
  <2>3. CASE f = <<e, i>> /\ answer = "unknown"
    <3>1. CASE s = t
      BY <1>1, <1>6, <3>1, <2>3 DEF Quiet
    <3>2. CASE s # t
      <4>1. ~(Sends(linkRun[s]) /\ KeyOfRun(linkRun[s]) = e)
        BY <1>4, <1>7, <2>1, <2>3, <3>2, OneShotSender
      <4> QED
        BY <1>16, <2>3, <3>2, <4>1 DEF Quiet
    <3> QED
      BY <3>1, <3>2
  <2> QED
    BY <1>5, <2>2, <2>3
<1>19. Refused'
  <2> SUFFICES ASSUME NEW x \in DOMAIN effect, OneShot(x), effect[x].status = "failed"
               PROVE  /\ \A f \in flying' : f[1] # x
                      /\ \A s \in Task : linkRun'[s].at = "armed" => KeyOfRun(linkRun[s])' # x
    BY <1>3, <1>11 DEF Refused
  <2>1. /\ \A f \in flying : f[1] # x
        /\ \A s \in Task : linkRun[s].at = "armed" => KeyOfRun(linkRun[s]) # x
    BY DEF LinkInv, Refused
  <2>2. e # x
    BY <1>8 DEF Pending
  <2>3. ASSUME NEW f \in flying' PROVE f[1] # x
    <3>1. f \in flying \/ f = <<e, i>>
      BY <1>5, <2>3
    <3> QED
      BY <2>1, <2>2, <3>1
  <2>4. ASSUME NEW s \in Task, linkRun'[s].at = "armed" PROVE KeyOfRun(linkRun[s])' # x
    BY SMTT(90), <1>16, <2>1, <2>4
  <2> QED
    BY <2>3, <2>4
<1> QED
  BY <1>10, <1>14, <1>15, <1>17, <1>18, <1>19 DEF LinkInv

-----------------------------------------------------------------------------
(* The proof of a row, the claim of a line and the end of a unit.          *)

\* The row that proves the write is stored if it names the promotion of this line.
LEMMA StoreProofKeeps == ASSUME LinkInv, LinkTypeOK', NEW t \in Task, StoreProof(t) PROVE LinkInv'
<1>1. PICK i, w, run : run = linkRun[t] /\ i = run.line /\ w = run.work
  OBVIOUS
<1>2. PICK e, v : e = EffectOf(i, w) /\ v = [w EXCEPT !.doubt = 0]
  OBVIOUS
<1>3. /\ linkRun[t].at = "looked"
      /\ UNCHANGED <<lineHolder, shelf, jump, link, scopeHolder, provider, config, overwritten, flying,
                     credentials, linkFaults>>
  BY DEF StoreProof
<1>4. /\ i \in Line /\ w \in WorkType /\ WorkFits(i, w) /\ ~Jiashu /\ w.stage = "verify"
      /\ lineHolder[i] = t => OutcomeHeld(i, w, "none") /\ scopeHolder = i
  <2>1. RunOK(run)
    BY <1>1 DEF LinkInv, Runs
  <2> QED
    BY <1>1, <1>3, <2>1, RunAtWork DEF RunOK
<1>5. CASE ToFinish(t, "busy", w, "none") /\ UNCHANGED <<line, effect>>
  <2>1. Still /\ credentials' <= linkFaults'
    BY <1>3, <1>5 DEF Still, LinkInv, World
  <2>2. Outcome(i, "busy", w, "none")
    BY <1>4 DEF Outcome
  <2> QED
    BY <1>1, <1>3, <1>4, <1>5, <2>1, <2>2, StillFinishes
<1>6. CASE /\ lineHolder[i] = t
           /\ effect' = IF w.doubt = 0 THEN effect
                        ELSE [effect EXCEPT ![e].status = "succeeded", ![e].row = w.row]
           /\ line' = [line EXCEPT ![i].work = v] /\ ToFinish(t, "ready", v, "none")
  <2>1. /\ v.stage = "verify" /\ v.step = w.step /\ v.page = w.page /\ v.found = w.found /\ v.row = w.row
        /\ v.active = w.active /\ v.named = w.named /\ v.doubt = 0 /\ v.since = w.since
        /\ v.version = w.version /\ v \in WorkType
    BY <1>2, <1>4 DEF WorkType
  <2>2. e = KeyOf(provider, config, i, w) /\ KeyOf(provider, config, i, v) = e
    BY <1>2, <2>1, KeyOfEffect DEF KeyOf
  <2>3. \A x \in DOMAIN effect : Doubted(x) => x = e /\ w.doubt # 0
    <3> SUFFICES ASSUME NEW x \in DOMAIN effect, Doubted(x) PROVE x = e /\ w.doubt # 0
      OBVIOUS
    <3>1. Knows(x, effect[x].attempt, i, w) /\ effect[x].attempt # 0
      BY <1>4, <1>6 DEF OutcomeHeld, LinkInv, Effects, EffectOK
    <3> QED
      BY <1>4, <2>2, <3>1 DEF Knows, WorkType, Writes
  <2>4. /\ Calm /\ (\A x \in DOMAIN effect' : ~Doubted(x)')
        /\ \A x \in DOMAIN effect : /\ EffectOK(x, effect'[x])
                                    /\ effect'[x].status = "failed" => effect[x].status = "failed"
    <3>1. CASE w.doubt = 0
      <4>1. effect' = effect
        BY <1>6, <3>1
      <4> QED
        BY <2>3, <3>1, <4>1 DEF Calm, Doubted, LinkInv, Effects
    <3>2. CASE w.doubt # 0
      <4>1. effect' = [effect EXCEPT ![e].status = "succeeded", ![e].row = w.row]
        BY <1>6, <3>2
      <4>2. w.row = i /\ shelf[i] # 0 /\ e \in DOMAIN effect /\ w.row # 0
        BY <1>4, <2>2, <3>2 DEF WorkFits, WorkRows, WangyanWork
      <4>3. PICK old \in EffectRow : old = effect[e] /\ EffectOK(e, old)
        BY <4>2, LinkTypes DEF LinkInv, Effects
      <4>4. PICK row : row = [old EXCEPT !.status = "succeeded", !.row = w.row]
        OBVIOUS
      <4>5. EffectBecomes(e, row)
        BY <4>1, <4>2, <4>3, <4>4 DEF EffectBecomes
      <4>6. /\ row.status = "succeeded" /\ row.row = i /\ row.attempt = old.attempt
        BY <4>2, <4>3, <4>4 DEF EffectRow
      <4>7. e.of = i
        BY <1>4, <2>2, KeyOfLine DEF LinkInv
      <4>8. EffectOK(e, row)
        BY <1>4, <4>2, <4>3, <4>6, <4>7 DEF EffectOK, Done, Uncertain
      <4>9. row.status \notin Uncertain
        BY <4>6 DEF Uncertain
      <4>10. ASSUME NEW x \in DOMAIN effect
             PROVE  /\ effect'[x].attempt = effect[x].attempt /\ ~Doubted(x)'
                    /\ EffectOK(x, effect'[x])
                    /\ effect'[x].status = "failed" => effect[x].status = "failed"
        <5>1. CASE x = e
          BY <4>3, <4>5, <4>6, <4>8, <4>9, <5>1 DEF EffectBecomes, Doubted
        <5>2. CASE x # e
          BY <2>3, <4>5, <5>2 DEF EffectBecomes, Doubted, LinkInv, Effects
        <5> QED
          BY <5>1, <5>2
      <4> QED
        BY <4>5, <4>10 DEF Calm, EffectBecomes
    <3> QED
      BY <3>1, <3>2
  <2>5. /\ Grown /\ (\A k \in Line : Steady(k)) /\ Flights' /\ World'
        /\ \A x, r : EffectOK(x, r) => EffectOK(x, r)'
        /\ \A x : OneShot(x)' <=> OneShot(x)
    BY <1>3, <2>4, CalmKeeps
  <2>6. Effects'
    BY <2>4, <2>5 DEF Calm, Effects
  <2>7. WorkFits(i, v)
    <3>1. WorkStages(v) /\ WorkRows(v)
      BY <1>4, <2>1 DEF WorkFits, WorkStages, WorkRows, Recovering
    <3>2. WangyanWork(i, v)
      BY <1>4, <2>1, <2>2 DEF WorkFits, WangyanWork
    <3> QED
      BY <1>4, <3>1, <3>2 DEF WorkFits
  <2>8. WorkFits(i, v)' /\ ScopeFits(i, v)' /\ (~Jiashu)'
    BY <1>3, <1>4, <2>1, <2>5, <2>7, WorkKeeps DEF ScopeFits, Jiashu
  <2>9. line[i].status = "pending"
    BY <1>4, <1>6, HolderWorks, TasksOK
  <2>10. /\ line'[i].status = line[i].status /\ line'[i].work = v
         /\ \A k \in Line \ {i} : line'[k] = line[k]
    BY <1>4, <1>6, LinkTypes DEF LinkInv, LineRow
  <2>11. LineOK(i, line[i])'
    <3>1. PICK n : n = line'[i]
      OBVIOUS
    <3>2. n.status = "pending" /\ n.work = v
      BY <2>9, <2>10, <3>1
    <3>3. LineOK(i, n)'
      BY <1>3, <1>4, <1>6, <2>4, <2>8, <3>2 DEF LineOK, Terminal
    <3> QED
      BY <3>1, <3>3
  <2>12. Outcome(i, "ready", v, "none")'
    <3>1. v.row # 0
      BY <1>4, <2>1 DEF WorkFits, WangyanWork
    <3> QED
      BY <2>8, <3>1 DEF Outcome
  <2>13. OutcomeHeld(i, v, "none")'
    BY <1>3, <1>4, <1>6, <2>4, <2>8 DEF OutcomeHeld
  <2>14. \A k \in Line : line'[k].status = line[k].status /\ (line'[k] = line[k] \/ LineOK(k, line[k])')
    BY SMTT(90), <2>10, <2>11
  <2>15. /\ Lines' /\ Runs' /\ Holders'
         /\ \A u \in Task : linkRun'[u] = linkRun[u] \/ ~Sends(linkRun[u])'
    BY <1>1, <1>3, <1>4, <1>6, <2>5, <2>12, <2>13, <2>14, RunFinishes DEF AtWork
  <2>16. OneSender' /\ OneFlight' /\ Refused'
    BY <1>3, <2>4, <2>15, SendersKeep DEF Calm
  <2> QED
    BY <2>5, <2>6, <2>15, <2>16 DEF LinkInv
<1> QED
  BY <1>1, <1>2, <1>5, <1>6 DEF StoreProof

\* Credentials are given to a work that no write relies on yet.
LEMMA CredentialsFit ==
  ASSUME LinkInv, NEW i \in Line, NEW old \in WorkType, WorkFits(i, old), NEW w,
         w = IF old.version = None THEN [old EXCEPT !.version = credentials] ELSE old
  PROVE  /\ w \in WorkType /\ WorkFits(i, w) /\ w.stage = old.stage /\ w.page = old.page
         /\ NeedsScope(w) <=> NeedsScope(old)
         /\ ScopeFits(i, old) => ScopeFits(i, w)
         /\ \A e \in DOMAIN effect : Knows(e, effect[e].attempt, i, old) => Knows(e, effect[e].attempt, i, w)
<1>1. CASE old.version # None
  BY <1>1
<1>2. CASE old.version = None
  <2>1. credentials \in Version /\ \A e \in DOMAIN effect : e \in EffectKey
    BY DEF LinkInv, LinkTypeOK
  <2>2. /\ w.stage = old.stage /\ w.step = old.step /\ w.page = old.page /\ w.found = old.found
        /\ w.row = old.row /\ w.active = old.active /\ w.named = old.named /\ w.doubt = old.doubt
        /\ w.since = old.since /\ w \in WorkType
    BY <1>2, <2>1 DEF WorkType
  <2>3. KeyOf(provider, config, i, old) \notin DOMAIN effect
    <3>1. KeyOf(provider, config, i, old).version = None /\ None \notin Version
      BY <1>2, LinkStepsOK DEF KeyOf, Version
    <3> QED
      BY <2>1, <3>1 DEF EffectKey
  <2>4. WorkFits(i, w)
    BY <2>2, <2>3 DEF WorkFits, WorkStages, WorkRows, WangyanWork
  <2>5. \A e \in DOMAIN effect : ~Knows(e, effect[e].attempt, i, old)
    BY SMTT(90), <2>3 DEF Knows
  <2> QED
    BY <2>2, <2>4, <2>5 DEF NeedsScope, ScopeFits
<1> QED
  BY <1>1, <1>2

\* A claim takes the work as it is stored, and the scope only if no other line has it.
LEMMA ClaimLineKeeps == ASSUME LinkInv, LinkTypeOK', NEW t \in Task, ClaimLine(t) PROVE LinkInv'
<1>1. PICK r \in RunRow, n \in RunRow : r = linkRun[t] /\ n = linkRun'[t]
  BY LinkTypes DEF LinkInv, LinkTypeOK, RunRow
<1>2. PICK i, row : i = r.line /\ row = line[i]
  OBVIOUS
<1>3. PICK w : w = IF row.work.version = None THEN [row.work EXCEPT !.version = credentials] ELSE row.work
  OBVIOUS
<1>4. /\ linkRun[t].at = "queued" /\ r.at = "queued"
      /\ UNCHANGED <<effect, link, credentials, provider, config, shelf, jump, flying, overwritten, linkFaults>>
  BY <1>1 DEF ClaimLine
<1>5. /\ i \in Line /\ row \in LineRow /\ LineOK(i, row) /\ RunOK(r) /\ r.decides = "none" /\ row.work \in WorkType
      /\ WorkFits(i, row.work)
  <2>1. RunOK(r)
    BY <1>1 DEF LinkInv, Runs
  <2>2. i \in Line
    BY <1>2, <1>4, <2>1 DEF RunOK
  <2>3. row \in LineRow /\ LineOK(i, row)
    BY <1>2, <2>2, LinkTypes DEF LinkInv, Lines
  <2> QED
    BY <1>4, <2>1, <2>2, <2>3 DEF RunOK, LineRow, LineOK
<1>6. \A k \in Line : lineHolder[k] # t
  BY <1>4, HolderWorks, TasksOK DEF AtWork
<1>7. credentials' <= linkFaults'
  BY <1>4 DEF LinkInv, World
<1>8. CASE linkRun' = [linkRun EXCEPT ![t].at = "finished"] /\ UNCHANGED <<line, lineHolder, scopeHolder>>
  <2>1. Grown /\ (\A k \in Line : Steady(k)) /\ Effects' /\ Flights' /\ World'
    BY <1>4, <1>7, <1>8, StillKeeps DEF Still
  <2>2. /\ n.at = "finished" /\ n.line = i /\ n.work = r.work /\ n.decides = "none"
        /\ \A u \in Task \ {t} : linkRun'[u] = linkRun[u]
    <3>1. linkRun \in [Task -> RunRow] /\ n = [r EXCEPT !.at = "finished"]
      BY <1>1, <1>8, LinkTypes DEF LinkInv
    <3> QED
      BY <1>1, <1>2, <1>5, <1>8, <3>1 DEF RunRow
  <2>3. RunOK(r)'
    BY <1>5, <2>1, RunKeeps DEF LinkInv
  <2>4. RunOK(n)' /\ ~Sends(n)
    BY <1>2, <1>4, <1>5, <2>2, <2>3 DEF RunOK, Sends
  <2>5. \A u \in Task : linkRun'[u] = linkRun[u] \/ (RunOK(linkRun[u])' /\ ~Sends(linkRun[u])')
    BY <1>1, <2>2, <2>4 DEF Sends
  <2>6. \A k \in Line : lineHolder[k] # None => linkRun'[lineHolder[k]] = linkRun[lineHolder[k]]
    BY <1>6, <2>2, HolderWorks
  <2>7. Lines' /\ Runs' /\ Holders'
    BY <1>8, <2>1, <2>5, <2>6, Progress
  <2>8. OneSender' /\ OneFlight' /\ Refused'
    BY <1>4, <2>5, SendersKeep
  <2> QED
    BY <2>1, <2>7, <2>8 DEF LinkInv
<1>9. ASSUME row.status \notin Terminal, line' = [line EXCEPT ![i] = [status |-> "pending", live |-> TRUE, work |-> w]],
             lineHolder' = [lineHolder EXCEPT ![i] = t],
             scopeHolder' = scopeHolder \/ (scopeHolder' = i /\ scopeHolder \in {None, i}),
             NEW at \in {"finish", "working"}, NEW s \in {"blocked_auth", "ready", "pending", "busy"},
             linkRun' = [linkRun EXCEPT ![t].at = at, ![t].status = s, ![t].work = w],
             at = "working" /\ w.stage # "search" => scopeHolder' = i,
             s = "ready" => Jiashu /\ link[config[i]] # 0
      PROVE  LinkInv'
  <2>1. /\ w \in WorkType /\ WorkFits(i, w) /\ w.stage = row.work.stage /\ w.page = row.work.page
        /\ NeedsScope(w) <=> NeedsScope(row.work)
        /\ ScopeFits(i, row.work) => ScopeFits(i, w)
        /\ \A e \in DOMAIN effect :
             Knows(e, effect[e].attempt, i, row.work) => Knows(e, effect[e].attempt, i, w)
    BY <1>3, <1>5, CredentialsFit
  <2>2. NeedsScope(w) => scopeHolder = i
    BY <1>5, <1>9, <2>1 DEF LineOK
  <2>3. i # None
    BY <1>5, LinkStepsOK
  <2>4. ASSUME scopeHolder' = i
        PROVE  /\ ScopeFits(i, w) /\ \A e \in DOMAIN effect : Doubted(e) => Knows(e, effect[e].attempt, i, w)
    <3>1. CASE scopeHolder = i
      BY <1>5, <1>9, <2>1, <3>1 DEF LineOK, Recalls
    <3>2. CASE scopeHolder # i
      <4>1. scopeHolder = None /\ ~NeedsScope(w)
        BY <1>9, <2>2, <2>4, <3>2
      <4>2. \A e \in DOMAIN effect : ~Doubted(e)
        BY <4>1 DEF LinkInv, Effects, EffectOK, Doubted
      <4>3. ScopeFits(i, w)
        BY <4>1 DEF NeedsScope, ScopeFits, ConfigStages
      <4> QED
        BY <4>2, <4>3
    <3> QED
      BY <3>1, <3>2
  <2>5. Grown /\ Calm
    BY <1>4, <1>5 DEF Grown, Calm, Doubted, LinkInv, LinkTypeOK
  <2>6. \A k \in Line, v \in WorkType : ScopeFits(k, v) => ScopeFits(k, v)'
    BY <1>4 DEF ScopeFits, Jiashu
  <2>7. \A k \in Line \ {i} : Steady(k)
    BY <1>9, <2>5, <2>6, LinkStepsOK DEF Steady
  <2>8. WorkFits(i, w)'
    BY <1>5, <2>1, <2>5, WorkKeeps
  <2>9. scopeHolder' = i => /\ ScopeFits(i, w)'
                            /\ (\A e \in DOMAIN effect : Doubted(e) => Knows(e, effect[e].attempt, i, w))'
    BY <1>4, <1>5, <2>1, <2>4, <2>5, <2>6, KnownKeeps
  <2>10. NeedsScope(w) => scopeHolder' = i
    BY <1>9, <2>2
  <2>11. /\ line'[i].status = "pending" /\ line'[i].work = w /\ lineHolder'[i] = t
         /\ \A k \in Line \ {i} : line'[k] = line[k] /\ lineHolder'[k] = lineHolder[k]
    BY <1>5, <1>9 DEF LinkInv, LinkTypeOK
  <2>12. LineOK(i, line[i])'
    <3>1. PICK m : m = line'[i] /\ m.status = "pending" /\ m.work = w
      BY <2>11
    <3>2. ASSUME scopeHolder' = i, NEW e \in DOMAIN effect', Doubted(e)'
          PROVE  Recalls(e, effect[e].attempt, i, "pending", w)'
      BY <2>9, <3>2 DEF Recalls, Weakly, Knows
    <3>3. LineOK(i, m)'
      BY SMTT(90), <2>8, <2>9, <2>10, <3>1, <3>2 DEF LineOK, Terminal
    <3> QED
      BY <3>1, <3>3
  <2>13. /\ n.at = at /\ n.line = i /\ n.work = w /\ n.status = s /\ n.decides = "none"
         /\ \A u \in Task \ {t} : linkRun'[u] = linkRun[u]
    <3>1. linkRun \in [Task -> RunRow] /\ n = [r EXCEPT !.at = at, !.status = s, !.work = w]
      BY SMTT(90), <1>1, <1>9, LinkTypes DEF LinkInv
    <3> QED
      BY <1>1, <1>2, <1>5, <1>9, <3>1 DEF RunRow
  <2>14. s = "ready" => Jiashu /\ jump = config[i]
    BY <1>5, <1>9 DEF LinkInv, LinkTypeOK, World
  <2>15. RunOK(n)' /\ ~Sends(n)
    BY <1>4, <1>5, <1>9, <2>8, <2>13, <2>14 DEF RunOK, Sends, Jiashu
  <2>16. HolderOK(i, n)'
    BY <1>9, <2>9, <2>10, <2>13, <2>15 DEF HolderOK, AtWork, Sends
  <2>17. \A u \in Task : linkRun'[u] = linkRun[u] \/ (RunOK(linkRun[u])' /\ ~Sends(linkRun[u])')
    BY <1>1, <2>13, <2>15 DEF Sends
  <2>18. ASSUME NEW k \in Line, lineHolder'[k] # None
         PROVE  \/ /\ Steady(k) /\ lineHolder'[k] = lineHolder[k] /\ line'[k].status = line[k].status
                   /\ linkRun'[lineHolder[k]] = linkRun[lineHolder[k]]
                \/ line'[k].status = "pending" /\ HolderOK(k, linkRun[lineHolder[k]])'
    <3>1. CASE k = i
      BY <1>1, <2>11, <2>16, <3>1
    <3>2. CASE k # i
      <4>1. lineHolder[k] \in Task \ {t}
        BY <1>6, <2>11, <2>18, <3>2, HolderWorks
      <4> QED
        BY <2>7, <2>11, <2>13, <3>2, <4>1
    <3> QED
      BY <3>1, <3>2
  <2>19. Lines' /\ Runs' /\ Holders'
    BY <2>5, <2>7, <2>11, <2>12, <2>17, <2>18, Progress
  <2>20. OneSender' /\ OneFlight' /\ Refused'
    BY <1>4, <2>17, SendersKeep
  <2>21. ASSUME NEW e, NEW x, EffectOK(e, x) PROVE EffectOK(e, x)'
    BY <1>4, <1>9, <2>3, <2>21 DEF EffectOK, Jiashu, OneShot, Done
  <2>22. Effects'
    BY <1>4, <2>21 DEF LinkInv, Effects
  <2>23. Flights'
    BY <1>4, <2>5, FlightKeeps DEF LinkInv, Flights
  <2>24. World'
    BY <1>4 DEF LinkInv, World, Jiashu
  <2> QED
    BY <2>19, <2>20, <2>22, <2>23, <2>24 DEF LinkInv
<1>10. \/ linkRun' = [linkRun EXCEPT ![t].at = "finished"] /\ UNCHANGED <<line, lineHolder, scopeHolder>>
       \/ /\ row.status \notin Terminal
          /\ line' = [line EXCEPT ![i] = [status |-> "pending", live |-> TRUE, work |-> w]]
          /\ lineHolder' = [lineHolder EXCEPT ![i] = t]
          /\ scopeHolder' = scopeHolder \/ (scopeHolder' = i /\ scopeHolder \in {None, i})
          /\ \E at \in {"finish", "working"}, s \in {"blocked_auth", "ready", "pending", "busy"} :
               /\ linkRun' = [linkRun EXCEPT ![t].at = at, ![t].status = s, ![t].work = w]
               /\ at = "working" /\ w.stage # "search" => scopeHolder' = i
               /\ s = "ready" => Jiashu /\ link[config[i]] # 0
  BY <1>1, <1>2, <1>3, ZenonT(90) DEF ClaimLine, Jiashu
<1> QED
  BY ZenonT(90), <1>8, <1>9, <1>10

\* A unit ends: its run no longer counts, and nothing but its line may have changed.
UnitOver(t, i) ==
  /\ linkRun' = [linkRun EXCEPT ![t] = [NoLinkRun EXCEPT !.at = "finished", !.line = i]]
  /\ UNCHANGED <<credentials, provider, config, shelf, jump, flying, overwritten, linkFaults>>

\* The scope is given up only when nothing is in doubt.
LEMMA UnitOverEnds ==
  ASSUME LinkInv, LinkTypeOK', NEW t \in Task, NEW i \in Line, UnitOver(t, i)
  PROVE  /\ \A u \in Task \ {t} : linkRun'[u] = linkRun[u]
         /\ RunOK(linkRun[t])' /\ ~Sends(linkRun[t])'
<1>1. PICK r : r = [NoLinkRun EXCEPT !.at = "finished", !.line = i]
  OBVIOUS
<1>2. linkRun'[t] = r /\ \A u \in Task \ {t} : linkRun'[u] = linkRun[u]
  BY <1>1, LinkTypes DEF LinkInv, UnitOver
<1>3. r.at = "finished" /\ r.line = i /\ r.work = NewWork /\ r.decides = "none"
  BY <1>1 DEF NoLinkRun
<1>4. WorkFits(i, NewWork)'
  BY NewWorkFits DEF WorkFits, WorkStages, WorkRows, WangyanWork, NewWork, ChannelStages,
     Recovering
<1>5. RunOK(r)' /\ ~Sends(r)'
  BY <1>3, <1>4 DEF RunOK, Sends
<1> QED
  BY <1>2, <1>5

\* What is stored at the end of a unit: status, work and effects.
StoreFits(t, i, status, work, effects) ==
  /\ DOMAIN effects = DOMAIN effect
  /\ \A x \in DOMAIN effect :
       /\ effects[x].attempt = effect[x].attempt
       /\ effects[x].status \in Uncertain => Doubted(x)
       /\ effects[x].status = "failed" => effect[x].status = "failed"
       /\ EffectOK(x, effects[x])
  /\ work \in WorkType /\ WorkFits(i, work)
  /\ status = "needs_resolution" => work.stage = "search"
  /\ NeedsScope(work) => scopeHolder = i
  /\ scopeHolder = i =>
       /\ ScopeFits(i, work)
       /\ \A x \in DOMAIN effect : effects[x].status \in Uncertain =>
            Recalls(x, effect[x].attempt, i, status, work)

\* The row that is published.
PublishFits(i, status, w) ==
  status = "ready" =>
    IF Jiashu THEN jump = config[i] ELSE w.row \in LinkRows /\ w.row # 0 /\ shelf[w.row] # 0

\* A unit that stores its work leaves the line in order.
LEMMA StoreKeeps ==
  ASSUME LinkInv, LinkTypeOK', NEW t \in Task, NEW i \in Line, i = linkRun[t].line, lineHolder[i] = t,
         UnitOver(t, i),
         NEW status, NEW work, NEW effects, NEW w, NEW rested,
         effect' = effects, scopeHolder' = ScopeAfter(i, status, effects),
         line' = [line EXCEPT ![i] = [status |-> status, live |-> FALSE, work |-> rested]],
         rested = IF status \in Terminal \ {"needs_resolution"} /\ scopeHolder' # i THEN NewWork ELSE work,
         link' = IF status = "ready" THEN Published(i, w) ELSE link,
         lineHolder' = [lineHolder EXCEPT ![i] = None],
         StoreFits(t, i, status, work, effects), PublishFits(i, status, w)
  PROVE  LinkInv'
<1>1. UNCHANGED <<credentials, provider, config, shelf, jump, flying, overwritten, linkFaults>>
  BY DEF UnitOver
<1>2. /\ LinkTypeOK /\ World /\ Effects /\ link \in [Episode -> LinkRows \cup {0}] /\ config[i] \in Episode
      /\ provider \in {"jiashu", "wangyan"} /\ 0 \notin Episode
      /\ i # None /\ i # 0 /\ None \in LinkRows /\ None # 0
  BY LinkStepsOK DEF LinkInv, LinkTypeOK, LinkRows
<1>3. Calm
  BY DEF Calm, StoreFits, Doubted
<1>4. /\ scopeHolder' \in {scopeHolder, None}
      /\ scopeHolder' # scopeHolder => /\ scopeHolder = i /\ status \in Terminal
                                       /\ \A x \in DOMAIN effects : effects[x].status \notin Uncertain
  BY SMTT(90) DEF ScopeAfter
<1>5. /\ \A c \in Episode \ {config[i]} : link'[c] = link[c]
      /\ link'[config[i]] # link[config[i]] => status = "ready"
      /\ status = "ready" => /\ link'[config[i]] # 0
                             /\ shelf[link'[config[i]]] # 0 /\ (Jiashu => jump = config[i])
  <2>1. CASE status # "ready"
    BY SMTT(90), <2>1
  <2>2. CASE status = "ready" /\ Jiashu
    <3>1. link' = [link EXCEPT ![config[i]] = None]
      BY <2>2 DEF Published, Jiashu
    <3>2. jump = config[i] /\ shelf[None] # 0
      BY <1>2, <2>2 DEF PublishFits, World
    <3> QED
      BY <1>2, <2>2, <3>1, <3>2
  <2>3. CASE status = "ready" /\ ~Jiashu
    <3>1. link' = [link EXCEPT ![config[i]] = w.row]
      BY <2>3 DEF Published, Jiashu
    <3> QED
      BY <1>2, <2>3, <3>1 DEF PublishFits
  <2> QED
    BY <2>1, <2>2, <2>3
<1>6. Grown
  <2>1. \A c \in Episode : link[c] # 0 => link'[c] # 0
    BY <1>5
  <2>2. \A x \in DOMAIN effect : effect[x].attempt \in Nat /\ effect'[x].attempt = effect[x].attempt
    BY <1>2, <1>3, LinkTypes DEF EffectRow, Calm
  <2> QED
    BY SMTT(90), <1>1, <1>3, <2>1, <2>2 DEF Grown, Calm
<1>7. \A k \in Line, v \in WorkType : ScopeFits(k, v) => ScopeFits(k, v)'
  BY <1>1 DEF ScopeFits, Jiashu
<1>8. \A k \in Line \ {i} : Steady(k)
  BY SMTT(90), <1>3, <1>4, <1>7, LinkStepsOK DEF Steady
<1>9. /\ line'[i].status = status /\ line'[i].work = rested /\ lineHolder'[i] = None
      /\ \A k \in Line \ {i} : line'[k] = line[k] /\ lineHolder'[k] = lineHolder[k]
  BY DEF LinkInv, LinkTypeOK
<1>10. work \in WorkType /\ WorkFits(i, work)'
  BY <1>6, WorkKeeps DEF StoreFits
<1>11. WorkFits(i, NewWork)'
  BY NewWorkFits DEF WorkFits, WorkStages, WorkRows, WangyanWork, NewWork, ChannelStages,
     Recovering
<1>12. LineOK(i, line[i])'
  <2>1. PICK n : n = line'[i] /\ n.status = status /\ n.work = rested
    BY <1>9
  <2>2. n.status = "ready" => link'[config'[i]] # 0
    BY SMTT(90), <1>1, <1>5, <2>1
  <2>3. CASE status \in Terminal \ {"needs_resolution"} /\ scopeHolder' # i
    BY SMTT(90), <1>11, <2>1, <2>2, <2>3 DEF LineOK
  <2>4. CASE ~(status \in Terminal \ {"needs_resolution"} /\ scopeHolder' # i)
    <3>1. n.work = work
      BY <2>1, <2>4
    <3>2. n.status \notin Terminal /\ NeedsScope(work) => scopeHolder' = i
      BY <1>4, <2>1 DEF StoreFits
    <3>3. ASSUME scopeHolder' = i
          PROVE  /\ ScopeFits(i, work)'
                 /\ (\A x \in DOMAIN effect : Doubted(x) =>
                       Recalls(x, effect[x].attempt, i, status, work))'
      <4>1. scopeHolder = i
        BY <1>2, <1>4, <3>3
      <4>2. ASSUME NEW x \in DOMAIN effect', Doubted(x)'
            PROVE  Recalls(x, effect[x].attempt, i, status, work)'
        <5>1. /\ x \in DOMAIN effect /\ effects[x].status \in Uncertain
              /\ effect'[x].attempt = effect[x].attempt
          BY <1>3, <4>2 DEF Calm, Doubted
        <5>2. PICK a : a = effect[x].attempt
          OBVIOUS
        <5>3. Recalls(x, a, i, status, work)
          BY <4>1, <5>1, <5>2 DEF StoreFits
        <5>4. Recalls(x, a, i, status, work)'
          BY <1>1, <5>3 DEF Recalls, Weakly, Knows, Jiashu
        <5> QED
          BY <5>1, <5>2, <5>4
      <4> QED
        BY <1>7, <1>10, <4>1, <4>2 DEF StoreFits
    <3>4. n.status = "needs_resolution" => n.work.stage = "search"
      BY <2>1, <3>1 DEF StoreFits
    <3>5. WorkFits(i, n.work)'
      BY <1>10, <3>1
    <3> QED
      BY <2>1, <2>2, <3>1, <3>2, <3>3, <3>4, <3>5 DEF LineOK
  <2> QED
    BY <2>3, <2>4
<1>13. \A u \in Task : linkRun'[u] = linkRun[u] \/ (RunOK(linkRun[u])' /\ ~Sends(linkRun[u])')
  BY UnitOverEnds
<1>14. ASSUME NEW k \in Line, lineHolder'[k] # None
       PROVE  /\ Steady(k) /\ lineHolder'[k] = lineHolder[k] /\ line'[k].status = line[k].status
              /\ linkRun'[lineHolder[k]] = linkRun[lineHolder[k]]
  <2>1. k # i /\ lineHolder'[k] = lineHolder[k]
    BY <1>9, <1>14
  <2>2. lineHolder[k] \in Task \ {t}
    BY SMTT(90), <1>14, <2>1, HolderWorks
  <2> QED
    BY <1>8, <1>9, <2>1, <2>2, UnitOverEnds
<1>15. Lines' /\ Runs' /\ Holders'
  BY <1>6, <1>8, <1>9, <1>12, <1>13, <1>14, Progress
<1>16. OneSender' /\ OneFlight' /\ Refused'
  BY <1>1, <1>3, <1>13, SendersKeep DEF StoreFits, Calm
<1>17. Effects'
  <2> SUFFICES ASSUME NEW x \in DOMAIN effect PROVE EffectOK(x, effects[x])'
    BY DEF Effects, StoreFits
  <2>1. PICK n : n = effects[x]
    OBVIOUS
  <2>2. EffectOK(x, n)
    BY <2>1 DEF StoreFits
  <2>3. n.status \in Uncertain => scopeHolder' # None
    BY <1>4, <2>1, <2>2 DEF EffectOK, StoreFits
  <2>4. EffectOK(x, n)'
    BY <1>1, <2>2, <2>3 DEF EffectOK, Jiashu, OneShot, Done
  <2> QED
    BY <2>1, <2>4
<1>18. Flights'
  BY <1>1, <1>6, FlightKeeps DEF LinkInv, Flights
<1>19. World'
  <2>1. \A c \in Episode : link'[c] # 0 => shelf[link'[c]] # 0 /\ (Jiashu => jump = c)
    BY <1>2, <1>5 DEF World
  <2> QED
    BY SMTT(90), <1>1, <1>2, <2>1 DEF World, Jiashu
<1> QED
  BY <1>15, <1>16, <1>17, <1>18, <1>19 DEF LinkInv

\* What the run of a unit that ends knows, if it holds the line.
LEMMA UnitEndKnows ==
  ASSUME LinkInv, NEW t \in Task, linkRun[t].at = "finish", NEW i, i = linkRun[t].line,
         NEW w, w = linkRun[t].work, NEW d, d = linkRun[t].decides, NEW s, s = linkRun[t].status,
         lineHolder[i] = t
  PROVE  /\ i \in Line /\ w \in WorkType /\ OutcomeHeld(i, w, d)
         /\ Outcome(i, s, w, d) /\ s \in Terminal \cup {"pending", "busy", "retryable_error", "result_unknown"}
         /\ line[i].status = "pending" /\ PublishFits(i, s, w) /\ d \in {"none", "succeeded", "confirmed_absent"}
<1>1. PICK r \in RunRow : r = linkRun[t]
  BY LinkTypes DEF LinkInv
<1>2. RunOK(r) /\ r.at = "finish"
  BY <1>1 DEF LinkInv, Runs
<1>3. i \in Line /\ w \in WorkType /\ WorkFits(i, w)
  BY <1>1, <1>2 DEF RunOK, RunRow
<1>4. HolderOK(i, r) /\ line[i].status = "pending"
  <2>1. lineHolder[i] # None
    BY TasksOK
  <2> QED
    BY <1>1, <1>3, <2>1, HolderWorks
<1>5. OutcomeHeld(i, w, d)
  BY <1>1, <1>4 DEF HolderOK, OutcomeHeld
<1>6. Outcome(i, s, w, d)
  BY <1>1, <1>2, <1>3 DEF RunOK, Outcome, KeyOfRun
<1>7. PublishFits(i, s, w)
  BY <1>3, <1>6 DEF PublishFits, Outcome, WorkFits, WorkRows, WorkType
<1> QED
  BY <1>1, <1>3, <1>4, <1>5, <1>6, <1>7 DEF RunRow

\* A recovery has decided about the attempt in doubt.
LEMMA DecidedFits ==
  ASSUME LinkInv, NEW t, NEW i \in Line, NEW w \in WorkType, NEW d \in {"succeeded", "confirmed_absent"},
         NEW s, Outcome(i, s, w, d), OutcomeHeld(i, w, d), NEW status, status = "needs_resolution" => w.stage = "search",
         NEW e, e = KeyOf(provider, config, i, w), Decidable(e, w),
         NEW v, v = [w EXCEPT !.doubt = 0, !.active = FALSE]
  PROVE  StoreFits(t, i, status, v, Decided(e, w, d))
<1>1. /\ v.stage = w.stage /\ v.step = w.step /\ v.page = w.page /\ v.found = w.found /\ v.row = w.row
      /\ v.active = FALSE /\ v.named = w.named /\ v.doubt = 0 /\ v.since = w.since /\ v \in WorkType
  BY DEF WorkType
<1>2. Jiashu /\ w.stage # "recover_create" /\ WorkFits(i, w)
  BY DEF Outcome
<1>3. WorkFits(i, v)
  BY <1>1, <1>2 DEF WorkFits, WorkStages, WorkRows
<1>4. NeedsScope(v) => scopeHolder = i
  BY <1>1 DEF NeedsScope, OutcomeHeld
<1>5. PICK effects : effects = Decided(e, w, d)
  OBVIOUS
<1>6. DOMAIN effects = DOMAIN effect /\ \A x \in DOMAIN effect \ {e} : effects[x] = effect[x]
  BY <1>5 DEF Decided
<1>7. ASSUME NEW x \in DOMAIN effect
      PROVE  /\ effects[x].attempt = effect[x].attempt
             /\ effects[x].status \in Uncertain => Doubted(x) /\ x # e
             /\ effects[x].status = "failed" => effect[x].status = "failed"
             /\ EffectOK(x, effects[x])
  <2>1. CASE x # e
    BY <1>6, <2>1 DEF LinkInv, Effects, Doubted
  <2>2. CASE x = e
    <3>1. PICK old \in EffectRow : old = effect[e] /\ EffectOK(e, old)
      BY <2>2, LinkTypes DEF LinkInv, Effects
    <3>2. PICK row : row = [old EXCEPT !.status = d, !.since = w.since]
      OBVIOUS
    <3>3. effects[e] = row
      BY <1>5, <2>2, <3>1, <3>2 DEF Decided
    <3>4. row.status = d /\ row.since = w.since /\ row.attempt = old.attempt /\ row.row = old.row
      BY <3>1, <3>2 DEF EffectRow
    <3>5. old.attempt = w.doubt /\ old.status \in Uncertain
      BY <3>1 DEF Decidable
    <3>6. d = "succeeded" => Done(e)
      BY DEF Outcome
    <3>7. d = "confirmed_absent" => ~OneShot(e) /\ row.since = row.attempt
      <4>1. d = "confirmed_absent" => w.step = "create" /\ w.since = w.doubt
        BY DEF Outcome
      <4>2. e.step = w.step /\ provider # "wangyan"
        BY <1>2 DEF KeyOf, Jiashu
      <4> QED
        BY <3>4, <3>5, <4>1, <4>2 DEF OneShot
    <3>8. row.status \notin Uncertain /\ row.status # "failed"
      BY <3>4 DEF Uncertain
    <3>9. EffectOK(e, row)
      BY <3>1, <3>4, <3>6, <3>7, <3>8 DEF EffectOK
    <3> QED
      BY <2>2, <3>1, <3>3, <3>4, <3>8, <3>9
  <2> QED
    BY <2>1, <2>2
<1>8. ASSUME scopeHolder = i
      PROVE  ScopeFits(i, v) /\ \A x \in DOMAIN effect : effects[x].status \notin Uncertain
  <2>1. ScopeFits(i, v)
    BY <1>1, <1>8 DEF OutcomeHeld, ScopeFits
  <2>2. \A x \in DOMAIN effect : Doubted(x) => x = e
    BY <1>8 DEF OutcomeHeld, Weakly
  <2> QED
    BY <1>7, <2>1, <2>2
<1>9. status = "needs_resolution" => v.stage = "search"
  BY <1>1
<1>10. StoreFits(t, i, status, v, effects)
  BY <1>1, <1>3, <1>4, <1>6, <1>7, <1>8, <1>9 DEF StoreFits
<1> QED
  BY <1>5, <1>10

\* What a unit that ends stores, if it holds the line.
UnitStores(i, w, s, d, e, status, work, effects) ==
  /\ effect' = effects /\ scopeHolder' = ScopeAfter(i, status, effects)
  /\ line' = [line EXCEPT ![i] = [status |-> status, live |-> FALSE, work |->
       IF status \in Terminal \ {"needs_resolution"} /\ scopeHolder' # i THEN NewWork ELSE work]]
  /\ link' = IF status = "ready" THEN Published(i, w) ELSE link
  /\ lineHolder' = [lineHolder EXCEPT ![i] = None]
  /\ \/ /\ d # "none" /\ status = "result_unknown" /\ effects = effect
        /\ work = Inconclusive(line[i].work, d)
     \/ /\ d = "none" \/ Decidable(e, w)
        /\ status = "blocked_auth" /\ work = Decisive(w, d) /\ effects = effect
     \/ /\ d = "none" /\ work = w /\ effects = effect
        /\ status = IF s = "busy" THEN "pending" ELSE s
     \/ /\ d # "none" /\ Decidable(e, w) /\ status = IF s = "busy" THEN "pending" ELSE s
        /\ work = [w EXCEPT !.doubt = 0, !.active = FALSE] /\ effects = Decided(e, w, d)

\* What FinishUnit stores, in one predicate.
LEMMA FinishUnitStores ==
  ASSUME NEW t, FinishUnit(t), NEW i, i = linkRun[t].line, NEW w, w = linkRun[t].work,
         NEW s, s = linkRun[t].status, NEW d, d = linkRun[t].decides, NEW e, e = EffectOf(i, w),
         lineHolder[i] = t
  PROVE  \E status, work, effects : UnitStores(i, w, s, d, e, status, work, effects)
<1>1. CASE d # "none" /\ ~Decidable(e, w)
  <2>1. UnitStores(i, w, s, d, e, "result_unknown", Inconclusive(line[i].work, d), effect)
    BY <1>1, Zenon DEF FinishUnit, UnitStores
  <2> QED
    BY <2>1
<1>2. CASE (d = "none" \/ Decidable(e, w)) /\ s \in {"pending", "needs_resolution", "ready"} /\ ~Authorized(w)
  <2>1. UnitStores(i, w, s, d, e, "blocked_auth", Decisive(w, d), effect)
    BY <1>2, Zenon DEF FinishUnit, UnitStores
  <2> QED
    BY <2>1
<1>3. CASE d = "none" /\ ~(s \in {"pending", "needs_resolution", "ready"} /\ ~Authorized(w))
  <2>1. UnitStores(i, w, s, d, e, IF s = "busy" THEN "pending" ELSE s, w, effect)
    BY <1>3, Zenon DEF FinishUnit, UnitStores, Decisive
  <2> QED
    BY <2>1
<1>4. CASE d # "none" /\ Decidable(e, w) /\ ~(s \in {"pending", "needs_resolution", "ready"} /\ ~Authorized(w))
  <2>1. UnitStores(i, w, s, d, e, IF s = "busy" THEN "pending" ELSE s,
                   [w EXCEPT !.doubt = 0, !.active = FALSE], Decided(e, w, d))
    BY ZenonT(90), <1>4, Zenon DEF FinishUnit, UnitStores, Decisive
  <2> QED
    BY <2>1
<1> QED
  BY <1>1, <1>2, <1>3, <1>4

\* What a recovery that may not decide makes of the work.
LEMMA LookAgain ==
  ASSUME NEW w \in WorkType, NEW d, NEW v, v = Inconclusive(w, d)
  PROVE  /\ v \in WorkType
         /\ \/ v = w
            \/ /\ w.stage = "recover_create"
               /\ v.stage = w.stage /\ v.step = w.step /\ v.row = w.row /\ v.active = w.active
               /\ v.named = w.named /\ v.doubt = w.doubt /\ v.since = w.since
               /\ v.version = w.version /\ v.page = 1
               /\ v.found = IF d = "succeeded" THEN {None} ELSE {}
<1>1. PICK f : f = IF d = "succeeded" THEN {None} ELSE {}
  OBVIOUS
<1>2. w.stage # "recover_create" => v = w
  BY DEF Inconclusive
<1>3. ASSUME w.stage = "recover_create"
      PROVE  /\ v \in WorkType
             /\ v.stage = w.stage /\ v.step = w.step /\ v.row = w.row /\ v.active = w.active
             /\ v.named = w.named /\ v.doubt = w.doubt /\ v.since = w.since
             /\ v.version = w.version /\ v.page = 1 /\ v.found = f
  <2>1. v = [w EXCEPT !.page = 1, !.found = f]
    BY <1>1, <1>3 DEF Inconclusive
  <2>2. f \in SUBSET LinkRows
    <3>1. None \in LinkRows
      BY DEF LinkRows
    <3> QED
      BY <1>1, <3>1
  <2>3. 1 \in 1 .. 2
    OBVIOUS
  <2> QED
    BY ZenonT(90), <2>1, <2>2, <2>3 DEF WorkType
<1> QED
  BY <1>1, <1>2, <1>3

\* A recovery that may not decide leaves the line to look again.
LEMMA InconclusiveFits ==
  ASSUME LinkInv, NEW t, NEW i \in Line, line[i].status = "pending", Jiashu,
         NEW d \in {"succeeded", "confirmed_absent"}, d = "succeeded" => shelf[None] # 0
  PROVE  StoreFits(t, i, "result_unknown", Inconclusive(line[i].work, d), effect)
<1>1. LineOK(i, line[i]) /\ line[i].work \in WorkType /\ Effects
  BY LinkTypes DEF LinkInv, Lines, LineRow
<1>2. PICK w \in WorkType : w = line[i].work
  BY <1>1
<1>3. PICK v : v = Inconclusive(w, d)
  OBVIOUS
<1>4. /\ v \in WorkType /\ v.stage = w.stage /\ v.step = w.step /\ v.row = w.row /\ v.active = w.active
      /\ v.named = w.named /\ v.doubt = w.doubt /\ v.since = w.since /\ v.version = w.version
      /\ v = w \/ (w.stage = "recover_create" /\ v.page = 1
                   /\ v.found = IF d = "succeeded" THEN {None} ELSE {})
  <2>1. \/ v = w
        \/ /\ w.stage = "recover_create"
           /\ v.stage = w.stage /\ v.step = w.step /\ v.row = w.row /\ v.active = w.active
           /\ v.named = w.named /\ v.doubt = w.doubt /\ v.since = w.since
           /\ v.version = w.version /\ v.page = 1
           /\ v.found = IF d = "succeeded" THEN {None} ELSE {}
    BY <1>3, LookAgain
  <2>2. v \in WorkType
    BY <1>3, LookAgain
  <2> QED
    BY <2>1, <2>2
<1>5. WorkFits(i, w) /\ "pending" \notin Terminal /\ "result_unknown" \notin Terminal
      /\ "result_unknown" # "needs_resolution"
  BY <1>1, <1>2 DEF LineOK, Terminal
<1>6. WorkFits(i, v)
  BY <1>4, <1>5 DEF WorkFits, WorkStages, WorkRows
<1>7. NeedsScope(v) => scopeHolder = i
  BY <1>1, <1>2, <1>4, <1>5 DEF LineOK, NeedsScope
<1>8. ASSUME scopeHolder = i
      PROVE  /\ ScopeFits(i, v)
             /\ \A x \in DOMAIN effect : Doubted(x) => Recalls(x, effect[x].attempt, i, "result_unknown", v)
  <2>1. ScopeFits(i, w) /\ \A x \in DOMAIN effect : Doubted(x) => Knows(x, effect[x].attempt, i, w)
    BY <1>1, <1>2, <1>5, <1>8 DEF LineOK, Recalls
  <2>2. \A x \in DOMAIN effect : Doubted(x) => Knows(x, effect[x].attempt, i, v)
    BY <1>4, <2>1 DEF Knows, KeyOf
  <2> QED
    BY <1>4, <2>1, <2>2 DEF ScopeFits, Recalls, Knows, Weakly
<1>9. StoreFits(t, i, "result_unknown", v, effect)
  BY <1>1, <1>4, <1>5, <1>6, <1>7, <1>8 DEF StoreFits, Effects, Doubted
<1> QED
  BY <1>2, <1>3, <1>9

\* A line that has lost its credentials keeps the scope for a write in doubt, be it that the
\* recovery has taken the attempt out of its work.
LEMMA BlockedFits ==
  ASSUME LinkInv, NEW t, NEW i \in Line, NEW w \in WorkType, NEW d \in {"none", "succeeded", "confirmed_absent"},
         NEW s, Outcome(i, s, w, d), OutcomeHeld(i, w, d)
  PROVE  StoreFits(t, i, "blocked_auth", Decisive(w, d), effect)
<1>1. PICK v : v = Decisive(w, d)
  OBVIOUS
<1>2. /\ v \in WorkType /\ v.stage = w.stage /\ v.step = w.step /\ v.page = w.page /\ v.found = w.found
      /\ v.row = w.row /\ v.named = w.named /\ v.since = w.since /\ v.version = w.version
      /\ v = w \/ (d # "none" /\ v.doubt = 0 /\ ~v.active)
  BY ZenonT(90), <1>1 DEF Decisive, WorkType
<1>3. WorkFits(i, w) /\ (d # "none" => Jiashu /\ w.stage # "recover_create")
  BY DEF Outcome
<1>4. WorkFits(i, v)
  BY <1>2, <1>3 DEF WorkFits, WorkStages, WorkRows
<1>5. NeedsScope(v) => scopeHolder = i
  BY <1>2 DEF NeedsScope, OutcomeHeld
<1>6. ASSUME scopeHolder = i
      PROVE  /\ ScopeFits(i, v)
             /\ \A x \in DOMAIN effect : Doubted(x) => Recalls(x, effect[x].attempt, i, "blocked_auth", v)
  <2>1. ScopeFits(i, w) /\ \A x \in DOMAIN effect : Doubted(x) => Weakly(x, effect[x].attempt, i, w)
    BY <1>6 DEF OutcomeHeld, Knows, Weakly
  <2>2. \A x \in DOMAIN effect : Doubted(x) => KeyOf(provider, config, i, v) = x
    BY <1>2, <2>1 DEF Weakly, KeyOf
  <2> QED
    BY <1>2, <2>1, <2>2 DEF ScopeFits, Recalls, Terminal
<1>7. Effects
  BY DEF LinkInv
<1>8. StoreFits(t, i, "blocked_auth", v, effect)
  BY <1>2, <1>4, <1>5, <1>6, <1>7 DEF StoreFits, Effects, Doubted
<1> QED
  BY <1>1, <1>8

\* The end of a unit: the scope, the row and the link together.
LEMMA FinishUnitKeeps == ASSUME LinkInv, LinkTypeOK', NEW t \in Task, FinishUnit(t) PROVE LinkInv'
<1>1. PICK i, w, s, d : i = linkRun[t].line /\ w = linkRun[t].work /\ s = linkRun[t].status
                        /\ d = linkRun[t].decides
  OBVIOUS
<1>2. PICK e : e = EffectOf(i, w)
  OBVIOUS
<1>3. linkRun[t].at = "finish" /\ UnitOver(t, i)
  BY <1>1 DEF FinishUnit, UnitOver
<1>4. i \in Line
  BY <1>1, <1>3 DEF LinkInv, Runs, RunOK
<1>5. CASE lineHolder[i] # t
  <2>1. UNCHANGED <<line, lineHolder, scopeHolder, effect, link>>
    BY <1>1, <1>5 DEF FinishUnit
  <2>2. Grown /\ (\A k \in Line : Steady(k)) /\ Effects' /\ Flights' /\ World'
    <3>1. Still /\ credentials' <= linkFaults' /\ flying' \subseteq flying
      BY <1>3, <2>1 DEF UnitOver, Still, LinkInv, World
    <3> QED
      BY <3>1, StillKeeps
  <2>3. \A u \in Task : linkRun'[u] = linkRun[u] \/ (RunOK(linkRun[u])' /\ ~Sends(linkRun[u])')
    BY <1>3, <1>4, UnitOverEnds
  <2>4. \A k \in Line : lineHolder[k] # None => linkRun'[lineHolder[k]] = linkRun[lineHolder[k]]
    BY <1>1, <1>3, <1>4, <1>5, HolderWorks, UnitOverEnds
  <2>5. Lines' /\ Runs' /\ Holders'
    BY <2>1, <2>2, <2>3, <2>4, Progress
  <2>6. OneSender' /\ OneFlight' /\ Refused'
    BY SMTT(90), <1>3, <2>1, <2>3, SendersKeep DEF UnitOver
  <2> QED
    BY <2>2, <2>5, <2>6 DEF LinkInv
<1>6. ASSUME lineHolder[i] = t, NEW status, NEW work, NEW effects,
             UnitStores(i, w, s, d, e, status, work, effects)
      PROVE  LinkInv'
  <2>1. /\ w \in WorkType /\ OutcomeHeld(i, w, d)
        /\ Outcome(i, s, w, d) /\ s \in Terminal \cup {"pending", "busy", "retryable_error", "result_unknown"}
        /\ line[i].status = "pending" /\ PublishFits(i, s, w) /\ d \in {"none", "succeeded", "confirmed_absent"}
    BY <1>1, <1>3, <1>6, UnitEndKnows
  <2>2. e = KeyOf(provider, config, i, w)
    BY <1>2, KeyOfEffect
  <2>3. PublishFits(i, status, w)
    BY <1>6, <2>1 DEF PublishFits, UnitStores
  <2>4. WorkFits(i, w) /\ (s = "needs_resolution" => w.stage = "search")
    BY <2>1 DEF Outcome
  <2>5. Effects
    BY DEF LinkInv
  <2>6. StoreFits(t, i, status, work, effects)
    <3>1. CASE /\ d # "none" /\ status = "result_unknown" /\ effects = effect
               /\ work = Inconclusive(line[i].work, d)
      <4>1. Jiashu /\ d \in {"succeeded", "confirmed_absent"} /\ (d = "succeeded" => shelf[None] # 0)
        BY <2>1, <3>1 DEF Outcome
      <4> QED
        BY <1>4, <2>1, <3>1, <4>1, InconclusiveFits
    <3>2. CASE /\ d = "none" \/ Decidable(e, w)
               /\ status = "blocked_auth" /\ work = Decisive(w, d) /\ effects = effect
      BY <1>4, <2>1, <3>2, BlockedFits
    <3>3. CASE /\ d = "none" /\ work = w /\ effects = effect
               /\ status = IF s = "busy" THEN "pending" ELSE s
      <4>1. scopeHolder = i => \A x \in DOMAIN effect : Doubted(x) =>
              Knows(x, effect[x].attempt, i, w) /\ Weakly(x, effect[x].attempt, i, w)
        BY SMTT(90), <2>1, <3>3 DEF OutcomeHeld, Knows, Weakly
      <4> QED
        BY <2>1, <2>4, <2>5, <3>3, <4>1 DEF StoreFits, OutcomeHeld, Effects, Doubted, Recalls, Weakly
    <3>4. CASE /\ d # "none" /\ Decidable(e, w) /\ status = IF s = "busy" THEN "pending" ELSE s
               /\ work = [w EXCEPT !.doubt = 0, !.active = FALSE] /\ effects = Decided(e, w, d)
      <4>1. status = "needs_resolution" => w.stage = "search"
        BY <2>4, <3>4
      <4> QED
        BY <1>4, <2>1, <2>2, <3>4, <4>1, DecidedFits
    <3> QED
      BY <1>6, <3>1, <3>2, <3>3, <3>4 DEF UnitStores
  <2>7. PICK rested : rested = IF status \in Terminal \ {"needs_resolution"} /\ scopeHolder' # i
                               THEN NewWork ELSE work
    OBVIOUS
  <2>8. /\ effect' = effects /\ scopeHolder' = ScopeAfter(i, status, effects)
        /\ line' = [line EXCEPT ![i] = [status |-> status, live |-> FALSE, work |-> rested]]
        /\ link' = IF status = "ready" THEN Published(i, w) ELSE link
        /\ lineHolder' = [lineHolder EXCEPT ![i] = None]
    BY <1>6, <2>7 DEF UnitStores
  <2> QED
    BY <1>1, <1>3, <1>4, <1>6, <2>3, <2>6, <2>7, <2>8, StoreKeeps
<1> QED
  <2>1. CASE lineHolder[i] = t
    BY <1>1, <1>2, <1>6, <2>1, FinishUnitStores
  <2> QED
    BY <1>5, <2>1

-----------------------------------------------------------------------------
(* Types.                                                                  *)

\* The parts of the type invariant, now ...
LEMMA TypeParts ==
  ASSUME LinkTypeOK
  PROVE  /\ line \in [Line -> LineRow] /\ linkRun \in [Task -> RunRow]
         /\ lineHolder \in [Line -> Task \cup {None}] /\ lineRunner \in [Line -> Task \cup {None}]
         /\ lineMessage \in [Line -> {"none", "due", "watchdog"}]
         /\ scopeHolder \in Line \cup {None} /\ link \in [Episode -> LinkRows \cup {0}]
         /\ \A e \in DOMAIN effect : e \in EffectKey /\ effect[e] \in EffectRow
         /\ credentials \in Version /\ config \in [Line -> Episode]
         /\ shelf \in [LinkRows -> 0 .. 2] /\ jump \in Episode \cup {0}
         /\ flying \subseteq EffectKey \X Line /\ overwritten \in BOOLEAN
         /\ linkFaults \in 0 .. MaxCrashes /\ linkFaults \in Nat
  BY LinkTypes DEF LinkTypeOK

\* ... and after a step.
LEMMA TypesMeet ==
  ASSUME LinkTypeOK, UNCHANGED <<provider, config>>,
         line' \in [Line -> LineRow], linkRun' \in [Task -> RunRow],
         lineHolder' \in [Line -> Task \cup {None}], lineRunner' \in [Line -> Task \cup {None}],
         lineMessage' \in [Line -> {"none", "due", "watchdog"}],
         scopeHolder' \in Line \cup {None}, link' \in [Episode -> LinkRows \cup {0}],
         \A e \in DOMAIN effect' : e \in EffectKey /\ effect'[e] \in EffectRow,
         credentials' \in Version, shelf' \in [LinkRows -> 0 .. 2], jump' \in Episode \cup {0},
         flying' \subseteq EffectKey \X Line, overwritten' \in BOOLEAN, linkFaults' \in 0 .. MaxCrashes
  PROVE  LinkTypeOK'
  BY DEF LinkTypeOK, LineRow, RunRow, EffectRow

\* A fault is counted up to its bound.
LEMMA FaultTypes ==
  ASSUME LinkTypeOK, linkFaults' = linkFaults \/ (linkFaults < MaxCrashes /\ linkFaults' = linkFaults + 1)
  PROVE  linkFaults' \in 0 .. MaxCrashes
  BY TasksOK DEF LinkTypeOK

\* A run with another status or work.
LEMMA RunTypes ==
  ASSUME LinkTypeOK, linkRun' \in [Task -> RunRow], linkFaults' \in 0 .. MaxCrashes,
         UNCHANGED <<line, lineHolder, lineRunner, lineMessage, scopeHolder, effect, link, credentials,
                     provider, config, shelf, jump, flying, overwritten>>
  PROVE  LinkTypeOK'
  BY TypeParts, TypesMeet

\* A run that goes on to finish.
LEMMA ToFinishTypes ==
  ASSUME LinkTypeOK, NEW t \in Task, NEW w \in WorkType, NEW d \in {"none", "succeeded", "confirmed_absent"},
         NEW s \in Terminal \cup {"pending", "busy", "retryable_error", "result_unknown"}, ToFinish(t, s, w, d)
  PROVE  linkRun' \in [Task -> RunRow]
<1>1. PICK r : r = [linkRun[t] EXCEPT !.at = "finish", !.status = s, !.work = w, !.decides = d]
  OBVIOUS
<1>2. linkRun \in [Task -> RunRow]
  BY TypeParts
<1>3. r \in RunRow
  BY ZenonT(90), <1>1, <1>2 DEF RunRow
<1>4. linkRun' = [linkRun EXCEPT ![t] = r]
  BY <1>1, <1>2 DEF ToFinish
<1> QED
  BY <1>2, <1>3, <1>4

\* New work and an idle task.
LEMMA NewWorkType == NewWork \in WorkType /\ NoLinkRun \in RunRow
  BY DEF NewWork, NoLinkRun, WorkType, RunRow, Writes, LinkRows, Terminal

LEMMA DeliveryTypes ==
  ASSUME LinkTypeOK, NEW i \in Line,
         \/ PrepareLine(i) \/ SelectCandidate(i) \/ RepairLine(i) \/ LineClaimLapses(i)
         \/ WatchdogDue(i) \/ LinkStalls(i)
  PROVE  LinkTypeOK'
<1>1. /\ UNCHANGED <<scopeHolder, effect, link, credentials, linkRun, provider, config, shelf, jump, flying,
                     overwritten>>
      /\ linkFaults' = linkFaults \/ (linkFaults < MaxCrashes /\ linkFaults' = linkFaults + 1)
  BY DEF PrepareLine, SelectCandidate, RepairLine, LineClaimLapses, WatchdogDue, LinkStalls
<1>2. /\ lineHolder' \in [Line -> Task \cup {None}] /\ lineRunner' \in [Line -> Task \cup {None}]
      /\ lineMessage' \in [Line -> {"none", "due", "watchdog"}]
  <2>1. /\ lineHolder' = lineHolder \/ lineHolder' = [lineHolder EXCEPT ![i] = None]
        /\ lineRunner' = lineRunner \/ lineRunner' = [lineRunner EXCEPT ![i] = None]
        /\ lineMessage' = lineMessage \/ lineMessage' = [lineMessage EXCEPT ![i] = "due"]
    BY DEF PrepareLine, SelectCandidate, RepairLine, LineClaimLapses, WatchdogDue,
       LinkStalls
  <2> QED
    BY <2>1, TypeParts
<1>3. line' \in [Line -> LineRow]
  <2>1. PICK r \in LineRow : r = line[i]
    BY TypeParts
  <2>2. /\ [r EXCEPT !.status = "pending"] \in LineRow /\ [r EXCEPT !.live = FALSE] \in LineRow
        /\ [r EXCEPT !.status = "pending", !.live = FALSE, !.work.stage = "lookup"] \in LineRow
    BY ZenonT(90) DEF LineRow, WorkType
  <2>3. \/ line' = line \/ line' = [line EXCEPT ![i].status = "pending"] \/ line' = [line EXCEPT ![i].live = FALSE]
        \/ line' = [line EXCEPT ![i].status = "pending", ![i].live = FALSE, ![i].work.stage = "lookup"]
    BY DEF PrepareLine, SelectCandidate, RepairLine, LineClaimLapses, WatchdogDue,
       LinkStalls
  <2>4. PICK n \in LineRow : line' = line \/ line' = [line EXCEPT ![i] = n]
    BY ZenonT(90), <2>1, <2>2, <2>3, TypeParts
  <2> QED
    BY <2>4, TypeParts
<1> QED
  BY <1>1, <1>2, <1>3, FaultTypes, TypeParts, TypesMeet

LEMMA TakeLineTypes == ASSUME LinkTypeOK, NEW i \in Line, NEW t \in Task, TakeLine(t, i) PROVE LinkTypeOK'
<1>1. /\ lineRunner' \in [Line -> Task \cup {None}]
      /\ lineMessage' \in [Line -> {"none", "due", "watchdog"}]
  BY TypeParts DEF TakeLine
<1>2. linkRun' \in [Task -> RunRow]
  <2>1. PICK r \in RunRow : r = linkRun[t]
    BY TypeParts
  <2>2. [r EXCEPT !.at = "queued", !.line = i] \in RunRow
    BY DEF RunRow
  <2>3. linkRun' = linkRun \/ linkRun' = [linkRun EXCEPT ![t] = [r EXCEPT !.at = "queued", !.line = i]]
    BY <2>1, TypeParts DEF TakeLine
  <2> QED
    BY <2>2, <2>3, TypeParts
<1>3. UNCHANGED <<line, lineHolder, scopeHolder, effect, link, credentials, provider, config, shelf, jump,
                  flying, overwritten, linkFaults>>
  BY DEF TakeLine
<1> QED
  BY <1>1, <1>2, <1>3, TypeParts, TypesMeet

LEMMA RunEndsTypes ==
  ASSUME LinkTypeOK, NEW t \in Task, EndDelivery(t) \/ KillLink(t) PROVE LinkTypeOK'
<1>1. linkRun' \in [Task -> RunRow]
  BY TypeParts, NewWorkType DEF EndDelivery, KillLink, LinkRunEnds
<1>2. lineRunner' \in [Line -> Task \cup {None}] /\ lineHolder' \in [Line -> Task \cup {None}]
  BY TypeParts DEF EndDelivery, KillLink, LinkRunEnds, Forget
<1>3. lineMessage' \in [Line -> {"none", "due", "watchdog"}]
  <2>1. lineMessage' = lineMessage \/ \E i : lineMessage' = [lineMessage EXCEPT ![i] = "due"]
    BY Zenon DEF EndDelivery, KillLink
  <2> QED
    BY <2>1, TypeParts
<1>4. /\ UNCHANGED <<line, scopeHolder, effect, link, credentials, provider, config, shelf, jump, flying,
                     overwritten>>
      /\ linkFaults' = linkFaults \/ (linkFaults < MaxCrashes /\ linkFaults' = linkFaults + 1)
  BY DEF EndDelivery, KillLink
<1> QED
  BY <1>1, <1>2, <1>3, <1>4, FaultTypes, TypeParts, TypesMeet

LEMMA ClaimLineTypes == ASSUME LinkInv, NEW t \in Task, ClaimLine(t) PROVE LinkTypeOK'
<1>1. PICK r \in RunRow : r = linkRun[t] /\ RunOK(r) /\ r.at = "queued"
  BY TypeParts DEF LinkInv, Runs, ClaimLine
<1>2. PICK i \in Line : i = linkRun[t].line
  BY <1>1 DEF RunOK
<1>3. PICK old \in WorkType : old = line[i].work
  BY TypeParts DEF LinkInv, LineRow
<1>4. PICK w : w = IF old.version = None THEN [old EXCEPT !.version = credentials] ELSE old
  OBVIOUS
<1>5. w \in WorkType /\ LinkTypeOK
  BY <1>4, TypeParts DEF WorkType, LinkInv
<1>6. /\ line' = line \/ line' = [line EXCEPT ![i] = [status |-> "pending", live |-> TRUE, work |-> w]]
      /\ lineHolder' = lineHolder \/ lineHolder' = [lineHolder EXCEPT ![i] = t]
      /\ scopeHolder' \in {scopeHolder, i}
      /\ \E at \in {"finished", "finish", "working"}, s \in {r.status, "blocked_auth", "ready", "pending", "busy"},
            v \in {r.work, w} :
           linkRun' = [linkRun EXCEPT ![t] = [r EXCEPT !.at = at, !.status = s, !.work = v]]
  <2>1. linkRun \in [Task -> RunRow]
    BY <1>5, TypeParts
  <2>2. CASE linkRun' = [linkRun EXCEPT ![t].at = "finished"] /\ UNCHANGED <<line, lineHolder, scopeHolder>>
    <3>1. linkRun' = [linkRun EXCEPT ![t] = [r EXCEPT !.at = "finished", !.status = r.status, !.work = r.work]]
      BY <1>1, <2>1, <2>2 DEF RunRow
    <3> QED
      BY <2>2, <3>1
  <2>3. CASE /\ line' = [line EXCEPT ![i] = [status |-> "pending", live |-> TRUE, work |-> w]]
             /\ lineHolder' = [lineHolder EXCEPT ![i] = t]
             /\ scopeHolder' \in {scopeHolder, i}
             /\ \E at \in {"finish", "working"}, s \in {"blocked_auth", "ready", "pending", "busy"} :
                  linkRun' = [linkRun EXCEPT ![t].at = at, ![t].status = s, ![t].work = w]
    <3>1. PICK at \in {"finish", "working"}, s \in {"blocked_auth", "ready", "pending", "busy"} :
            linkRun' = [linkRun EXCEPT ![t].at = at, ![t].status = s, ![t].work = w]
      BY <2>3
    <3>2. linkRun' = [linkRun EXCEPT ![t] = [r EXCEPT !.at = at, !.status = s, !.work = w]]
      BY <1>1, <2>1, <3>1
    <3> QED
      BY ZenonT(90), <2>3, <3>2
  <2> QED
    BY <1>2, <1>3, <1>4, <2>2, <2>3, ZenonT(90) DEF ClaimLine
<1>7. line' \in [Line -> LineRow]
  <2>1. [status |-> "pending", live |-> TRUE, work |-> w] \in LineRow
    BY <1>5 DEF LineRow
  <2> QED
    BY <1>5, <1>6, <2>1, TypeParts
<1>8. linkRun' \in [Task -> RunRow]
  <2>1. \A at \in {"finished", "finish", "working"}, s \in {r.status, "blocked_auth", "ready", "pending", "busy"},
           v \in {r.work, w} : [r EXCEPT !.at = at, !.status = s, !.work = v] \in RunRow
    <3>1. {r.status, "blocked_auth", "ready", "pending", "busy"} \subseteq
             Terminal \cup {"pending", "busy", "retryable_error", "result_unknown"}
      BY DEF RunRow, Terminal
    <3>2. {r.work, w} \subseteq WorkType
      BY <1>5 DEF RunRow
    <3> QED
      BY ZenonT(90), <3>1, <3>2, RunWith
  <2>2. PICK n \in RunRow : linkRun' = [linkRun EXCEPT ![t] = n]
    BY ZenonT(90), <1>6, <2>1
  <2> QED
    BY SMTT(90), <1>5, <2>2, TypeParts
<1>9. UNCHANGED <<lineRunner, lineMessage, effect, link, credentials, provider, config, shelf, jump, flying,
                  overwritten, linkFaults>>
  BY ZenonT(90) DEF ClaimLine
<1> QED
  BY SMTT(90), <1>5, <1>6, <1>7, <1>8, <1>9, TypeParts, TypesMeet

\* The reads of a unit: what a run finds is of its type.
LEMMA WorkingTypes ==
  ASSUME LinkInv, NEW t \in Task, linkRun[t].at \in {"working", "armed", "posted", "looked"},
         NEW i, i = linkRun[t].line, NEW w, w = linkRun[t].work, NEW e, e = EffectOf(i, w)
  PROVE  /\ LinkTypeOK /\ i \in Line /\ w \in WorkType /\ WorkFits(i, w)
         /\ e = KeyOf(provider, config, i, w)
         /\ w.named /\ ~Jiashu /\ w.stage \in {"recover_create", "verify"} =>
              e \in DOMAIN effect /\ effect[e] \in EffectRow
<1>1. i \in Line /\ w \in WorkType /\ WorkFits(i, w)
  BY RunAtWork
<1>2. e = KeyOf(provider, config, i, w)
  BY KeyOfEffect
<1>3. LinkTypeOK /\ \A x \in DOMAIN effect : effect[x] \in EffectRow
  BY TypeParts DEF LinkInv
<1>4. w.named /\ ~Jiashu /\ w.stage \in {"recover_create", "verify"} => e \in DOMAIN effect
  BY <1>1, <1>2 DEF WorkFits, WangyanWork
<1> QED
  BY <1>1, <1>2, <1>3, <1>4

LEMMA SearchTypes == ASSUME LinkInv, NEW t \in Task, Search(t) PROVE LinkTypeOK'
<1>1. PICK i, w : i = linkRun[t].line /\ w = linkRun[t].work
  OBVIOUS
<1>2. LinkTypeOK /\ w \in WorkType /\ [w EXCEPT !.stage = "lookup"] \in WorkType
  BY <1>1, WorkingTypes DEF Search, WorkType
<1>3. PICK s \in {"pending", "needs_resolution"}, v \in WorkType : ToFinish(t, s, v, "none")
  BY <1>1, <1>2 DEF Search
<1>4. linkRun' \in [Task -> RunRow]
  BY <1>2, <1>3, ToFinishTypes DEF Terminal
<1> QED
  BY <1>2, <1>4, RunTypes, TypeParts DEF Search, OnlyRun, OnlyRunAndRemote

LEMMA ReadFailsTypes == ASSUME LinkInv, NEW t \in Task, ReadFails(t) PROVE LinkTypeOK'
<1>1. PICK i, w : i = linkRun[t].line /\ w = linkRun[t].work
  OBVIOUS
<1>2. LinkTypeOK /\ w \in WorkType
  BY <1>1, WorkingTypes DEF ReadFails
<1>3. PICK s \in {"blocked_auth", "result_unknown", "retryable_error", "failed"} :
        ToFinish(t, s, w, "none")
  BY <1>1 DEF ReadFails
<1>4. linkRun' \in [Task -> RunRow]
  BY <1>2, <1>3, ToFinishTypes DEF Terminal
<1>5. linkFaults' \in 0 .. MaxCrashes
  BY <1>2, FaultTypes DEF ReadFails
<1> QED
  BY <1>2, <1>4, <1>5, RunTypes DEF ReadFails, OnlyRun, OnlyRunAndRemote

LEMMA ReadLinkTypes == ASSUME LinkInv, NEW t \in Task, ReadLink(t) PROVE LinkTypeOK'
<1>1. PICK i, w : i = linkRun[t].line /\ w = linkRun[t].work
  OBVIOUS
<1>2. /\ LinkTypeOK /\ w \in WorkType
      /\ [w EXCEPT !.row = None] \in WorkType /\ [w EXCEPT !.stage = "generate"] \in WorkType
  BY <1>1, WorkingTypes DEF ReadLink, WorkType, LinkRows
<1>3. PICK s \in {"ready", "config_conflict", "pending", "result_unknown"}, v \in WorkType, d \in {"none", "succeeded"} :
        ToFinish(t, s, v, d)
  BY <1>1, <1>2 DEF ReadLink
<1>4. linkRun' \in [Task -> RunRow]
  BY <1>2, <1>3, ToFinishTypes DEF Terminal
<1> QED
  BY <1>2, <1>4, RunTypes, TypeParts DEF ReadLink, OnlyRun, OnlyRunAndRemote

LEMMA VerifyRowTypes == ASSUME LinkInv, NEW t \in Task, VerifyRow(t) PROVE LinkTypeOK'
<1>1. PICK i, w : i = linkRun[t].line /\ w = linkRun[t].work
  OBVIOUS
<1>2. PICK e : e = EffectOf(i, w)
  OBVIOUS
<1>3. /\ linkRun[t].at = "working" /\ provider = "wangyan" /\ w.stage = "verify"
  BY <1>1 DEF VerifyRow
<1>4. /\ LinkTypeOK /\ w \in WorkType
      /\ w.named => effect[e] \in EffectRow
  BY <1>1, <1>2, <1>3, WorkingTypes DEF Jiashu
<1>5. PICK doubt : doubt = IF w.named /\ w.doubt = 0 THEN effect[e].attempt ELSE w.doubt
  OBVIOUS
<1>6. doubt \in Nat
  BY <1>4, <1>5 DEF WorkType, EffectRow
<1>7. ToFinish(t, "busy", w, "none") \/ linkRun' = [linkRun EXCEPT ![t].at = "looked", ![t].work.doubt = doubt]
  BY <1>1, <1>2, <1>5 DEF VerifyRow
<1>8. linkRun' \in [Task -> RunRow]
  <2>1. CASE ToFinish(t, "busy", w, "none")
    BY <1>4, <2>1, ToFinishTypes
  <2>2. CASE linkRun' = [linkRun EXCEPT ![t].at = "looked", ![t].work.doubt = doubt]
    <3>1. PICK r \in RunRow : r = linkRun[t]
      BY <1>4, TypeParts
    <3>2. PICK n : n = [r EXCEPT !.at = "looked", !.work.doubt = doubt]
      OBVIOUS
    <3>3. n \in RunRow
      <4>1. PICK old \in WorkType : old = r.work
        BY <3>1 DEF RunRow
      <4>2. PICK m : m = [old EXCEPT !.doubt = doubt]
        OBVIOUS
      <4>3. m \in WorkType
        BY <1>6, <4>2 DEF WorkType
      <4>4. n = [r EXCEPT !.at = "looked", !.work = m]
        BY <3>2, <4>1, <4>2
      <4> QED
        BY <4>3, <4>4 DEF RunRow
    <3>4. linkRun' = [linkRun EXCEPT ![t] = n]
      BY ZenonT(90), <1>4, <2>2, <3>1, <3>2, TypeParts
    <3> QED
      BY <1>4, <3>3, <3>4, TypeParts
  <2> QED
    BY <1>7, <2>1, <2>2
<1> QED
  BY <1>4, <1>8, RunTypes, TypeParts DEF VerifyRow, OnlyRun, OnlyRunAndRemote

\* A lookup goes on, or begins again.
LEMMA PagesTypes ==
  ASSUME NEW w \in WorkType, NEW f \in SUBSET LinkRows, NEW n \in Nat, NEW p \in 1 .. 2,
         NEW r \in LinkRows \cup {0}, NEW m \in Nat
  PROVE  /\ [w EXCEPT !.page = p, !.found = f, !.total = n, !.row = r] \in WorkType
         /\ [w EXCEPT !.found = f, !.total = n, !.page = p, !.since = m] \in WorkType
  BY ZenonT(90) DEF WorkType

LEMMA RescanTypes == ASSUME NEW w \in WorkType PROVE Rescan(w) \in WorkType
<1>1. {} \in SUBSET LinkRows /\ 0 \in Nat /\ 1 \in 1 .. 2 /\ 0 \in LinkRows \cup {0}
  OBVIOUS
<1> QED
  BY <1>1, PagesTypes DEF Rescan

LEMMA LookPageTypes == ASSUME LinkInv, NEW t \in Task, LookPage(t) PROVE LinkTypeOK'
<1>1. PICK i, w : i = linkRun[t].line /\ w = linkRun[t].work
  OBVIOUS
<1>2. PICK e : e = EffectOf(i, w)
  OBVIOUS
<1>3. linkRun[t].at = "working" /\ w.stage \in {"lookup", "recover_create"}
  BY <1>1 DEF LookPage
<1>4. /\ LinkTypeOK /\ w \in WorkType /\ World /\ provider \in {"jiashu", "wangyan"}
      /\ provider = "wangyan" /\ w.stage = "recover_create" => effect[e] \in EffectRow
  <2>1. /\ LinkTypeOK /\ w \in WorkType /\ WorkFits(i, w)
        /\ w.named /\ ~Jiashu /\ w.stage \in {"recover_create", "verify"} => effect[e] \in EffectRow
    BY <1>1, <1>2, <1>3, WorkingTypes
  <2> QED
    BY <2>1 DEF WorkFits, WangyanWork, LinkInv, Jiashu, LinkTypeOK
<1>5. PICK own, seen, total :
        /\ own = (provider = "wangyan" /\ w.stage = "recover_create")
        /\ seen = {r \in LinkRows : shelf[r] = w.page /\ (own => r = i)}
        /\ total = IF provider = "jiashu" THEN 0 ELSE Cardinality({r \in LinkRows : shelf[r] # 0})
  OBVIOUS
<1>6. PICK next : next = [w EXCEPT !.found = @ \cup seen, !.total = total, !.page = 2,
                                   !.since = IF w.page = 1 THEN w.doubt ELSE @]
  OBVIOUS
<1>7. total \in Nat /\ seen \subseteq LinkRows
  <2>1. Cardinality({r \in LinkRows : shelf[r] # 0}) \in Nat
    BY <1>4, RowsAreFinite, TypeParts
  <2> QED
    BY <1>5, <2>1
<1>8. next \in WorkType
  <2>1. PICK found \in SUBSET LinkRows, since \in Nat :
          found = w.found \cup seen /\ since = IF w.page = 1 THEN w.doubt ELSE w.since
    BY <1>4, <1>7 DEF WorkType
  <2>2. next = [w EXCEPT !.found = found, !.total = total, !.page = 2, !.since = since]
    BY <1>4, <1>6, <2>1 DEF WorkType
  <2>3. 2 \in 1 .. 2 /\ 0 \in LinkRows \cup {0}
    OBVIOUS
  <2>4. [w EXCEPT !.found = found, !.total = total, !.page = 2, !.since = since] \in WorkType
    BY ZenonT(90), <1>4, <1>7, <2>3, PagesTypes
  <2> QED
    BY <2>2, <2>4
<1>9. /\ Rescan(w) \in WorkType /\ Rescan(next) \in WorkType
      /\ \A st \in {"read_before", "create"} : [Rescan(next) EXCEPT !.stage = st] \in WorkType
      /\ \A r \in LinkRows : [Rescan(next) EXCEPT !.stage = "verify", !.row = r] \in WorkType
  <2>1. \A v \in WorkType : Rescan(v) \in WorkType
    BY RescanTypes
  <2>2. \A v \in WorkType :
          /\ \A st \in {"read_before", "create"} : [v EXCEPT !.stage = st] \in WorkType
          /\ \A r \in LinkRows : [v EXCEPT !.stage = "verify", !.row = r] \in WorkType
    BY ZenonT(90) DEF WorkType
  <2> QED
    BY <1>4, <1>8, <2>1, <2>2
<1>10. own => [w EXCEPT !.stage = "verify", !.row = effect[e].row] \in WorkType
  BY <1>4, <1>5 DEF WorkType, EffectRow
<1>11. \/ own /\ ToFinish(t, "result_unknown", w, "none")
       \/ own /\ ToFinish(t, "pending", [w EXCEPT !.stage = "verify", !.row = effect[e].row], "none")
       \/ ToFinish(t, "pending", next, "none")
       \/ ToFinish(t, IF own THEN "result_unknown" ELSE "failed", Rescan(w), "none")
       \/ LookupDone(t, next)
  BY <1>1, <1>2, <1>5, <1>6, ZenonT(90) DEF LookPage
<1>12. next.found \subseteq LinkRows
  BY <1>8 DEF WorkType
<1>13. \E s \in {"pending", "result_unknown", "failed"}, v \in WorkType, d \in {"none", "succeeded", "confirmed_absent"} :
         ToFinish(t, s, v, d)
  <2>1. CASE LookupDone(t, next)
    BY <1>9, <1>12, <2>1 DEF LookupDone
  <2>2. CASE ~LookupDone(t, next)
    BY <1>4, <1>8, <1>9, <1>10, <1>11, <2>2
  <2> QED
    BY <2>1, <2>2
<1>14. linkRun' \in [Task -> RunRow]
  BY SMTT(90), <1>4, <1>13, ToFinishTypes DEF Terminal
<1> QED
  BY SMTT(90), <1>4, <1>14, RunTypes, TypeParts DEF LookPage, OnlyRun, OnlyRunAndRemote

\* Work in doubt of an attempt.
LEMMA DoubtingTypes ==
  ASSUME NEW w \in WorkType, NEW a \in Nat
  PROVE  /\ Doubting(w, a) \in WorkType /\ [Doubting(w, a) EXCEPT !.active = FALSE] \in WorkType
         /\ \A r \in LinkRows \cup {0} :
              /\ [Doubting(w, a) EXCEPT !.stage = "verify", !.row = r] \in WorkType
              /\ [[Doubting(w, a) EXCEPT !.active = FALSE] EXCEPT !.stage = "verify", !.row = r] \in WorkType
         /\ [w EXCEPT !.stage = AfterWrite(w.step), !.active = FALSE] \in WorkType
<1>1. Rescan(w) \in WorkType
  BY RescanTypes
<1>2. RecoveryOf(w.step) \in Recovering
  BY DEF RecoveryOf, Recovering, WorkType
<1>3. Doubting(w, a) \in WorkType
  BY <1>1, <1>2 DEF Doubting, WorkType
<1>4. \A v \in WorkType : [v EXCEPT !.active = FALSE] \in WorkType
  BY ZenonT(90) DEF WorkType
<1>5. \A v \in WorkType, r \in LinkRows \cup {0} : [v EXCEPT !.stage = "verify", !.row = r] \in WorkType
  BY ZenonT(90) DEF WorkType
<1>6. AfterWrite(w.step) \in {"read_before", "save", "verify"}
  BY DEF AfterWrite
<1>7. [w EXCEPT !.stage = AfterWrite(w.step), !.active = FALSE] \in WorkType
  BY <1>6 DEF WorkType
<1> QED
  BY <1>3, <1>4, <1>5, <1>7

\* One effect more, or one changed.
LEMMA EffectTypes ==
  ASSUME LinkTypeOK, NEW e, NEW row, e \in DOMAIN effect => row \in EffectRow,
         effect' = effect \/ effect' = [effect EXCEPT ![e] = row]
  PROVE  \A x \in DOMAIN effect' : x \in EffectKey /\ effect'[x] \in EffectRow
<1>1. CASE effect' = effect
  BY <1>1, TypeParts
<1>2. CASE effect' = [effect EXCEPT ![e] = row]
  <2>1. DOMAIN effect' = DOMAIN effect
    BY <1>2
  <2>2. \A x \in DOMAIN effect : effect'[x] = IF x = e THEN row ELSE effect[x]
    BY <1>2
  <2> QED
    BY <2>1, <2>2, TypeParts
<1> QED
  BY <1>1, <1>2

LEMMA ArmWriteTypes == ASSUME LinkInv, NEW t \in Task, ArmWrite(t) PROVE LinkTypeOK'
<1>1. PICK i, w : i = linkRun[t].line /\ w = linkRun[t].work
  OBVIOUS
<1>2. PICK v : v = Writing(w)
  OBVIOUS
<1>3. PICK e, u : e = EffectOf(i, v) /\ u = [v EXCEPT !.active = TRUE]
  OBVIOUS
<1>4. PICK a : a = IF e \in DOMAIN effect THEN effect[e].attempt + 1 ELSE 1
  OBVIOUS
<1>5. /\ linkRun[t].at = "working" /\ w.stage \in Writes
      /\ UNCHANGED <<lineHolder, lineRunner, lineMessage, scopeHolder, link, credentials, provider,
                     config, shelf, jump, flying, overwritten, linkFaults>>
  BY <1>1 DEF ArmWrite
<1>6. LinkTypeOK /\ i \in Line /\ w \in WorkType
  BY <1>1, <1>5, WorkingTypes
<1>7. v \in WorkType /\ u \in WorkType /\ v.version = w.version /\ v.step = w.stage
  <2>1. PICK b \in BOOLEAN : b <=> provider = "wangyan"
    OBVIOUS
  <2>2. v = [w EXCEPT !.step = w.stage, !.named = b]
    BY <1>2, <2>1 DEF Writing
  <2>3. [w EXCEPT !.step = w.stage, !.named = b] \in WorkType
    BY <1>5, <1>6, WorkWith
  <2>4. v \in WorkType /\ u \in WorkType
    BY <1>3, <2>2, <2>3, WorkWith
  <2>5. v.version = w.version /\ v.step = w.stage
    BY <1>6, <2>2 DEF WorkType
  <2> QED
    BY <2>4, <2>5
<1>8. v = [linkRun[t].work EXCEPT !.step = linkRun[t].work.stage, !.named = provider = "wangyan"]
  BY <1>1, <1>2 DEF Writing
<1>9. a \in Nat
  BY <1>4, <1>6, TypeParts DEF EffectRow
<1>10. \/ /\ UNCHANGED <<line, effect>>
          /\ \/ ToFinish(t, "busy", v, "none") \/ ToFinish(t, "blocked_auth", v, "none")
             \/ ~Sendable(e) /\ SentBefore(t, e, v)
       \/ /\ Authorized(v)
          /\ effect' = WithEffect(e, [status |-> "sending", attempt |-> a, since |-> 0, row |-> 0])
          /\ line' = [line EXCEPT ![i].work = u]
          /\ linkRun' = [linkRun EXCEPT ![t].at = "armed", ![t].work = u, ![t].attempt = a]
  BY ZenonT(90), <1>1, <1>3, <1>4, <1>8 DEF ArmWrite
<1>11. CASE /\ UNCHANGED <<line, effect>>
            /\ \/ ToFinish(t, "busy", v, "none") \/ ToFinish(t, "blocked_auth", v, "none")
               \/ ~Sendable(e) /\ SentBefore(t, e, v)
  <2>1. PICK s \in {"busy", "blocked_auth", "failed", "pending", "result_unknown"}, n \in WorkType :
          ToFinish(t, s, n, "none")
    <3>1. CASE ~Sendable(e) /\ SentBefore(t, e, v)
      <4>1. effect[e] \in EffectRow
        BY <1>6, <3>1, TypeParts DEF Sendable
      <4>2. effect[e].attempt \in Nat /\ effect[e].row \in LinkRows \cup {0}
        BY <4>1 DEF EffectRow
      <4> QED
        BY <1>7, <3>1, <4>2, DoubtingTypes DEF SentBefore
    <3> QED
      BY SMTT(90), <1>7, <1>11, <3>1
  <2>2. linkRun' \in [Task -> RunRow]
    BY <1>6, <2>1, ToFinishTypes DEF Terminal
  <2> QED
    BY <1>5, <1>6, <1>11, <2>2, RunTypes, TypeParts
<1>12. CASE /\ Authorized(v)
            /\ effect' = WithEffect(e, [status |-> "sending", attempt |-> a, since |-> 0, row |-> 0])
            /\ line' = [line EXCEPT ![i].work = u]
            /\ linkRun' = [linkRun EXCEPT ![t].at = "armed", ![t].work = u, ![t].attempt = a]
  <2>1. e \in EffectKey
    <3>1. v.version \in Version /\ v.step \in Writes /\ config[i] \in Episode
      BY <1>5, <1>6, <1>7, <1>12, TypeParts DEF Authorized
    <3> QED
      BY <1>3, <1>6, <3>1 DEF EffectOf, EffectKey
  <2>2. PICK row : row = [status |-> "sending", attempt |-> a, since |-> 0, row |-> 0]
    OBVIOUS
  <2>3. row \in EffectRow
    BY <1>9, <2>2 DEF EffectRow, Uncertain
  <2>4. \A x \in DOMAIN effect' : x \in EffectKey /\ effect'[x] \in EffectRow
    BY <1>6, <1>12, <2>1, <2>2, <2>3, TypeParts DEF WithEffect
  <2>5. line' \in [Line -> LineRow]
    <3>1. PICK old \in LineRow : old = line[i]
      BY <1>6, TypeParts
    <3>2. PICK n : n = [old EXCEPT !.work = u]
      OBVIOUS
    <3>3. n \in LineRow
      BY <1>7, <3>2 DEF LineRow
    <3>4. line' = [line EXCEPT ![i] = n]
      BY <1>6, <1>12, <3>1, <3>2
    <3> QED
      BY <1>6, <3>3, <3>4, TypeParts
  <2>6. linkRun' \in [Task -> RunRow]
    <3>1. PICK old \in RunRow : old = linkRun[t]
      BY <1>6, TypeParts
    <3>2. PICK n : n = [old EXCEPT !.at = "armed", !.work = u, !.attempt = a]
      OBVIOUS
    <3>3. n \in RunRow
      BY <1>7, <1>9, <3>2 DEF RunRow
    <3>4. linkRun' = [linkRun EXCEPT ![t] = n]
      BY <1>6, <1>12, <3>1, <3>2, TypeParts
    <3> QED
      BY <1>6, <3>3, <3>4, TypeParts
  <2> QED
    BY <1>5, <1>6, <2>4, <2>5, <2>6, TypeParts, TypesMeet
<1> QED
  BY <1>10, <1>11, <1>12

LEMMA ArrivesTypes ==
  ASSUME LinkTypeOK, NEW e, NEW i \in Line, Arrives(e, i)
  PROVE  shelf' \in [LinkRows -> 0 .. 2] /\ jump' \in Episode \cup {0} /\ overwritten' \in BOOLEAN
<1>1. PICK row \in LinkRows : row = IF provider = "jiashu" THEN None ELSE i
  BY DEF LinkRows
<1>2. shelf' = shelf \/ \E p \in {1, 2} : shelf' = [shelf EXCEPT ![row] = p]
  BY <1>1 DEF Arrives
<1>3. shelf' \in [LinkRows -> 0 .. 2]
  BY <1>1, <1>2, TypeParts
<1>4. jump' \in Episode \cup {0}
  BY TypeParts DEF Arrives
<1>5. overwritten' \in BOOLEAN
  BY Zenon DEF Arrives
<1> QED
  BY <1>3, <1>4, <1>5

LEMMA ArrivesLateTypes == ASSUME LinkInv, ArrivesLate PROVE LinkTypeOK'
<1>1. PICK f \in flying : Arrives(f[1], f[2]) /\ flying' = flying \ {f}
  BY DEF ArrivesLate
<1>2. LinkTypeOK /\ f[2] \in Line
  BY TypeParts DEF LinkInv
<1>3. shelf' \in [LinkRows -> 0 .. 2] /\ jump' \in Episode \cup {0} /\ overwritten' \in BOOLEAN
  BY <1>1, <1>2, ArrivesTypes
<1>4. UNCHANGED <<line, lineHolder, lineRunner, lineMessage, scopeHolder, link, credentials, provider,
                  config, linkRun, effect, linkFaults>>
  BY DEF ArrivesLate, OnlyRunAndRemote
<1> QED
  BY <1>1, <1>2, <1>3, <1>4, TypeParts, TypesMeet

LEMMA PostWriteTypes == ASSUME LinkInv, NEW t \in Task, PostWrite(t) PROVE LinkTypeOK'
<1>1. PICK i, w, e : i = linkRun[t].line /\ w = linkRun[t].work /\ e = EffectOf(i, w)
  OBVIOUS
<1>2. Sends(linkRun[t])
  BY DEF PostWrite, Sends
<1>3. LinkTypeOK /\ i \in Line /\ e \in EffectKey
  BY <1>1, <1>2, RunSends DEF LinkInv
<1>4. PICK answer \in {"accepted", "accepted_id", "rejected", "unknown"} :
        /\ linkRun' = [linkRun EXCEPT ![t].at = "posted", ![t].answer = answer]
        /\ Arrives(e, i) \/ UNCHANGED <<shelf, jump, overwritten>>
        /\ flying' = flying \/ flying' = flying \cup {<<e, i>>}
        /\ linkFaults' = linkFaults \/ (linkFaults < MaxCrashes /\ linkFaults' = linkFaults + 1)
  BY <1>1, Zenon DEF PostWrite
<1>5. linkRun' \in [Task -> RunRow]
  <2>1. PICK old \in RunRow : old = linkRun[t]
    BY <1>3, TypeParts
  <2>2. PICK n : n = [old EXCEPT !.at = "posted", !.answer = answer]
    OBVIOUS
  <2>3. n \in RunRow
    BY <2>2 DEF RunRow
  <2>4. linkRun' = [linkRun EXCEPT ![t] = n]
    BY <1>3, <1>4, <2>1, <2>2, TypeParts
  <2> QED
    BY <1>3, <2>3, <2>4, TypeParts
<1>6. shelf' \in [LinkRows -> 0 .. 2] /\ jump' \in Episode \cup {0} /\ overwritten' \in BOOLEAN
  <2>1. CASE Arrives(e, i)
    BY <1>3, <2>1, ArrivesTypes
  <2>2. CASE UNCHANGED <<shelf, jump, overwritten>>
    BY <1>3, <2>2, TypeParts
  <2> QED
    BY <1>4, <2>1, <2>2
<1>7. flying' \subseteq EffectKey \X Line /\ linkFaults' \in 0 .. MaxCrashes
  BY <1>3, <1>4, FaultTypes, TypeParts
<1>8. UNCHANGED <<line, lineHolder, lineRunner, lineMessage, scopeHolder, link, credentials, provider,
                  config, effect>>
  BY DEF PostWrite, OnlyRunAndRemote
<1> QED
  BY <1>3, <1>5, <1>6, <1>7, <1>8, TypeParts, TypesMeet

LEMMA StoreAnswerTypes ==
  ASSUME LinkInv, NEW t \in Task, StoreAnswer(t) \/ StoreLinkReceipt(t) PROVE LinkTypeOK'
<1>1. PICK i, w, a : i = linkRun[t].line /\ w = linkRun[t].work /\ a = linkRun[t].attempt
  BY SMTT(90)
<1>2. PICK e : e = EffectOf(i, w)
  OBVIOUS
<1>3. Sends(linkRun[t])
  BY DEF StoreAnswer, StoreLinkReceipt, Sends
<1>4. LinkTypeOK /\ i \in Line /\ w \in WorkType /\ a \in Nat /\ effect[e] \in EffectRow
  BY <1>1, <1>2, <1>3, RunSends DEF LinkInv
<1>5. PICK id \in LinkRows \cup {0} : id = IF linkRun[t].answer = "accepted_id" THEN i ELSE 0
  BY <1>4 DEF LinkRows
<1>6. PICK s \in {"pending", "busy", "failed", "result_unknown"}, v \in WorkType : ToFinish(t, s, v, "none")
  <2>1. CASE StoreAnswer(t)
    BY ZenonT(90), <1>1, <1>4, <2>1, DoubtingTypes DEF StoreAnswer
  <2>2. CASE StoreLinkReceipt(t)
    <3>1. PICK d \in WorkType : d = [Doubting(w, a) EXCEPT !.active = FALSE]
      BY ZenonT(90), <1>4, DoubtingTypes
    <3>2. [d EXCEPT !.stage = "verify", !.row = id] \in WorkType
      BY ZenonT(90), <1>4, <3>1, DoubtingTypes
    <3>3. \/ ToFinish(t, "failed", w, "none") \/ ToFinish(t, "result_unknown", d, "none")
          \/ ToFinish(t, "pending", d, "none")
          \/ ToFinish(t, "pending", [d EXCEPT !.stage = "verify", !.row = id], "none")
      BY <1>1, <1>5, <2>2, <3>1 DEF StoreLinkReceipt
    <3> QED
      BY SMTT(90), <1>4, <3>2, <3>3
  <2> QED
    BY SMTT(90), <2>1, <2>2
<1>7. linkRun' \in [Task -> RunRow]
  BY <1>4, <1>6, ToFinishTypes DEF Terminal
<1>8. PICK row \in EffectRow : effect' = effect \/ effect' = [effect EXCEPT ![e] = row]
  <2>1. PICK old \in EffectRow : old = effect[e]
    BY <1>4
  <2>2. /\ \A st \in {"succeeded", "failed", "result_unknown"} : [old EXCEPT !.status = st] \in EffectRow
        /\ [old EXCEPT !.status = "result_unknown", !.row = id] \in EffectRow
    BY DEF EffectRow, Uncertain
  <2>3. \/ effect' = effect
        \/ \E st \in {"succeeded", "failed", "result_unknown"} : effect' = [effect EXCEPT ![e].status = st]
        \/ effect' = [effect EXCEPT ![e].status = "result_unknown", ![e].row = id]
    <3>1. CASE StoreAnswer(t)
      <4>1. \/ effect' = effect \/ effect' = [effect EXCEPT ![e].status = "succeeded"]
            \/ Persisted(e, a, "failed") \/ Persisted(e, a, "result_unknown")
        BY <1>1, <1>2, <3>1, ZenonT(90) DEF StoreAnswer
      <4>2. ASSUME NEW st, Persisted(e, a, st)
            PROVE  effect' = effect \/ effect' = [effect EXCEPT ![e].status = st]
        BY SMTT(90), <4>2 DEF Persisted
      <4> QED
        BY <4>1, <4>2
    <3>2. CASE StoreLinkReceipt(t)
      BY <1>1, <1>2, <1>5, <3>2 DEF StoreLinkReceipt, Persisted, Received
    <3> QED
      BY SMTT(90), <3>1, <3>2
  <2>4. /\ \A st : [effect EXCEPT ![e].status = st] = [effect EXCEPT ![e] = [old EXCEPT !.status = st]]
        /\ [effect EXCEPT ![e].status = "result_unknown", ![e].row = id]
             = [effect EXCEPT ![e] = [old EXCEPT !.status = "result_unknown", !.row = id]]
    BY <2>1
  <2> QED
    BY ZenonT(90), <2>2, <2>3, <2>4
<1>9. \A x \in DOMAIN effect' : x \in EffectKey /\ effect'[x] \in EffectRow
  BY <1>4, <1>8, EffectTypes
<1>10. UNCHANGED <<line, lineHolder, lineRunner, lineMessage, scopeHolder, link, credentials, provider,
                   config, shelf, jump, flying, overwritten, linkFaults>>
  BY DEF StoreAnswer, StoreLinkReceipt, OnlyRunAndRemote
<1> QED
  BY <1>4, <1>7, <1>9, <1>10, TypeParts, TypesMeet

LEMMA StoreProofTypes == ASSUME LinkInv, NEW t \in Task, StoreProof(t) PROVE LinkTypeOK'
<1>1. PICK i, w : i = linkRun[t].line /\ w = linkRun[t].work
  OBVIOUS
<1>2. PICK e, v : e = EffectOf(i, w) /\ v = [w EXCEPT !.doubt = 0]
  OBVIOUS
<1>3. linkRun[t].at = "looked"
  BY DEF StoreProof
<1>4. LinkTypeOK /\ i \in Line /\ w \in WorkType
  BY <1>1, <1>3, WorkingTypes
<1>5. v \in WorkType
  BY SMTT(90), <1>2, <1>4 DEF WorkType
<1>6. /\ \/ ToFinish(t, "busy", w, "none") \/ ToFinish(t, "ready", v, "none")
      /\ line' = line \/ line' = [line EXCEPT ![i].work = v]
      /\ effect' = effect \/ effect' = [effect EXCEPT ![e].status = "succeeded", ![e].row = w.row]
  BY <1>1, <1>2 DEF StoreProof
<1>7. linkRun' \in [Task -> RunRow]
  BY <1>4, <1>5, <1>6, ToFinishTypes DEF Terminal
<1>8. line' \in [Line -> LineRow]
  <2>1. PICK old \in LineRow : old = line[i]
    BY <1>4, TypeParts
  <2>2. PICK n : n = [old EXCEPT !.work = v]
    OBVIOUS
  <2>3. n \in LineRow
    BY <1>5, <2>2 DEF LineRow
  <2>4. line' = line \/ line' = [line EXCEPT ![i] = n]
    BY <1>4, <1>6, <2>1, <2>2
  <2> QED
    BY SMTT(90), <1>4, <2>3, <2>4, TypeParts
<1>9. \A x \in DOMAIN effect' : x \in EffectKey /\ effect'[x] \in EffectRow
  <2>1. PICK row : row = [effect[e] EXCEPT !.status = "succeeded", !.row = w.row]
    OBVIOUS
  <2>2. e \in DOMAIN effect => row \in EffectRow
    <3>1. w.row \in LinkRows \cup {0}
      BY <1>4 DEF WorkType
    <3>2. e \in DOMAIN effect => effect[e] \in EffectRow
      BY <1>4, TypeParts
    <3> QED
      BY <2>1, <3>1, <3>2, EffectWith
  <2>3. effect' = effect \/ effect' = [effect EXCEPT ![e] = row]
    BY <1>6, <2>1
  <2> QED
    BY <1>4, <2>2, <2>3, EffectTypes
<1>10. UNCHANGED <<lineHolder, lineRunner, lineMessage, scopeHolder, link, credentials, provider,
                   config, shelf, jump, flying, overwritten, linkFaults>>
  BY DEF StoreProof
<1> QED
  BY <1>4, <1>7, <1>8, <1>9, <1>10, TypeParts, TypesMeet

LEMMA FinishUnitTypes == ASSUME LinkInv, NEW t \in Task, FinishUnit(t) PROVE LinkTypeOK'
<1>1. PICK r \in RunRow : r = linkRun[t] /\ RunOK(r) /\ r.at = "finish"
  BY TypeParts DEF LinkInv, Runs, FinishUnit
<1>2. PICK i \in Line, w \in WorkType, d \in {r.decides}, s \in {r.status} : i = r.line /\ w = r.work
  BY <1>1 DEF RunOK, RunRow
<1>3. PICK e : e = EffectOf(i, w)
  OBVIOUS
<1>4. /\ LinkTypeOK /\ d \in {"none", "succeeded", "confirmed_absent"}
      /\ s \in Terminal \cup {"pending", "busy", "retryable_error", "result_unknown"}
      /\ line[i].work \in WorkType
  BY <1>1, <1>2, TypeParts DEF LinkInv, RunRow, LineRow
<1>5. /\ linkRun' = [linkRun EXCEPT ![t] = [NoLinkRun EXCEPT !.at = "finished", !.line = i]]
      /\ UNCHANGED <<lineRunner, lineMessage, credentials, provider, config, shelf, jump, flying,
                     overwritten, linkFaults>>
  BY <1>1, <1>2 DEF FinishUnit
<1>6. linkRun' \in [Task -> RunRow]
  <2>1. [NoLinkRun EXCEPT !.at = "finished", !.line = i] \in RunRow
    BY ZenonT(90), NewWorkType DEF RunRow
  <2> QED
    BY <1>4, <1>5, <2>1, TypeParts
<1>7. PICK cleared, again : /\ cleared = [w EXCEPT !.doubt = 0, !.active = FALSE]
                            /\ again = Inconclusive(line[i].work, d)
  OBVIOUS
<1>8. cleared \in WorkType /\ again \in WorkType
  <2>1. cleared \in WorkType
    BY <1>7 DEF WorkType
  <2> QED
    BY <1>4, <1>7, <2>1, LookAgain
<1>9. CASE lineHolder[i] # t
  <2>1. UNCHANGED <<line, lineHolder, scopeHolder, effect, link>>
    BY <1>1, <1>2, <1>9 DEF FinishUnit
  <2> QED
    BY <1>4, <1>5, <1>6, <2>1, TypeParts, TypesMeet
<1>10. CASE lineHolder[i] = t
  <2>1. i = linkRun[t].line /\ w = linkRun[t].work /\ s = linkRun[t].status /\ d = linkRun[t].decides
    BY <1>1, <1>2
  <2>2. PICK status, work, effects : UnitStores(i, w, s, d, e, status, work, effects)
    BY <1>3, <1>10, <2>1, FinishUnitStores
  <2>3. PICK rested : rested = IF status \in Terminal \ {"needs_resolution"} /\ scopeHolder' # i
                               THEN NewWork ELSE work
    OBVIOUS
  <2>4. /\ status \in {"result_unknown", "blocked_auth", IF s = "busy" THEN "pending" ELSE s}
        /\ work \in {again, w, cleared}
        /\ effects = effect \/ (d # "none" /\ effects = Decided(e, w, d))
        /\ rested \in {NewWork, work}
    BY <1>7, <2>2, <2>3 DEF UnitStores, Decisive
  <2>5. line' = [line EXCEPT ![i] = [status |-> status, live |-> FALSE, work |-> rested]]
    BY <2>2, <2>3 DEF UnitStores
  <2>6. /\ effect' = effects /\ scopeHolder' = ScopeAfter(i, status, effects)
        /\ link' = IF status = "ready" THEN Published(i, w) ELSE link
        /\ lineHolder' = [lineHolder EXCEPT ![i] = None]
    BY <2>2 DEF UnitStores
  <2>7. line' \in [Line -> LineRow]
    <3>1. rested \in WorkType
          /\ status \in Terminal \cup {"none", "pending", "retryable_error", "result_unknown"}
      BY <1>4, <1>8, <2>4, NewWorkType DEF Terminal
    <3>2. [status |-> status, live |-> FALSE, work |-> rested] \in LineRow
      BY <3>1 DEF LineRow
    <3> QED
      BY <1>4, <2>5, <3>2, TypeParts
  <2>8. scopeHolder' \in Line \cup {None} /\ lineHolder' \in [Line -> Task \cup {None}]
    BY <1>4, <2>6, TypeParts DEF ScopeAfter
  <2>9. link' \in [Episode -> LinkRows \cup {0}]
    <3>1. PICK x \in LinkRows \cup {0} : x = IF provider = "jiashu" THEN None ELSE w.row
      BY <1>2 DEF WorkType, LinkRows
    <3>2. link' = link \/ link' = [link EXCEPT ![config[i]] = x]
      BY <2>6, <3>1 DEF Published
    <3> QED
      BY <1>4, <3>2, TypeParts
  <2>10. \A x \in DOMAIN effect' : x \in EffectKey /\ effect'[x] \in EffectRow
    <3>1. PICK row : row = [effect[e] EXCEPT !.status = d, !.since = w.since]
      OBVIOUS
    <3>2. e \in DOMAIN effect /\ d # "none" => row \in EffectRow
      <4>1. \A old \in EffectRow : d # "none" => [old EXCEPT !.status = d, !.since = w.since] \in EffectRow
        BY ZenonT(90), <1>2, <1>4 DEF EffectRow, WorkType
      <4> QED
        BY <1>4, <3>1, <4>1, TypeParts
    <3>3. effect' = effect \/ (d # "none" /\ effect' = [effect EXCEPT ![e] = row])
      BY <2>4, <2>6, <3>1 DEF Decided
    <3> QED
      BY <1>4, <3>2, <3>3, EffectTypes, TypeParts
  <2> QED
    BY <1>4, <1>5, <1>6, <2>7, <2>8, <2>9, <2>10, TypeParts, TypesMeet
<1> QED
  BY <1>9, <1>10

LEMMA CredentialsTypes == ASSUME LinkInv, ReplaceCredentials PROVE LinkTypeOK'
<1>1. LinkTypeOK /\ credentials' = credentials + 1 /\ linkFaults < MaxCrashes /\ linkFaults' = linkFaults + 1
  BY DEF LinkInv, ReplaceCredentials
<1>2. credentials' \in Version
  BY <1>1, TasksOK DEF LinkInv, World, LinkTypeOK, Version
<1>3. linkFaults' \in 0 .. MaxCrashes
  BY <1>1, FaultTypes
<1> QED
  BY <1>1, <1>2, <1>3, TypeParts, TypesMeet DEF ReplaceCredentials

-----------------------------------------------------------------------------
(* The invariant.                                                          *)

\* Every step keeps the types.
LEMMA LinkTypesKeep == ASSUME LinkInv, LinkNext PROVE LinkTypeOK'
<1>1. LinkTypeOK
  BY DEF LinkInv
<1>2. ASSUME NEW t \in Task, LinkTask(t) \/ ReadFails(t) \/ KillLink(t) PROVE LinkTypeOK'
  BY SMTT(90), <1>1, <1>2, ClaimLineTypes, SearchTypes, LookPageTypes, ArmWriteTypes, PostWriteTypes,
     StoreAnswerTypes,
     ReadLinkTypes, VerifyRowTypes, StoreProofTypes, FinishUnitTypes, ReadFailsTypes, RunEndsTypes DEF LinkTask
<1>3. ASSUME NEW i \in Line, NEW t \in Task, TakeLine(t, i) PROVE LinkTypeOK'
  BY <1>1, <1>3, TakeLineTypes
<1>4. ASSUME NEW i \in Line, PrepareLine(i) \/ SelectCandidate(i) \/ RepairLine(i)
                             \/ LineClaimLapses(i) \/ WatchdogDue(i) \/ LinkStalls(i)
      PROVE  LinkTypeOK'
  BY <1>1, <1>4, DeliveryTypes
<1> QED
  BY <1>2, <1>3, <1>4, ArrivesLateTypes, CredentialsTypes DEF LinkNext

\* So does a step that changes nothing.
LEMMA LinkStays == ASSUME LinkInv, UNCHANGED linkVars PROVE LinkInv'
<1>1. LinkTypeOK'
  BY TypesMeet, TypeParts DEF LinkInv, linkVars
<1>2. Still /\ flying' \subseteq flying /\ credentials' <= linkFaults'
      /\ UNCHANGED <<line, lineHolder, linkRun, provider, config>>
  BY DEF Still, linkVars, LinkInv, World
<1>3. Grown /\ (\A k \in Line : Steady(k)) /\ Effects' /\ Flights' /\ World'
  BY <1>1, <1>2, StillKeeps
<1>4. Lines' /\ Runs' /\ Holders'
  <2>1. \A k \in Line : Steady(k) /\ line'[k] = line[k]
    BY <1>2, <1>3
  <2>2. \A u \in Task : linkRun'[u] = linkRun[u]
    BY <1>2
  <2>3. \A k \in Line : lineHolder'[k] # None =>
          /\ Steady(k) /\ lineHolder'[k] = lineHolder[k] /\ line'[k].status = line[k].status
          /\ linkRun'[lineHolder[k]] = linkRun[lineHolder[k]]
    BY <1>2, <1>3
  <2> QED
    BY <1>1, <1>3, <2>1, <2>2, <2>3, Progress
<1>5. OneSender' /\ OneFlight' /\ Refused'
  BY <1>2, SendersKeep DEF Still
<1> QED
  BY <1>1, <1>3, <1>4, <1>5 DEF LinkInv

\* The invariant is kept by every step.
LEMMA LinkStep == LinkInv /\ [LinkNext]_linkVars => LinkInv'
<1> SUFFICES ASSUME LinkInv, [LinkNext]_linkVars PROVE LinkInv'
  OBVIOUS
<1>1. CASE UNCHANGED linkVars
  BY <1>1, LinkStays
<1>2. CASE LinkNext
  <2>1. LinkTypeOK'
    BY <1>2, LinkTypesKeep
  <2>2. ASSUME NEW t \in Task, LinkTask(t) \/ ReadFails(t) \/ KillLink(t) PROVE LinkInv'
    BY SMTT(90), <2>1, <2>2, ClaimLineKeeps, SearchKeeps, LookPageKeeps, ArmWriteKeeps,
       PostWriteKeeps, StoreAnswerKeeps,
       StoreLinkReceiptKeeps, ReadLinkKeeps, VerifyRowKeeps, StoreProofKeeps, FinishUnitKeeps, ReadFailsKeeps,
       RunEndsKeeps DEF LinkTask
  <2>3. ASSUME NEW i \in Line, NEW t \in Task, TakeLine(t, i) PROVE LinkInv'
    BY <2>1, <2>3, TakeLineKeeps
  <2>4. ASSUME NEW i \in Line, PrepareLine(i) \/ SelectCandidate(i) \/ RepairLine(i)
                               \/ LineClaimLapses(i) \/ WatchdogDue(i) \/ LinkStalls(i)
        PROVE  LinkInv'
    BY <2>1, <2>4, PrepareLineKeeps, SelectCandidateKeeps, LapseKeeps, MessageKeeps
  <2>5. ASSUME ArrivesLate \/ ReplaceCredentials PROVE LinkInv'
    BY <2>1, <2>5, ArrivesLateKeeps, MessageKeeps
  <2> QED
    BY <1>2, <2>2, <2>3, <2>4, <2>5 DEF LinkNext
<1> QED
  BY <1>1, <1>2

\* The invariant holds of the first states.
LEMMA LinkStarts == LinkInit => LinkInv
<1> SUFFICES ASSUME LinkInit PROVE LinkInv
  OBVIOUS
<1>1. provider \in {"jiashu", "wangyan"} /\ config \in [Line -> Episode]
      /\ jump \in {0} \cup (IF provider = "jiashu" /\ shelf[None] # 0 THEN Episode ELSE {})
      /\ overwritten = FALSE /\ linkFaults = 0 /\ credentials = 0 /\ flying = {}
  BY DEF LinkInit
<1>2. PICK p \in {0, 2} : shelf = [r \in LinkRows |-> IF r = None THEN p ELSE 0]
  BY DEF LinkInit
<1>3. DOMAIN effect = {}
  BY DEF LinkInit
<1>4. line = [i \in Line |-> [status |-> "none", live |-> FALSE, work |-> NewWork]]
      /\ link = [c \in Episode |-> 0] /\ linkRun = [t \in Task |-> NoLinkRun] /\ scopeHolder = None
      /\ lineHolder = [i \in Line |-> None] /\ lineRunner = [i \in Line |-> None]
      /\ lineMessage = [i \in Line |-> "none"]
  BY DEF LinkInit
<1>5. None \notin Line /\ 0 \notin Line /\ None # 0 /\ MaxCrashes \in Nat
  BY LinkStepsOK, TasksOK
<1>6. LinkTypeOK
  <2>1. [status |-> "none", live |-> FALSE, work |-> NewWork] \in LineRow /\ NoLinkRun \in RunRow
    BY NewWorkType DEF LineRow
  <2>2. shelf \in [LinkRows -> 0 .. 2]
    BY <1>2
  <2>3. line \in [Line -> LineRow] /\ linkRun \in [Task -> RunRow]
    BY <1>4, <2>1
  <2>4. credentials \in Version /\ linkFaults \in 0 .. MaxCrashes
    BY <1>1, <1>5 DEF Version
  <2>5. jump \in Episode \cup {0} /\ flying \subseteq EffectKey \X Line
    BY <1>1
  <2>7. overwritten \in BOOLEAN
    BY <1>1
  <2>6. lineHolder \in [Line -> Task \cup {None}] /\ lineRunner \in [Line -> Task \cup {None}]
        /\ lineMessage \in [Line -> {"none", "due", "watchdog"}] /\ scopeHolder \in Line \cup {None}
        /\ link \in [Episode -> LinkRows \cup {0}]
    BY <1>4
  <2> QED
    BY <1>1, <1>3, <2>2, <2>3, <2>4, <2>5, <2>6, <2>7 DEF LinkTypeOK, LineRow, RunRow
<1>7. Lines
  <2>1. ASSUME NEW i \in Line PROVE LineOK(i, line[i])
    <3>1. PICK row : row = line[i] /\ row.status = "none" /\ row.work = NewWork
      BY <1>4
    <3>2. scopeHolder # i
      BY <1>4, <1>5
    <3>3. LineOK(i, row)
      BY <3>1, <3>2, NewWorkFits DEF LineOK
    <3> QED
      BY <3>1, <3>3
  <2> QED
    BY <2>1 DEF Lines
<1>8. Runs /\ OneSender
  <2>1. \A t \in Task : linkRun[t] = NoLinkRun
    BY <1>4
  <2>2. Runs
    BY <2>1, NoRunOK DEF Runs
  <2>3. OneSender
    BY <2>1, NoRunOK DEF OneSender
  <2> QED
    BY <2>2, <2>3
<1>9. Holders /\ Effects /\ Flights /\ OneFlight /\ Refused
  BY <1>1, <1>3, <1>4 DEF Holders, Effects, Flights, OneFlight, Refused
<1>10. World
  <2>1. \A k \in Line : shelf[k] = 0
    BY <1>2, <1>5 DEF LinkRows
  <2>2. \A c \in Episode : link[c] = 0
    BY <1>4
  <2>3. (~Jiashu => jump = 0) /\ (jump # 0 => shelf[None] # 0)
    BY <1>1 DEF Jiashu
  <2> QED
    BY <1>1, <2>1, <2>2, <2>3 DEF World
<1> QED
  BY <1>6, <1>7, <1>8, <1>9, <1>10 DEF LinkInv

\* What must hold is part of the invariant.
LEMMA InvIsSafe == ASSUME LinkInv PROVE LinkSafe
<1>1. LinkTypeOK
  BY DEF LinkInv
<1>2. ASSUME NEW e \in DOMAIN effect, effect[e].status \in Uncertain
      PROVE  /\ scopeHolder # None
             /\ LET w == line[scopeHolder].work IN
                \/ EffectOf(scopeHolder, w) = e /\ (w.active \/ w.doubt = effect[e].attempt)
                \/ line[scopeHolder].status = "blocked_auth"
  <2>1. scopeHolder \in Line
    BY <1>2, DoubtOfScope DEF Doubted
  <2>2. PICK i, w : i \in Line /\ i = scopeHolder /\ w = line[i].work
    BY <2>1
  <2>3. Recalls(e, effect[e].attempt, i, line[i].status, w)
    BY <1>2, <2>2 DEF LinkInv, Lines, LineOK, Doubted
  <2>4. \/ EffectOf(i, w) = e /\ (w.active \/ w.doubt = effect[e].attempt)
        \/ line[i].status = "blocked_auth"
    BY SMTT(90), <2>3, KeyOfEffect DEF Recalls, Weakly
  <2> QED
    BY <2>2, <2>4, LinkStepsOK
<1>3. NoBlindWrite
  BY <1>1, LinkTypes DEF LinkInv, Effects, EffectOK, NoBlindWrite, OneShot, EffectRow,
     EffectKey, LinkTypeOK
<1>4. EffectsAreTrue
  BY DEF LinkInv, Effects, EffectOK, EffectsAreTrue, Done, Jiashu
<1>5. OnePromotion
  <2>1. \A i, k \in Line : shelf[i] # 0 /\ shelf[k] # 0 => i = k
    BY DEF LinkInv, World
  <2>2. CASE \A i \in Line : shelf[i] = 0
    <3>1. {i \in Line : shelf[i] # 0} = {}
      BY <2>2
    <3> QED
      BY <3>1, FS_EmptySet DEF OnePromotion, LinkInv, World
  <2>3. ASSUME NEW k \in Line, shelf[k] # 0 PROVE OnePromotion
    <3>1. {i \in Line : shelf[i] # 0} = {k}
      BY <2>1, <2>3
    <3>2. Cardinality({k}) = 1
      BY FS_Singleton
    <3> QED
      BY <3>1, <3>2 DEF OnePromotion, LinkInv, World
  <2> QED
    BY <2>2, <2>3
<1>6. ReadyAsAsked
  <2>1. ASSUME NEW i \in Line, line[i].status = "ready"
        PROVE  link[config[i]] # 0 /\ shelf[link[config[i]]] # 0 /\ (provider = "jiashu" => jump = config[i])
    <3>1. config[i] \in Episode /\ link[config[i]] # 0
      BY <1>1, <2>1, TypeParts DEF LinkInv, Lines, LineOK
    <3> QED
      BY <3>1 DEF LinkInv, World, Jiashu
  <2> QED
    BY <2>1 DEF ReadyAsAsked
<1> QED
  BY <1>1, <1>2, <1>3, <1>4, <1>5, <1>6 DEF LinkSafe, DoubtHoldsScope

\* Whatever order deliveries, lapsed claims, watchdogs, lost answers, late requests, failing
\* reads and new credentials come in: while a write is in doubt the scope is held, by a line that
\* knows of it or by one that is over because it lost its credentials; no write but jiashu's create
\* is sent twice, what counts as done is done at the provider, there is never a second promotion
\* nor a replaced url, and a line that is ready has what it asked for.
THEOREM LinkIsSafe == LinkSpec => []LinkSafe
<1>1. LinkInv => LinkSafe
  BY InvIsSafe
<1> QED
  BY <1>1, LinkStarts, LinkStep, PTL DEF LinkSpec

=============================================================================
