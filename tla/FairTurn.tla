------------------------------ MODULE FairTurn ------------------------------
(***************************************************************************)
(* Turns of the tenants at the calls of builds, kept in Redis: a queue of  *)
(* the tenants that ask, how long ago each one asked, and the turn, which  *)
(* the tenant at the head takes for a short while and gives back before    *)
(* it makes its call.  A worker that is refused asks again later; nobody   *)
(* waits in place.                                                         *)
(*                                                                         *)
(* Left out: the delayed tenants of the script, which no caller makes (all *)
(* finish as served), and its limits of a hundred per cleanup.             *)
(***************************************************************************)
EXTENDS Tasks

CONSTANTS Party,
          Wait,      \* wait_ms: after so long without asking a place is lost
          TurnTime   \* turn_ms

ASSUME FairTurnOK == None \notin Party /\ {Wait, TurnTime} \subseteq Nat \ {0} /\ TurnTime <= Wait

VARIABLES
  ready,     \* the tenants in the queue
  ahead,     \* those in it with a smaller sequence number than a tenant in it
  asked,     \* how long ago a tenant asked, as far as it matters
  turn,      \* who holds the turn, and since when
  turnRun,   \* the tenant of a task that took the turn and has not given it back
  \* observation
  passed,    \* turns of another tenant since a waiting tenant joined the queue
  fairFaults

fairVars == <<ready, ahead, asked, turn, turnRun, passed, fairFaults>>

FairTypeOK ==
  /\ ready \subseteq Party /\ ahead \in [Party -> SUBSET Party]
  /\ asked \in [Party -> 0 .. Wait]
  /\ turn \in [task : Task \cup {None}, age : 0 .. TurnTime - 1]
  /\ turnRun \in [Task -> Party \cup {None}]
  /\ passed \in [Party -> [Party -> Nat]]
  /\ fairFaults \in 0 .. MaxCrashes

NoTurn == [task |-> None, age |-> 0]

FairInit ==
  /\ ready = {} /\ ahead = [x \in Party |-> {}] /\ asked = [x \in Party |-> Wait]
  /\ turn = NoTurn
  /\ turnRun = [t \in Task |-> None]
  /\ passed = [x \in Party |-> [y \in Party |-> 0]]
  /\ fairFaults = 0

-----------------------------------------------------------------------------
(* fair_turn.lua                                                           *)

Live(x) == asked[x] < Wait

\* Mutant: nobody is removed from the queue.
Cleaned_None == ready

Cleaned == {x \in ready : Live(x)}   \* those who have not asked for long lose their place

\* Who is ahead of whom when x has asked: a tenant without a place gets one at the end.
Ahead(x) == [y \in Party |-> IF y \in Cleaned THEN ahead[y] \cap Cleaned
                            ELSE IF y = x THEN Cleaned ELSE {}]

Granted(x) == Ahead(x)[x] = {} /\ turn.task = None

\* Whom a turn of x passes, and who has just joined.
Passes(x) == [y \in Party |-> [z \in Party |->
                IF y \notin Cleaned THEN 0
                ELSE IF z = x /\ Granted(x) THEN passed[y][z] + 1 ELSE passed[y][z]]]

TakeTurn(t, x) ==
  /\ turnRun[t] = None
  /\ ready' = Cleaned \cup {x} /\ ahead' = Ahead(x)
  /\ asked' = [asked EXCEPT ![x] = 0]
  /\ passed' = Passes(x)
  /\ IF Granted(x) THEN /\ turn' = [task |-> t, age |-> 0]
                        /\ turnRun' = [turnRun EXCEPT ![t] = x]
     ELSE UNCHANGED <<turn, turnRun>>
  /\ UNCHANGED fairFaults

\* Mutant: who had a turn keeps the place in the queue.
FinishTurn_Keeps(t) ==
  /\ turnRun[t] # None
  /\ turn' = IF turn.task = t THEN NoTurn ELSE turn
  /\ turnRun' = [turnRun EXCEPT ![t] = None]
  /\ UNCHANGED <<ready, ahead, asked, passed, fairFaults>>

\* finish, whose answer the caller ignores.
FinishTurn(t) ==
  /\ turnRun[t] # None
  /\ IF turn.task = t
     THEN /\ turn' = NoTurn
          /\ ready' = ready \ {turnRun[t]}
          /\ ahead' = [y \in Party |-> IF y = turnRun[t] THEN {} ELSE ahead[y] \ {turnRun[t]}]
     ELSE UNCHANGED <<turn, ready, ahead>>
  /\ turnRun' = [turnRun EXCEPT ![t] = None]
  /\ UNCHANGED <<asked, passed, fairFaults>>

\* The worker is killed, or stalls past its turn.
LoseTurn(t) ==
  /\ turnRun[t] # None /\ fairFaults < MaxCrashes
  /\ fairFaults' = fairFaults + 1
  /\ turnRun' = [turnRun EXCEPT ![t] = None]
  /\ UNCHANGED <<ready, ahead, asked, turn, passed>>

FairStalled == turn.task # None /\ turnRun[turn.task] # None /\ turn.age + 1 = TurnTime

\* Time goes on; the turn's key expires.
FairTicks ==
  /\ asked' = [x \in Party |-> IF Live(x) THEN asked[x] + 1 ELSE Wait]
  /\ turn' = IF turn.task = None THEN turn
             ELSE IF turn.age + 1 = TurnTime THEN NoTurn ELSE [turn EXCEPT !.age = @ + 1]
  /\ IF FairStalled THEN fairFaults < MaxCrashes /\ fairFaults' = fairFaults + 1
     ELSE UNCHANGED fairFaults
  /\ UNCHANGED <<ready, ahead, turnRun, passed>>

FairNext ==
  \/ \E t \in Task : FinishTurn(t) \/ LoseTurn(t) \/ \E x \in Party : TakeTurn(t, x)
  \/ FairTicks

\* The clock goes on and tasks finish; a tenant that still asks will ask when its turn
\* has come.  Nothing is assumed of one that has stopped asking.
FairFairness ==
  /\ WF_fairVars(FairTicks)
  /\ \A t \in Task : WF_fairVars(FinishTurn(t))
  /\ SF_fairVars(\E x \in ready, t \in Task : Live(x) /\ Granted(x) /\ TakeTurn(t, x))

TurnSpec == FairInit /\ [][FairNext]_fairVars /\ FairFairness

-----------------------------------------------------------------------------
(* What must hold.                                                         *)

\* A tenant that waits is passed by every other tenant once, and once more for each
\* turn whose worker was killed or stalled: who has had a turn queues behind all that
\* wait.
PassedOnce ==
  \A x \in ready : \A y \in Party \ {x} : passed[x][y] <= 1 + fairFaults

FairSafe == FairTypeOK /\ PassedOnce

\* A tenant in the queue has a turn in the end, or has stopped asking; a dead tenant at
\* the head does not keep the others waiting (fair_turn.lua).
TurnComes ==
  \A x \in Party : x \in ready ~> ~Live(x) \/ \E t \in Task : turnRun[t] = x
=============================================================================
