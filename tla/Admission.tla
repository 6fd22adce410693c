----------------------------- MODULE Admission -----------------------------
(***************************************************************************)
(* The admission of calls to the platform, which all workers share in      *)
(* Redis: two sorted sets of the calls begun within a window (of the       *)
(* application and of the endpoint) and four of the calls in flight (of    *)
(* the application, the endpoint, the tenant and the account).             *)
(*                                                                         *)
(* One script prunes the six sets of a call, tests them and enters the     *)
(* call in all of them or in none.  A call leaves the sets in flight when  *)
(* it has ended, or its lease runs out: when its process was terminated    *)
(* the remote call may go on, so the lease is kept.                        *)
(*                                                                         *)
(* Time is counted in ticks; every call has a member of its own (lease_id).*)
(***************************************************************************)
EXTENDS Tasks, Integers, FiniteSets

CONSTANTS Call,       \* calls, each admitted once or refused
          RateSet,    \* the sets of calls begun within the window
          FlightSet,  \* the sets of calls in flight
          SetsOf,     \* which sets a call is entered in
          Capacity,   \* the limit of each set
          Window, LeaseOf, Margin,   \* window_ms, the endpoint's lease_ms, the 1000 ms
          MaxClock    \* bound: ticks

Limits == RateSet \cup FlightSet

ASSUME AdmissionOK ==
  /\ IsFiniteSet(Call) /\ IsFiniteSet(Limits) /\ None \notin Nat \cup Call
  /\ SetsOf \in [Call -> SUBSET Limits] /\ RateSet \cap FlightSet = {}
  /\ Capacity \in [Limits -> Nat \ {0}] /\ LeaseOf \in [Call -> Nat \ {0}]
  /\ {Window, Margin} \subseteq Nat \ {0} /\ MaxClock \in Nat

VARIABLES
  clock,
  score,     \* per set and call: the member's score, or None
  keyUntil,  \* per set: when its key expires
  call,      \* waiting, flying (the request may be with the platform), or over
  refusal,   \* the last refusal: when, the delay it named, of which call
  \* observation
  begun      \* when the call was begun

admissionVars == <<clock, score, keyUntil, call, refusal, begun>>

Times == 0 .. MaxClock
Later == Nat

AdmissionTypeOK ==
  /\ clock \in Times
  /\ score \in [Limits -> [Call -> Later \cup {None}]]
  /\ keyUntil \in [Limits -> Later]
  /\ call \in [Call -> {"waiting", "flying", "over"}]
  /\ refusal \in [call : Call \cup {None}, until : Later]
  /\ begun \in [Call -> Times \cup {None}]

AdmissionInit ==
  /\ clock = 0
  /\ score = [k \in Limits |-> [c \in Call |-> None]]
  /\ keyUntil = [k \in Limits |-> 0]
  /\ call = [c \in Call |-> "waiting"]
  /\ refusal = [call |-> None, until |-> 0]
  /\ begun = [c \in Call |-> None]

-----------------------------------------------------------------------------
(* admission.lua                                                           *)

Cutoff(k) == IF k \in RateSet THEN clock - Window ELSE clock

\* The members of a set that pruning leaves, unless the whole key has expired.
Members(k) == IF keyUntil[k] <= clock THEN {}
              ELSE {c \in Call : score[k][c] # None /\ score[k][c] > Cutoff(k)}

Oldest(k) == LET scores == {score[k][c] : c \in Members(k)}
             IN  CHOOSE s \in scores : \A other \in scores : s <= other
Remaining(k) == Oldest(k) - Cutoff(k)

\* Mutant: a set is full when it holds more than its limit.
Full_Over(c) == {k \in SetsOf[c] : Cardinality(Members(k)) > Capacity[k]}
Full(c) == {k \in SetsOf[c] : Cardinality(Members(k)) >= Capacity[k]}

\* The longest of the delays after which a full set has room.
Delay(c) == CHOOSE w \in {Remaining(k) : k \in Full(c)} :
              \A k \in Full(c) : Remaining(k) <= w

\* What the script leaves of the set k for a call that is let in.
Pruned(k) == [d \in Call |-> IF d \in Members(k) THEN score[k][d] ELSE None]
Entered(c, k) == [Pruned(k) EXCEPT ![c] = IF k \in RateSet THEN clock ELSE clock + LeaseOf[c]]

\* A key lives as long as its latest member and a margin.
Latest(k) == LET scores == {score'[k][c] : c \in Call} \ {None}
             IN  CHOOSE s \in scores : \A other \in scores : other <= s
Lives(k) == IF k \in RateSet THEN clock + Window + Margin ELSE Latest(k) + Margin

\* The answer may be lost: then the call is not made, but its members stay.
Admit(c) ==
  /\ call[c] = "waiting" /\ Full(c) = {}
  /\ score' = [k \in Limits |-> IF k \in SetsOf[c] THEN Entered(c, k) ELSE score[k]]
  /\ keyUntil' = [k \in Limits |-> IF k \in SetsOf[c] THEN Lives(k) ELSE keyUntil[k]]
  /\ \/ call' = [call EXCEPT ![c] = "flying"] /\ begun' = [begun EXCEPT ![c] = clock]
     \/ call' = [call EXCEPT ![c] = "over"] /\ UNCHANGED begun
  /\ refusal' = [call |-> None, until |-> 0]
  /\ UNCHANGED clock

Refuse(c) ==
  /\ call[c] = "waiting" /\ Full(c) # {}
  /\ score' = [k \in Limits |-> IF k \in SetsOf[c] THEN Pruned(k) ELSE score[k]]
  /\ refusal' = [call |-> c, until |-> clock + Delay(c)]
  /\ UNCHANGED <<clock, keyUntil, call, begun>>

\* release_call, in the scope's finally block.
Release(c) ==
  /\ call[c] = "flying"
  /\ call' = [call EXCEPT ![c] = "over"]
  /\ score' = [k \in Limits |-> IF k \in FlightSet \cap SetsOf[c]
                               THEN [score[k] EXCEPT ![c] = None] ELSE score[k]]
  /\ UNCHANGED <<clock, keyUntil, refusal, begun>>

\* The process is terminated, or the release fails, and the call ends by itself.
EndUnreleased(c) ==
  /\ call[c] = "flying"
  /\ call' = [call EXCEPT ![c] = "over"]
  /\ UNCHANGED <<clock, score, keyUntil, refusal, begun>>

\* Leases are configured to outlast the timeouts of the call.
ClockTicks ==
  /\ clock < MaxClock
  /\ \A c \in Call : call[c] = "flying" => clock + 1 < begun[c] + LeaseOf[c]
  /\ clock' = clock + 1
  /\ UNCHANGED <<score, keyUntil, call, refusal, begun>>

AdmissionNext ==
  \/ \E c \in Call : Admit(c) \/ Refuse(c) \/ Release(c) \/ EndUnreleased(c)
  \/ ClockTicks

AdmissionSpec == AdmissionInit /\ [][AdmissionNext]_admissionVars

-----------------------------------------------------------------------------
(* What must hold.                                                         *)

\* No limit in flight is exceeded by the calls that may still be with the platform,
\* those of terminated processes included, whatever expires (admission.lua).
FlightsWithinLimits ==
  \A k \in FlightSet :
    Cardinality({c \in Call : call[c] = "flying" /\ k \in SetsOf[c]}) <= Capacity[k]

\* In every window, wherever it begins, no more calls are begun than the rate allows.
RateWithinLimits ==
  \A k \in RateSet, end \in Times :
    Cardinality({c \in Call : /\ k \in SetsOf[c] /\ begun[c] # None
                              /\ end - Window < begun[c] /\ begun[c] <= end}) <= Capacity[k]

\* The delay that a refusal names is long enough: when it has passed and no other call
\* was let in meanwhile, the call is admitted (admit_call, retry_after_ms).
DelayIsEnough ==
  refusal.call # None /\ clock >= refusal.until => Full(refusal.call) = {}

\* What makes it so: a call in flight is a member, a call begun within the window is one,
\* keys outlive their members, and by the time a refusal names every set has room.
CallBooks ==
  \A c \in Call :
    /\ call[c] = "waiting" => begun[c] = None
    /\ begun[c] # None => begun[c] <= clock

FlightBooks ==
  \A k \in FlightSet, c \in Call :
    /\ call[c] = "flying" /\ k \in SetsOf[c] =>
         /\ begun[c] # None /\ score[k][c] = begun[c] + LeaseOf[c] /\ score[k][c] > clock
    /\ score[k][c] # None => score[k][c] + Margin <= keyUntil[k]

RateBooks ==
  \A k \in RateSet, c \in Call :
    k \in SetsOf[c] /\ begun[c] # None /\ begun[c] > clock - Window =>
      score[k][c] = begun[c] /\ begun[c] + Window < keyUntil[k]

MembersWithinLimits == \A k \in Limits : Cardinality(Members(k)) <= Capacity[k]

LeftAt(k, time) ==
  {c \in Call : score[k][c] # None
                /\ score[k][c] > (IF k \in RateSet THEN time - Window ELSE time)}

RoomByThen ==
  refusal.call # None =>
    \A k \in SetsOf[refusal.call] : Cardinality(LeftAt(k, refusal.until)) < Capacity[k]

AdmissionSafe ==
  /\ AdmissionTypeOK /\ FlightsWithinLimits /\ RateWithinLimits /\ DelayIsEnough
  /\ CallBooks /\ FlightBooks /\ RateBooks /\ MembersWithinLimits /\ RoomByThen
=============================================================================
