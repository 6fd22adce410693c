--------------------------- MODULE Tasks_proofs ---------------------------
(* Theorems about the tasks that share one queue and one platform: the     *)
(* admission of calls and their fair turns, for all sets of limits,        *)
(* capacities, leases, windows and margins and any finite number of calls, *)
(* the recovery of a submission, for every number of jobs, tasks and steps *)
(* and every size of a page, and the scan of a listing that changes        *)
(* meanwhile, for any finite set of objects and any rows on a page.        *)
EXTENDS Admission, FairTurn, RecoveryJob, ReconcileScan, Integers, FiniteSetTheorems, SequenceTheorems,
        WellFoundedInduction, TLAPS

--------------------------------------------------------------------------
(* The least and the greatest of scores.                                  *)

LEMMA Least ==
  ASSUME NEW S \in SUBSET Nat, S # {}
  PROVE  \E m \in S : \A x \in S : m <= x
<1>1. PICK m \in S : \A x \in S : <<x, m>> \notin OpToRel(<, Nat)
  BY NatLessThanWellFounded, WFMin
<1>2. \A x \in S : ~(x < m)
  BY <1>1 DEF OpToRel
<1> QED BY <1>2

\* A function on a finite set takes a greatest value: a smallest set without one would
\* have one when an element is taken away.
LEMMA TakesGreatest ==
  ASSUME NEW S, IsFiniteSet(S), S # {}, NEW f \in [S -> Nat]
  PROVE  \E m \in S : \A x \in S : f[x] <= f[m]
<1> DEFINE Has(T) == \E m \in T : \A x \in T : f[x] <= f[m]
           K == {n \in Nat : \E T \in SUBSET S : T # {} /\ Cardinality(T) = n /\ ~Has(T)}
<1>1. \A T \in SUBSET S : IsFiniteSet(T) /\ Cardinality(T) \in Nat
  BY FS_Subset, FS_CardinalityType
<1>2. K = {}
  <2> SUFFICES ASSUME K # {} PROVE FALSE
    OBVIOUS
  <2>1. PICK n \in K : \A k \in K : n <= k
    <3>1. K \in SUBSET Nat
      OBVIOUS
    <3> HIDE DEF K
    <3> QED BY <3>1, Least
  <2>2. PICK T \in SUBSET S : T # {} /\ Cardinality(T) = n /\ ~Has(T)
    OBVIOUS
  <2>3. PICK y \in T : TRUE
    BY <2>2
  <2> DEFINE U == T \ {y}
  <2>4. U \in SUBSET S /\ IsFiniteSet(U) /\ Cardinality(U) \in Nat /\ Cardinality(U) = n - 1
        /\ n \in Nat
    BY <1>1, <2>2, <2>3, FS_RemoveElement
  <2>5. CASE U = {}
    <3>1. \A x \in T : x = y
      BY <2>5
    <3>2. f[y] <= f[y]
      BY <2>2, <2>3
    <3> QED BY <2>2, <2>3, <3>1, <3>2
  <2>6. CASE U # {}
    <3>1. Has(U)
      <4>1. Cardinality(U) \notin K
        <5> HIDE DEF K
        <5> QED BY <2>1, <2>4
      <4> QED BY <2>4, <2>6, <4>1
    <3>2. PICK m \in U : \A x \in U : f[x] <= f[m]
      BY <3>1
    <3>3. /\ \A x \in T : x \in U \/ x = y
          /\ \A x \in T : f[x] \in Nat
          /\ m \in T /\ y \in T
      BY <2>2, <2>3
    <3>4. CASE f[y] <= f[m]
      BY <2>2, <3>2, <3>3, <3>4
    <3>5. CASE f[m] <= f[y]
      <4>1. \A x \in T : f[x] <= f[y]
        BY <3>2, <3>3, <3>5
      <4> QED BY <2>2, <3>3, <4>1
    <3> QED BY <3>3, <3>4, <3>5
  <2> QED BY <2>5, <2>6
<1>3. Cardinality(S) \notin K
  BY <1>2
<1>4. Cardinality(S) \in Nat
  BY <1>1
<1> QED BY <1>3, <1>4

--------------------------------------------------------------------------
(* Members.                                                               *)

LEMMA AreTyped ==
  ASSUME AdmissionTypeOK
  PROVE  /\ clock \in Times /\ clock \in Nat
         /\ score \in [Limits -> [Call -> Nat \cup {None}]]
         /\ \A k \in Limits : keyUntil[k] \in Nat
         /\ \A k \in Limits, c \in Call : score[k][c] # None => score[k][c] \in Nat
         /\ call \in [Call -> {"waiting", "flying", "over"}]
         /\ begun \in [Call -> Times \cup {None}]
         /\ \A c \in Call : begun[c] # None => begun[c] \in Nat
         /\ refusal.call \in Call \cup {None} /\ refusal.until \in Nat
BY AdmissionOK, TasksOK DEF AdmissionTypeOK, Times, Later

LEMMA Constants ==
  /\ Window \in Nat /\ Margin \in Nat /\ Window > 0 /\ Margin > 0
  /\ \A c \in Call : LeaseOf[c] \in Nat /\ LeaseOf[c] > 0 /\ SetsOf[c] \in SUBSET Limits
  /\ \A k \in Limits : Capacity[k] \in Nat /\ Capacity[k] > 0
  /\ IsFiniteSet(Call) /\ IsFiniteSet(Limits) /\ None \notin Nat /\ None \notin Call
  /\ RateSet \subseteq Limits /\ FlightSet \subseteq Limits
  /\ \A k \in Limits : k \in RateSet <=> k \notin FlightSet
BY AdmissionOK DEF Limits

LEMMA CallsAreFinite ==
  ASSUME NEW S \in SUBSET Call
  PROVE  /\ IsFiniteSet(S) /\ Cardinality(S) \in Nat
         /\ \A T \in SUBSET S : /\ IsFiniteSet(T) /\ Cardinality(T) \in Nat
                                /\ Cardinality(T) <= Cardinality(S)
BY Constants, FS_Subset, FS_CardinalityType

LEMMA MembersAre ==
  ASSUME AdmissionTypeOK, NEW k \in Limits
  PROVE  /\ Members(k) \in SUBSET Call
         /\ Cutoff(k) \in Int
         /\ Cutoff(k) = IF k \in RateSet THEN clock - Window ELSE clock
         /\ \A c \in Members(k) : /\ score[k][c] \in Nat /\ score[k][c] # None
                                  /\ score[k][c] > Cutoff(k) /\ keyUntil[k] > clock
         /\ \A c \in Call : /\ score[k][c] # None /\ score[k][c] > Cutoff(k)
                            /\ keyUntil[k] > clock
                            => c \in Members(k)
BY AreTyped, Constants DEF Members, Cutoff

\* Of a full set, the oldest member determines when it has room.
LEMMA OldestIs ==
  ASSUME AdmissionTypeOK, NEW k \in Limits, Members(k) # {}
  PROVE  \E c \in Members(k) : Oldest(k) = score[k][c] /\ Remaining(k) \in Nat
                               /\ Remaining(k) = score[k][c] - Cutoff(k)
<1> DEFINE S == {score[k][c] : c \in Members(k)}
<1>1. S \in SUBSET Nat /\ S # {}
  BY MembersAre
<1>2. Oldest(k) \in S
  <2>1. \E s \in S : \A other \in S : s <= other
    <3> HIDE DEF S
    <3> QED BY <1>1, Least
  <2> QED BY <2>1 DEF Oldest
<1>3. PICK c \in Members(k) : Oldest(k) = score[k][c]
  BY <1>2
<1> QED BY <1>3, MembersAre DEF Remaining

\* The delay is the longest of those of the full sets.
LEMMA DelayIs ==
  ASSUME AdmissionTypeOK, NEW c \in Call, Full(c) # {}
  PROVE  Delay(c) \in Nat /\ \A k \in Full(c) : Remaining(k) <= Delay(c)
<1>1. \A k \in Full(c) : k \in Limits /\ Members(k) # {}
  <2>1. SetsOf[c] \in SUBSET Limits
    BY Constants
  <2>2. ASSUME NEW k \in Full(c) PROVE k \in Limits /\ Members(k) # {}
    <3>1. k \in Limits /\ Cardinality(Members(k)) >= Capacity[k] /\ Capacity[k] \in Nat
          /\ Capacity[k] > 0
      BY <2>1, Constants DEF Full
    <3> QED BY <3>1, FS_EmptySet
  <2> QED BY <2>2
<1> DEFINE f == [k \in Full(c) |-> Remaining(k)]
<1>2. f \in [Full(c) -> Nat]
  BY <1>1, OldestIs
<1>3. IsFiniteSet(Full(c))
  <2>1. Full(c) \in SUBSET Limits
    BY <1>1
  <2> QED BY <2>1, Constants, FS_Subset
<1>4. \E m \in Full(c) : \A k \in Full(c) : f[k] <= f[m]
  <2> HIDE DEF f
  <2> QED BY <1>2, <1>3, TakesGreatest
<1>5. \E w \in {Remaining(k) : k \in Full(c)} : \A k \in Full(c) : Remaining(k) <= w
  BY <1>4
<1>6. Delay(c) \in {Remaining(k) : k \in Full(c)} /\ \A k \in Full(c) : Remaining(k) <= Delay(c)
  BY <1>5 DEF Delay
<1> QED BY <1>2, <1>6

--------------------------------------------------------------------------
(* What a step may do to a set.                                           *)

\* Nothing is entered in the set.
Shrinks(k) ==
  /\ keyUntil'[k] = keyUntil[k]
  /\ \A c \in Call : score'[k][c] = score[k][c] \/ score'[k][c] = None

\* Time goes on, and a call begins now or began before.
TimeGoesOn ==
  /\ clock' >= clock
  /\ \A c \in Call : begun'[c] = begun[c] \/ (begun[c] = None /\ begun'[c] = clock')

LEMMA ShrinkingMembers ==
  ASSUME AdmissionTypeOK, AdmissionTypeOK', TimeGoesOn, NEW k \in Limits, Shrinks(k)
  PROVE  Members(k)' \subseteq Members(k)
<1>1. clock \in Nat /\ clock' \in Nat /\ keyUntil[k] \in Nat /\ clock' >= clock
  BY AreTyped DEF AdmissionTypeOK, Times, TimeGoesOn
<1>2. SUFFICES ASSUME NEW c \in Members(k)' PROVE c \in Members(k)
  OBVIOUS
<1>3. /\ c \in Call /\ score'[k][c] # None /\ keyUntil'[k] > clock'
      /\ score'[k][c] > (IF k \in RateSet THEN clock' - Window ELSE clock')
      /\ score'[k][c] \in Nat
  <2>1. c \in Call /\ score'[k][c] # None /\ score'[k][c] > Cutoff(k)' /\ ~(keyUntil'[k] <= clock')
    BY <1>2 DEF Members
  <2>2. score'[k][c] \in Nat /\ keyUntil'[k] \in Nat
    BY <2>1 DEF AdmissionTypeOK, Later
  <2> QED BY <1>1, <2>1, <2>2 DEF Cutoff
<1>4. score[k][c] = score'[k][c] /\ keyUntil[k] > clock
  BY <1>1, <1>3 DEF Shrinks
<1>5. score[k][c] > (IF k \in RateSet THEN clock - Window ELSE clock)
  BY <1>1, <1>3, <1>4, Constants
<1> QED BY <1>3, <1>4, <1>5, MembersAre

LEMMA MembersStayWithin ==
  ASSUME AdmissionSafe, AdmissionTypeOK', TimeGoesOn, \A k \in Limits : Shrinks(k)
  PROVE  MembersWithinLimits'
<1> SUFFICES ASSUME NEW k \in Limits PROVE Cardinality(Members(k)') <= Capacity[k]
  BY DEF MembersWithinLimits
<1>1. Members(k)' \subseteq Members(k)
  BY ShrinkingMembers DEF AdmissionSafe
<1>2. Members(k) \in SUBSET Call
  BY MembersAre DEF AdmissionSafe
<1>3. /\ Cardinality(Members(k)') <= Cardinality(Members(k))
      /\ Cardinality(Members(k)') \in Nat /\ Cardinality(Members(k)) \in Nat
  BY <1>1, <1>2, CallsAreFinite
<1>4. Cardinality(Members(k)) <= Capacity[k] /\ Capacity[k] \in Nat
  BY Constants DEF AdmissionSafe, MembersWithinLimits
<1> QED BY <1>3, <1>4

LEMMA RoomStays ==
  ASSUME AdmissionSafe, AdmissionTypeOK', refusal' = refusal, \A k \in Limits : Shrinks(k)
  PROVE  RoomByThen'
<1> SUFFICES ASSUME refusal.call # None, NEW k \in SetsOf[refusal.call]
             PROVE  Cardinality(LeftAt(k, refusal.until)') < Capacity[k]
  BY DEF RoomByThen
<1>1. k \in Limits
  BY AreTyped, Constants DEF AdmissionSafe
<1>2. LeftAt(k, refusal.until)' \subseteq LeftAt(k, refusal.until)
  BY <1>1 DEF LeftAt, Shrinks
<1>3. LeftAt(k, refusal.until) \in SUBSET Call
  BY DEF LeftAt
<1> DEFINE L == LeftAt(k, refusal.until)
           M == LeftAt(k, refusal.until)'
<1>4. Cardinality(M) <= Cardinality(L) /\ Cardinality(M) \in Nat /\ Cardinality(L) \in Nat
  <2> HIDE DEF L, M
  <2>1. L \in SUBSET Call /\ M \in SUBSET L
    BY <1>2, <1>3 DEF L, M
  <2> QED BY <2>1, CallsAreFinite
<1>5. Cardinality(L) < Capacity[k] /\ Capacity[k] \in Nat
  BY <1>1, Constants DEF AdmissionSafe, RoomByThen
<1> QED BY <1>4, <1>5

\* What follows from the rest of the invariant.
LEMMA FlightsHold ==
  ASSUME AdmissionTypeOK', FlightBooks', MembersWithinLimits' PROVE FlightsWithinLimits'
<1> SUFFICES ASSUME NEW k \in FlightSet
             PROVE  Cardinality({c \in Call : call'[c] = "flying" /\ k \in SetsOf[c]}) <= Capacity[k]
  BY DEF FlightsWithinLimits
<1> DEFINE F == {c \in Call : call'[c] = "flying" /\ k \in SetsOf[c]}
<1>1. k \in Limits /\ k \notin RateSet /\ Capacity[k] \in Nat
  BY Constants
<1>2. clock' \in Nat /\ keyUntil'[k] \in Nat
  BY <1>1 DEF AdmissionTypeOK, Times, Later
<1>3. \A c \in F : c \in Members(k)'
  <2>1. ASSUME NEW c \in F PROVE c \in Members(k)'
    <3>1. c \in Call /\ score'[k][c] # None /\ score'[k][c] > clock'
          /\ score'[k][c] + Margin <= keyUntil'[k] /\ score'[k][c] \in Nat
      <4>1. begun'[c] # None /\ score'[k][c] = begun'[c] + LeaseOf[c] /\ score'[k][c] > clock'
        BY DEF FlightBooks
      <4>2. begun'[c] \in Nat /\ LeaseOf[c] \in Nat
        BY <4>1, Constants DEF AdmissionTypeOK, Times
      <4>3. score'[k][c] \in Nat
        BY <4>1, <4>2
      <4>4. score'[k][c] # None
        BY <4>3, Constants
      <4> QED BY <4>1, <4>3, <4>4 DEF FlightBooks
    <3>2. ~(keyUntil'[k] <= clock')
      BY <1>2, <3>1, Constants
    <3> QED BY <1>1, <3>1, <3>2 DEF Members, Cutoff
  <2> QED BY <2>1
<1>4. Members(k)' \in SUBSET Call
  BY DEF Members
<1>5. F \in SUBSET (Members(k)')
  BY <1>3
<1>6. Cardinality(F) <= Cardinality(Members(k)') /\ Cardinality(F) \in Nat
      /\ Cardinality(Members(k)') \in Nat
  <2> HIDE DEF F
  <2> QED BY <1>4, <1>5, CallsAreFinite
<1>7. Cardinality(Members(k)') <= Capacity[k]
  BY <1>1 DEF MembersWithinLimits
<1> QED BY <1>1, <1>6, <1>7

LEMMA RatesHold ==
  ASSUME AdmissionSafe, AdmissionTypeOK', CallBooks', RateBooks', MembersWithinLimits', TimeGoesOn
  PROVE  RateWithinLimits'
<1> SUFFICES ASSUME NEW k \in RateSet, NEW end \in Times
             PROVE  Cardinality({c \in Call : /\ k \in SetsOf[c] /\ begun'[c] # None
                                              /\ end - Window < begun'[c] /\ begun'[c] <= end})
                      <= Capacity[k]
  BY DEF RateWithinLimits
<1> DEFINE B == {c \in Call : /\ k \in SetsOf[c] /\ begun'[c] # None
                              /\ end - Window < begun'[c] /\ begun'[c] <= end}
<1>1. /\ k \in Limits /\ Capacity[k] \in Nat /\ clock' \in Nat /\ end \in Nat
      /\ keyUntil'[k] \in Nat /\ clock \in Nat
      /\ \A c \in Call : begun'[c] # None => begun'[c] \in Nat
  BY Constants, AdmissionOK, TasksOK DEF AdmissionTypeOK, Times, Later, AdmissionSafe
<1>2. CASE end < clock'
  <2>1. \A c \in Call : begun'[c] # None /\ begun'[c] <= end => begun'[c] = begun[c]
    BY <1>1, <1>2 DEF TimeGoesOn
  <2>2. B \subseteq {c \in Call : /\ k \in SetsOf[c] /\ begun[c] # None
                                  /\ end - Window < begun[c] /\ begun[c] <= end}
    BY <2>1
  <2> DEFINE A == {c \in Call : /\ k \in SetsOf[c] /\ begun[c] # None
                                /\ end - Window < begun[c] /\ begun[c] <= end}
  <2>3. Cardinality(A) <= Capacity[k]
    BY DEF AdmissionSafe, RateWithinLimits
  <2>4. A \in SUBSET Call /\ B \in SUBSET A
    BY <2>2
  <2> HIDE DEF A, B
  <2>5. Cardinality(B) <= Cardinality(A) /\ Cardinality(A) \in Nat /\ Cardinality(B) \in Nat
    BY <2>4, CallsAreFinite
  <2>6. Cardinality(B) <= Capacity[k]
    BY <1>1, <2>3, <2>5
  <2> QED BY <2>6 DEF B
<1>3. CASE end >= clock'
  <2>1. \A c \in B : c \in Members(k)'
    <3>1. ASSUME NEW c \in B PROVE c \in Members(k)'
      <4>1. c \in Call /\ k \in SetsOf[c] /\ begun'[c] # None /\ begun'[c] \in Nat
            /\ begun'[c] > clock' - Window
        BY <1>1, <1>3, Constants
      <4>2. score'[k][c] = begun'[c] /\ begun'[c] + Window < keyUntil'[k]
        BY <4>1 DEF RateBooks
      <4>3. ~(keyUntil'[k] <= clock')
        BY <1>1, <4>1, <4>2, Constants
      <4>4. score'[k][c] # None /\ score'[k][c] > clock' - Window
        BY <4>1, <4>2
      <4> QED BY <4>1, <4>3, <4>4 DEF Members, Cutoff
    <3> QED BY <3>1
  <2>2. Members(k)' \in SUBSET Call
    BY DEF Members
  <2>3. B \in SUBSET (Members(k)')
    BY <2>1
  <2> HIDE DEF B
  <2>4. Cardinality(B) <= Cardinality(Members(k)') /\ Cardinality(B) \in Nat
        /\ Cardinality(Members(k)') \in Nat
    BY <2>2, <2>3, CallsAreFinite
  <2>5. Cardinality(Members(k)') <= Capacity[k]
    BY <1>1 DEF MembersWithinLimits
  <2>6. Cardinality(B) <= Capacity[k]
    BY <1>1, <2>4, <2>5
  <2> QED BY <2>6 DEF B
<1> QED BY <1>1, <1>2, <1>3

LEMMA DelaysHold ==
  ASSUME AdmissionTypeOK', RoomByThen' PROVE DelayIsEnough'
<1> SUFFICES ASSUME refusal'.call # None, clock' >= refusal'.until,
                    NEW k \in SetsOf[refusal'.call],
                    Cardinality(Members(k)') >= Capacity[k]
             PROVE  FALSE
  BY DEF DelayIsEnough, Full
<1>1. /\ k \in Limits /\ Capacity[k] \in Nat /\ clock' \in Nat /\ refusal'.until \in Nat
      /\ \A c \in Call : score'[k][c] # None => score'[k][c] \in Nat
  <2>1. refusal'.call \in Call /\ refusal'.until \in Nat
    BY DEF AdmissionTypeOK, Later
  <2>2. k \in Limits
    BY <2>1, Constants
  <2> QED BY <2>1, <2>2, Constants DEF AdmissionTypeOK, Times, Later
<1> DEFINE L == LeftAt(k, refusal.until)'
<1>2. \A c \in Members(k)' : c \in L
  BY <1>1, Constants DEF Members, Cutoff, LeftAt
<1>3. L \in SUBSET Call /\ Cardinality(L) < Capacity[k]
  BY DEF LeftAt, RoomByThen
<1> HIDE DEF L
<1>4. Cardinality(Members(k)') <= Cardinality(L) /\ Cardinality(Members(k)') \in Nat
      /\ Cardinality(L) \in Nat
  <2>1. Members(k)' \in SUBSET L
    BY <1>2
  <2> QED BY <1>3, <2>1, CallsAreFinite
<1> QED BY <1>1, <1>3, <1>4

LEMMA AllHold ==
  ASSUME AdmissionSafe, AdmissionTypeOK', CallBooks', FlightBooks', RateBooks',
         MembersWithinLimits', RoomByThen', TimeGoesOn
  PROVE  AdmissionSafe'
BY FlightsHold, RatesHold, DelaysHold DEF AdmissionSafe

--------------------------------------------------------------------------
(* One lemma for each operation.                                          *)

LEMMA EndIsSafe ==
  ASSUME AdmissionSafe, NEW c \in Call, EndUnreleased(c) PROVE AdmissionSafe'
<1>1. /\ call[c] = "flying" /\ call' = [call EXCEPT ![c] = "over"]
      /\ UNCHANGED <<clock, score, keyUntil, refusal, begun>>
  BY DEF EndUnreleased
<1>2. AdmissionTypeOK'
  BY <1>1 DEF AdmissionSafe, AdmissionTypeOK
<1>3. TimeGoesOn /\ \A k \in Limits : Shrinks(k)
  BY <1>1, AreTyped DEF AdmissionSafe, TimeGoesOn, Shrinks
<1>4. MembersWithinLimits' /\ RoomByThen'
  BY <1>1, <1>2, <1>3, MembersStayWithin, RoomStays
<1>5. \A d \in Call : call'[d] \in {"waiting", "flying"} => call'[d] = call[d]
  BY <1>1, AreTyped DEF AdmissionSafe
<1>6. CallBooks' /\ FlightBooks' /\ RateBooks'
  BY <1>1, <1>5 DEF AdmissionSafe, CallBooks, FlightBooks, RateBooks
<1> QED BY <1>2, <1>3, <1>4, <1>6, AllHold

LEMMA TickIsSafe ==
  ASSUME AdmissionSafe, ClockTicks PROVE AdmissionSafe'
<1>1. /\ clock < MaxClock /\ clock' = clock + 1
      /\ \A c \in Call : call[c] = "flying" => clock + 1 < begun[c] + LeaseOf[c]
      /\ UNCHANGED <<score, keyUntil, call, refusal, begun>>
  BY DEF ClockTicks
<1>2. clock \in Nat /\ clock' \in Times
  BY <1>1, AreTyped, AdmissionOK DEF AdmissionSafe, Times
<1>3. AdmissionTypeOK'
  BY <1>1, <1>2 DEF AdmissionSafe, AdmissionTypeOK
<1>4. TimeGoesOn /\ \A k \in Limits : Shrinks(k)
  BY <1>1, <1>2 DEF TimeGoesOn, Shrinks
<1>5. MembersWithinLimits' /\ RoomByThen'
  BY <1>1, <1>3, <1>4, MembersStayWithin, RoomStays
<1>6. CallBooks'
  BY <1>1, <1>2, AreTyped DEF AdmissionSafe, CallBooks
<1>7. FlightBooks'
  BY <1>1 DEF AdmissionSafe, FlightBooks
<1>8. RateBooks'
  <2>1. \A c \in Call : begun[c] # None /\ begun[c] > clock' - Window => begun[c] > clock - Window
    BY <1>1, <1>2, AreTyped, Constants DEF AdmissionSafe
  <2> QED BY <1>1, <2>1 DEF AdmissionSafe, RateBooks
<1> QED BY <1>3, <1>4, <1>5, <1>6, <1>7, <1>8, AllHold

LEMMA ReleaseIsSafe ==
  ASSUME AdmissionSafe, NEW c \in Call, Release(c) PROVE AdmissionSafe'
<1>1. /\ call[c] = "flying" /\ call' = [call EXCEPT ![c] = "over"]
      /\ score' = [k \in Limits |-> IF k \in FlightSet \cap SetsOf[c]
                                    THEN [score[k] EXCEPT ![c] = None] ELSE score[k]]
      /\ UNCHANGED <<clock, keyUntil, refusal, begun>>
  BY DEF Release
<1>2. /\ \A k \in Limits, d \in Call :
           score'[k][d] = IF k \in FlightSet /\ d = c /\ k \in SetsOf[c] THEN None ELSE score[k][d]
      /\ score' \in [Limits -> [Call -> Nat \cup {None}]]
  BY <1>1, AreTyped DEF AdmissionSafe
<1>3. AdmissionTypeOK'
  BY <1>1, <1>2 DEF AdmissionSafe, AdmissionTypeOK, Later
<1>4. TimeGoesOn /\ \A k \in Limits : Shrinks(k)
  BY <1>1, <1>2, AreTyped DEF AdmissionSafe, TimeGoesOn, Shrinks
<1>5. MembersWithinLimits' /\ RoomByThen'
  BY <1>1, <1>3, <1>4, MembersStayWithin, RoomStays
<1>6. \A d \in Call : call'[d] \in {"waiting", "flying"} => call'[d] = call[d] /\ d # c
  BY <1>1, AreTyped DEF AdmissionSafe
<1>7. CallBooks'
  BY <1>1, <1>6 DEF AdmissionSafe, CallBooks
<1>8. FlightBooks'
  BY <1>1, <1>2, <1>6, Constants DEF AdmissionSafe, FlightBooks
<1>9. RateBooks'
  BY <1>1, <1>2, Constants DEF AdmissionSafe, RateBooks
<1> QED BY <1>3, <1>4, <1>5, <1>7, <1>8, <1>9, AllHold

\* Pruning takes no member away.
LEMMA PrunedIs ==
  ASSUME AdmissionTypeOK, NEW k \in Limits
  PROVE  /\ Pruned(k) \in [Call -> Nat \cup {None}]
         /\ \A c \in Call : Pruned(k)[c] = IF c \in Members(k) THEN score[k][c] ELSE None
BY MembersAre DEF Pruned

\* What a step that prunes sets keeps.
LEMMA FlyingAreMembers ==
  ASSUME AdmissionSafe, NEW k \in FlightSet, NEW c \in Call, call[c] = "flying", k \in SetsOf[c]
  PROVE  c \in Members(k)
<1>1. k \in Limits /\ k \notin RateSet
  BY Constants
<1>2. begun[c] \in Nat /\ score[k][c] = begun[c] + LeaseOf[c] /\ score[k][c] > clock
  BY AreTyped DEF AdmissionSafe, FlightBooks
<1>3. score[k][c] \in Nat /\ score[k][c] # None
  BY <1>2, Constants
<1>4. score[k][c] + Margin <= keyUntil[k]
  BY <1>3 DEF AdmissionSafe, FlightBooks
<1>5. keyUntil[k] > clock
  BY <1>1, <1>2, <1>3, <1>4, Constants, AreTyped DEF AdmissionSafe
<1> QED BY <1>1, <1>2, <1>3, <1>5, MembersAre DEF AdmissionSafe

LEMMA RecentAreMembers ==
  ASSUME AdmissionSafe, NEW k \in RateSet, NEW c \in Call, k \in SetsOf[c],
         begun[c] # None, begun[c] > clock - Window
  PROVE  c \in Members(k) /\ score[k][c] = begun[c] /\ begun[c] \in Nat
<1>1. k \in Limits /\ begun[c] \in Nat /\ keyUntil[k] \in Nat /\ clock \in Nat
  BY Constants, AreTyped DEF AdmissionSafe
<1>2. score[k][c] = begun[c] /\ begun[c] + Window < keyUntil[k]
  BY DEF AdmissionSafe, RateBooks
<1>3. keyUntil[k] > clock
  BY <1>1, <1>2, Constants
<1> QED BY <1>1, <1>2, <1>3, MembersAre DEF AdmissionSafe

LEMMA RefuseIsSafe ==
  ASSUME AdmissionSafe, NEW c \in Call, Refuse(c) PROVE AdmissionSafe'
<1> DEFINE u == clock + Delay(c)
<1>1. /\ Full(c) # {}
      /\ score' = [k \in Limits |-> IF k \in SetsOf[c] THEN Pruned(k) ELSE score[k]]
      /\ refusal' = [call |-> c, until |-> u]
      /\ UNCHANGED <<clock, keyUntil, call, begun>>
  BY DEF Refuse
<1>2. AdmissionTypeOK /\ clock \in Nat
  BY AreTyped DEF AdmissionSafe
<1>3. Delay(c) \in Nat /\ u \in Nat /\ \A k \in Full(c) : Remaining(k) <= Delay(c)
  BY <1>1, <1>2, DelayIs
<1>4. /\ \A k \in Limits : score'[k] = IF k \in SetsOf[c] THEN Pruned(k) ELSE score[k]
      /\ score' \in [Limits -> [Call -> Nat \cup {None}]]
  BY <1>1, <1>2, PrunedIs, AreTyped
<1>5. AdmissionTypeOK'
  BY <1>1, <1>2, <1>3, <1>4 DEF AdmissionTypeOK, Later
<1>6. \A k \in Limits, d \in Call :
        \/ score'[k][d] = score[k][d]
        \/ score'[k][d] = None /\ k \in SetsOf[c] /\ d \notin Members(k)
  BY <1>2, <1>4, PrunedIs
<1>7. TimeGoesOn /\ \A k \in Limits : Shrinks(k)
  BY <1>1, <1>2, <1>6 DEF TimeGoesOn, Shrinks
<1>8. MembersWithinLimits'
  BY <1>5, <1>7, MembersStayWithin
<1>9. CallBooks'
  BY <1>1 DEF AdmissionSafe, CallBooks
<1>10. FlightBooks'
  <2>1. ASSUME NEW k \in FlightSet, NEW d \in Call
        PROVE  /\ call'[d] = "flying" /\ k \in SetsOf[d] =>
                    /\ begun'[d] # None /\ score'[k][d] = begun'[d] + LeaseOf[d]
                    /\ score'[k][d] > clock'
               /\ score'[k][d] # None => score'[k][d] + Margin <= keyUntil'[k]
    <3>1. call[d] = "flying" /\ k \in SetsOf[d] => score'[k][d] = score[k][d]
      BY <1>6, FlyingAreMembers, Constants
    <3>2. score'[k][d] = score[k][d] \/ score'[k][d] = None
      BY <1>6, Constants
    <3> QED BY <1>1, <3>1, <3>2 DEF AdmissionSafe, FlightBooks
  <2> QED BY <2>1 DEF FlightBooks
<1>11. RateBooks'
  <2>1. ASSUME NEW k \in RateSet, NEW d \in Call, k \in SetsOf[d], begun[d] # None,
               begun[d] > clock - Window
        PROVE  score'[k][d] = begun[d] /\ begun[d] + Window < keyUntil[k]
    <3>1. d \in Members(k) /\ score[k][d] = begun[d]
      BY <2>1, RecentAreMembers
    <3>2. begun[d] + Window < keyUntil[k]
      BY <2>1 DEF AdmissionSafe, RateBooks
    <3> QED BY <1>6, <3>1, <3>2, Constants
  <2> QED BY <1>1, <2>1 DEF RateBooks
<1>12. RoomByThen'
  <2>1. ASSUME NEW k \in SetsOf[c]
        PROVE  Cardinality({d \in Call :
                 /\ score'[k][d] # None
                 /\ score'[k][d] > (IF k \in RateSet THEN u - Window ELSE u)}) < Capacity[k]
    <3> DEFINE time == IF k \in RateSet THEN u - Window ELSE u
               L == {d \in Call : score'[k][d] # None /\ score'[k][d] > time}
    <3>1. k \in Limits /\ Capacity[k] \in Nat /\ Members(k) \in SUBSET Call /\ Cutoff(k) \in Int
      BY <1>2, Constants, MembersAre
    <3>2. L = {d \in Members(k) : score[k][d] > time}
      <4>1. \A d \in Call : score'[k][d] = IF d \in Members(k) THEN score[k][d] ELSE None
        BY <1>2, <1>4, <3>1, PrunedIs
      <4> QED BY <1>2, <3>1, <4>1, MembersAre
    <3>3. time = Cutoff(k) + Delay(c)
      BY <1>2, <1>3, <3>1, Constants, MembersAre
    <3>4. L \in SUBSET Members(k)
      BY <3>2
    <3> HIDE DEF L, time
    <3>5. /\ Cardinality(L) \in Nat /\ Cardinality(Members(k)) \in Nat
          /\ Cardinality(L) <= Cardinality(Members(k))
      BY <3>1, <3>4, CallsAreFinite
    <3>6. CASE k \notin Full(c)
      <4>1. ~(Cardinality(Members(k)) >= Capacity[k])
        BY <3>6 DEF Full
      <4> QED BY <3>1, <3>5, <4>1 DEF L, time
    <3>7. CASE k \in Full(c)
      <4>1. Cardinality(Members(k)) >= Capacity[k] /\ Members(k) # {}
        <5>1. Cardinality(Members(k)) >= Capacity[k] /\ Capacity[k] > 0
          BY <3>1, <3>7, Constants DEF Full
        <5> QED BY <3>1, <5>1, FS_EmptySet
      <4>2. PICK d \in Members(k) : Oldest(k) = score[k][d] /\ Remaining(k) \in Nat
                                    /\ Remaining(k) = score[k][d] - Cutoff(k)
        BY <1>2, <3>1, <4>1, OldestIs
      <4>3. score[k][d] \in Nat /\ Remaining(k) <= Delay(c)
        BY <1>2, <1>3, <3>1, <3>7, <4>2, MembersAre
      <4>4. d \notin L
        BY <1>3, <3>1, <3>2, <3>3, <4>2, <4>3
      <4>5. Cardinality(Members(k)) <= Capacity[k]
        BY <3>1 DEF AdmissionSafe, MembersWithinLimits
      <4>6. Cardinality(Members(k) \ {d}) = Cardinality(Members(k)) - 1
        BY <3>1, <4>2, CallsAreFinite, FS_RemoveElement
      <4>7. /\ Cardinality(L) <= Cardinality(Members(k) \ {d})
            /\ Cardinality(Members(k) \ {d}) \in Nat
        <5>1. L \in SUBSET (Members(k) \ {d}) /\ (Members(k) \ {d}) \in SUBSET Call
          BY <3>1, <3>4, <4>4
        <5> QED BY <5>1, CallsAreFinite
      <4> QED BY <3>1, <3>5, <4>5, <4>6, <4>7 DEF L, time
    <3> QED BY <3>6, <3>7
  <2>2. refusal'.call = c /\ refusal'.until = u
    BY <1>1
  <2>3. \A k \in SetsOf[c] : Cardinality(LeftAt(k, refusal.until)') < Capacity[k]
    BY <1>1, <2>1, <2>2 DEF LeftAt
  <2> QED BY <2>2, <2>3 DEF RoomByThen
<1> QED BY <1>5, <1>7, <1>8, <1>9, <1>10, <1>11, <1>12, AllHold

LEMMA LatestIs ==
  ASSUME NEW k \in Limits, score'[k] \in [Call -> Nat \cup {None}],
         NEW c \in Call, score'[k][c] # None
  PROVE  /\ Latest(k) \in Nat
         /\ \A d \in Call : score'[k][d] # None => score'[k][d] <= Latest(k)
<1> DEFINE D == {d \in Call : score'[k][d] # None}
           f == [d \in D |-> score'[k][d]]
           S == {score'[k][d] : d \in Call} \ {None}
<1>1. IsFiniteSet(D) /\ D # {} /\ f \in [D -> Nat]
  <2>1. D \in SUBSET Call /\ c \in D
    OBVIOUS
  <2>2. IsFiniteSet(D)
    <3> HIDE DEF D
    <3> QED BY <2>1, CallsAreFinite
  <2> QED BY <2>1, <2>2
<1>2. PICK m \in D : \A d \in D : f[d] <= f[m]
  <2> HIDE DEF D, f
  <2> QED BY <1>1, TakesGreatest
<1>3. /\ score'[k][m] \in S
      /\ \A s \in S : s <= score'[k][m]
  BY <1>2
<1>4. Latest(k) \in S /\ \A s \in S : s <= Latest(k)
  BY <1>3 DEF Latest
<1>5. S \in SUBSET Nat
  OBVIOUS
<1> QED BY <1>4, <1>5

LEMMA AdmitIsSafe ==
  ASSUME AdmissionSafe, NEW c \in Call, Admit(c) PROVE AdmissionSafe'
<1>1. /\ call[c] = "waiting" /\ Full(c) = {}
      /\ score' = [k \in Limits |-> IF k \in SetsOf[c] THEN Entered(c, k) ELSE score[k]]
      /\ keyUntil' = [k \in Limits |-> IF k \in SetsOf[c] THEN Lives(k) ELSE keyUntil[k]]
      /\ \/ call' = [call EXCEPT ![c] = "flying"] /\ begun' = [begun EXCEPT ![c] = clock]
         \/ call' = [call EXCEPT ![c] = "over"] /\ UNCHANGED begun
      /\ refusal' = [call |-> None, until |-> 0]
      /\ UNCHANGED clock
  BY DEF Admit
<1>2. AdmissionTypeOK /\ clock \in Nat /\ clock \in Times /\ begun[c] = None
  BY <1>1, AreTyped DEF AdmissionSafe, CallBooks
<1> DEFINE entry(k) == IF k \in RateSet THEN clock ELSE clock + LeaseOf[c]
<1>3. \A k \in Limits : entry(k) \in Nat /\ entry(k) # None /\ entry(k) >= clock
                        /\ (k \notin RateSet => entry(k) > clock)
  BY <1>2, Constants
<1>4. \A k \in Limits : /\ Entered(c, k) \in [Call -> Nat \cup {None}]
                        /\ Entered(c, k)[c] = entry(k)
                        /\ \A d \in Call \ {c} : Entered(c, k)[d] = Pruned(k)[d]
  BY <1>2, <1>3, PrunedIs DEF Entered
<1> HIDE DEF entry
<1>5. score' \in [Limits -> [Call -> Nat \cup {None}]]
  BY <1>1, <1>2, <1>4, AreTyped
<1>6. \A k \in SetsOf[c] :
        /\ k \in Limits /\ score'[k][c] = entry(k)
        /\ \A d \in Call \ {c} :
             score'[k][d] = IF d \in Members(k) THEN score[k][d] ELSE None
  BY <1>1, <1>2, <1>4, PrunedIs, Constants
<1>7. \A k \in Limits \ SetsOf[c] : score'[k] = score[k] /\ keyUntil'[k] = keyUntil[k]
  BY <1>1
<1>8. \A k \in SetsOf[c] :
        /\ keyUntil'[k] \in Nat
        /\ k \in RateSet => keyUntil'[k] = clock + Window + Margin
        /\ k \notin RateSet => \A d \in Call : score'[k][d] # None =>
                                 score'[k][d] + Margin <= keyUntil'[k]
  <2> SUFFICES ASSUME NEW k \in SetsOf[c]
               PROVE  /\ keyUntil'[k] \in Nat
                      /\ k \in RateSet => keyUntil'[k] = clock + Window + Margin
                      /\ k \notin RateSet => \A d \in Call : score'[k][d] # None =>
                                               score'[k][d] + Margin <= keyUntil'[k]
    OBVIOUS
  <2>1. keyUntil'[k] = Lives(k) /\ k \in Limits
    BY <1>1, <1>6
  <2>2. CASE k \in RateSet
    BY <1>2, <2>1, <2>2, Constants DEF Lives
  <2>3. CASE k \notin RateSet
    <3>1. keyUntil'[k] = Latest(k) + Margin
      BY <2>1, <2>3 DEF Lives
    <3>2. /\ Latest(k) \in Nat
          /\ \A d \in Call : score'[k][d] # None => score'[k][d] <= Latest(k)
      BY <1>3, <1>5, <1>6, <2>1, LatestIs
    <3>3. \A d \in Call : score'[k][d] # None => score'[k][d] \in Nat
      BY <1>5, <2>1
    <3> QED BY <2>3, <3>1, <3>2, <3>3, Constants
  <2> QED BY <2>2, <2>3
<1>9. AdmissionTypeOK'
  <2>1. keyUntil' \in [Limits -> Nat]
    <3>1. keyUntil \in [Limits -> Nat]
      BY <1>2 DEF AdmissionTypeOK, Later
    <3>2. \A k \in Limits : keyUntil'[k] \in Nat
      BY <1>7, <1>8, <3>1
    <3> QED BY <1>1, <3>2
  <2>2. call' \in [Call -> {"waiting", "flying", "over"}]
    BY <1>1, <1>2, AreTyped
  <2>3. begun' \in [Call -> Times \cup {None}]
    BY <1>1, <1>2, AreTyped
  <2>4. refusal' \in [call : Call \cup {None}, until : Nat]
    BY <1>1
  <2>5. clock' \in Times
    BY <1>1, <1>2
  <2> QED BY <1>5, <2>1, <2>2, <2>3, <2>4, <2>5 DEF AdmissionTypeOK, Later
<1>10. /\ \A d \in Call \ {c} : call'[d] = call[d] /\ begun'[d] = begun[d]
       /\ \/ call'[c] = "flying" /\ begun'[c] = clock
          \/ call'[c] = "over" /\ begun'[c] = None
  BY <1>1, <1>2, AreTyped
<1>11. TimeGoesOn
  BY <1>1, <1>2, <1>10 DEF TimeGoesOn
<1>12. CallBooks'
  BY <1>1, <1>2, <1>10 DEF AdmissionSafe, CallBooks
<1>13. RoomByThen'
  BY <1>1 DEF RoomByThen
<1>14. MembersWithinLimits'
  <2> SUFFICES ASSUME NEW k \in Limits PROVE Cardinality(Members(k)') <= Capacity[k]
    BY DEF MembersWithinLimits
  <2>1. Members(k) \in SUBSET Call /\ Members(k)' \in SUBSET Call /\ Capacity[k] \in Nat
    BY Constants DEF Members
  <2>2. Cardinality(Members(k)) <= Capacity[k]
    BY DEF AdmissionSafe, MembersWithinLimits
  <2>3. CASE k \notin SetsOf[c]
    <3>1. Shrinks(k)
      BY <1>7, <2>3 DEF Shrinks
    <3>2. Members(k)' \in SUBSET Members(k)
      BY <1>2, <1>9, <1>11, <3>1, ShrinkingMembers
    <3> QED BY <2>1, <2>2, <3>2, CallsAreFinite
  <2>4. CASE k \in SetsOf[c]
    <3>1. Cardinality(Members(k)) < Capacity[k] /\ Cardinality(Members(k)) \in Nat
      <4>1. ~(Cardinality(Members(k)) >= Capacity[k])
        BY <1>1, <2>4 DEF Full
      <4> QED BY <2>1, <4>1, CallsAreFinite
    <3>2. Members(k)' \in SUBSET (Members(k) \cup {c})
      <4>1. \A d \in Members(k)' : d \in Call /\ score'[k][d] # None
        BY DEF Members
      <4> QED BY <1>6, <2>4, <4>1
    <3> DEFINE M == Members(k) \cup {c}
    <3>3. M \in SUBSET Call /\ Cardinality(M) <= Cardinality(Members(k)) + 1
          /\ Cardinality(M) \in Nat
      <4>1. M \in SUBSET Call /\ IsFiniteSet(Members(k))
        BY <2>1, CallsAreFinite
      <4>2. Cardinality(M) = IF c \in Members(k) THEN Cardinality(Members(k))
                                                 ELSE Cardinality(Members(k)) + 1
        BY <4>1, FS_AddElement
      <4> QED BY <3>1, <4>1, <4>2
    <3>4. Cardinality(Members(k)') <= Cardinality(M) /\ Cardinality(Members(k)') \in Nat
      <4> HIDE DEF M
      <4>1. Members(k)' \in SUBSET M
        BY <3>2 DEF M
      <4> QED BY <3>3, <4>1, CallsAreFinite
    <3> HIDE DEF M
    <3> QED BY <2>1, <3>1, <3>3, <3>4
  <2> QED BY <2>3, <2>4
<1>15. FlightBooks'
  <2>1. ASSUME NEW k \in FlightSet, NEW d \in Call
        PROVE  /\ call'[d] = "flying" /\ k \in SetsOf[d] =>
                    /\ begun'[d] # None /\ score'[k][d] = begun'[d] + LeaseOf[d]
                    /\ score'[k][d] > clock'
               /\ score'[k][d] # None => score'[k][d] + Margin <= keyUntil'[k]
    <3>1. k \in Limits /\ k \notin RateSet /\ clock' = clock
      BY <1>1, Constants
    <3>2. score'[k][d] # None => score'[k][d] + Margin <= keyUntil'[k]
      <4>1. CASE k \in SetsOf[c]
        BY <1>8, <3>1, <4>1
      <4>2. CASE k \notin SetsOf[c]
        BY <1>7, <3>1, <4>2 DEF AdmissionSafe, FlightBooks
      <4> QED BY <4>1, <4>2
    <3>3. ASSUME call'[d] = "flying", k \in SetsOf[d], d = c
          PROVE  /\ begun'[d] # None /\ score'[k][d] = begun'[d] + LeaseOf[d]
                 /\ score'[k][d] > clock'
      <4>1. begun'[c] = clock /\ score'[k][c] = entry(k)
        BY <1>6, <1>10, <3>3
      <4>2. entry(k) = clock + LeaseOf[c] /\ entry(k) > clock
        BY <1>3, <3>1 DEF entry
      <4> QED BY <1>2, <3>1, <3>3, <4>1, <4>2, Constants
    <3>4. ASSUME call'[d] = "flying", k \in SetsOf[d], d # c
          PROVE  /\ begun'[d] # None /\ score'[k][d] = begun'[d] + LeaseOf[d]
                 /\ score'[k][d] > clock'
      <4>1. call[d] = "flying" /\ begun'[d] = begun[d]
        BY <1>10, <3>4
      <4>2. d \in Members(k)
        BY <3>4, <4>1, FlyingAreMembers
      <4>3. score'[k][d] = score[k][d]
        BY <1>6, <1>7, <3>1, <3>4, <4>2
      <4> QED BY <3>1, <3>4, <4>1, <4>3 DEF AdmissionSafe, FlightBooks
    <3> QED BY <3>2, <3>3, <3>4
  <2> QED BY <2>1 DEF FlightBooks
<1>16. RateBooks'
  <2>1. ASSUME NEW k \in RateSet, NEW d \in Call, k \in SetsOf[d], begun'[d] # None,
               begun'[d] > clock' - Window
        PROVE  score'[k][d] = begun'[d] /\ begun'[d] + Window < keyUntil'[k]
    <3>1. k \in Limits /\ clock' = clock
      BY <1>1, Constants
    <3>2. CASE d = c
      <4>1. begun'[c] = clock
        BY <1>10, <2>1, <3>2
      <4>2. score'[k][c] = clock
        BY <1>6, <2>1, <3>2 DEF entry
      <4>3. keyUntil'[k] = clock + Window + Margin
        BY <1>8, <2>1, <3>2
      <4> QED BY <1>2, <3>2, <4>1, <4>2, <4>3, Constants
    <3>3. CASE d # c
      <4>1. begun'[d] = begun[d]
        BY <1>10, <3>3
      <4>2. d \in Members(k) /\ score[k][d] = begun[d] /\ begun[d] \in Nat
        BY <2>1, <3>1, <4>1, RecentAreMembers
      <4>3. score'[k][d] = score[k][d]
        BY <1>6, <1>7, <3>1, <3>3, <4>2
      <4>4. begun[d] + Window < keyUntil[k] /\ begun[d] <= clock
        BY <2>1, <3>1, <4>1 DEF AdmissionSafe, RateBooks, CallBooks
      <4>5. CASE k \in SetsOf[c]
        <5>1. keyUntil'[k] = clock + Window + Margin
          BY <1>8, <2>1, <4>5
        <5> QED BY <1>2, <4>1, <4>2, <4>3, <4>4, <5>1, Constants
      <4>6. CASE k \notin SetsOf[c]
        BY <1>7, <3>1, <4>1, <4>2, <4>3, <4>4, <4>6
      <4> QED BY <4>5, <4>6
    <3> QED BY <3>2, <3>3
  <2> QED BY <2>1 DEF RateBooks
<1> QED BY <1>9, <1>11, <1>12, <1>13, <1>14, <1>15, <1>16, AllHold

--------------------------------------------------------------------------
LEMMA InitIsSafe == ASSUME AdmissionInit PROVE AdmissionSafe
<1>1. AdmissionTypeOK
  <2>1. 0 \in Times
    BY AdmissionOK DEF Times
  <2> QED BY <2>1 DEF AdmissionInit, AdmissionTypeOK, Later
<1>2. \A k \in Limits, c \in Call : score[k][c] = None
  BY DEF AdmissionInit
<1>3. \A k \in Limits : Members(k) = {}
  BY <1>2 DEF Members
<1>4. \A c \in Call : begun[c] = None /\ call[c] = "waiting"
  BY DEF AdmissionInit
<1>5. FlightsWithinLimits
  <2>1. \A k \in FlightSet : {c \in Call : call[c] = "flying" /\ k \in SetsOf[c]} = {}
    BY <1>4
  <2>2. \A k \in FlightSet : 0 <= Capacity[k] /\ Cardinality({}) = 0
    BY Constants, FS_EmptySet
  <2>3. \A k \in FlightSet :
          Cardinality({c \in Call : call[c] = "flying" /\ k \in SetsOf[c]}) <= Capacity[k]
    BY <2>1, <2>2, Zenon
  <2> QED BY <2>3 DEF FlightsWithinLimits
<1>6. RateWithinLimits
  <2>1. \A k \in RateSet, end \in Times :
          {c \in Call : /\ k \in SetsOf[c] /\ begun[c] # None
                        /\ end - Window < begun[c] /\ begun[c] <= end} = {}
    BY <1>4
  <2>2. \A k \in RateSet : 0 <= Capacity[k] /\ Cardinality({}) = 0
    BY Constants, FS_EmptySet
  <2>3. \A k \in RateSet, end \in Times :
          Cardinality({c \in Call : /\ k \in SetsOf[c] /\ begun[c] # None
                                    /\ end - Window < begun[c] /\ begun[c] <= end})
            <= Capacity[k]
    BY <2>1, <2>2, Zenon
  <2> QED BY <2>3 DEF RateWithinLimits
<1>7. DelayIsEnough /\ RoomByThen
  BY DEF AdmissionInit, DelayIsEnough, RoomByThen
<1>8. MembersWithinLimits
  BY SMTT(90), <1>3, Constants, FS_EmptySet DEF MembersWithinLimits
<1>9. CallBooks /\ FlightBooks /\ RateBooks
  BY <1>2, <1>4, Constants DEF CallBooks, FlightBooks, RateBooks
<1> QED BY <1>1, <1>5, <1>6, <1>7, <1>8, <1>9 DEF AdmissionSafe

LEMMA StepIsSafe == ASSUME AdmissionSafe, [AdmissionNext]_admissionVars PROVE AdmissionSafe'
<1>1. CASE UNCHANGED admissionVars
  <2>1. UNCHANGED <<clock, score, keyUntil, call, refusal, begun>>
    BY <1>1 DEF admissionVars
  <2>2. AdmissionTypeOK' /\ CallBooks' /\ FlightBooks' /\ RateBooks'
    BY <2>1 DEF AdmissionSafe, AdmissionTypeOK, CallBooks, FlightBooks, RateBooks
  <2>3. TimeGoesOn /\ \A k \in Limits : Shrinks(k)
    BY <2>1, AreTyped DEF AdmissionSafe, TimeGoesOn, Shrinks
  <2>4. MembersWithinLimits' /\ RoomByThen'
    BY <2>1, <2>2, <2>3, MembersStayWithin, RoomStays
  <2> QED BY <2>2, <2>3, <2>4, AllHold
<1>2. ASSUME NEW c \in Call, Admit(c) \/ Refuse(c) \/ Release(c) \/ EndUnreleased(c)
      PROVE  AdmissionSafe'
  BY <1>2, AdmitIsSafe, RefuseIsSafe, ReleaseIsSafe, EndIsSafe
<1> QED BY <1>1, <1>2, TickIsSafe DEF AdmissionNext

\* For all limits, leases and windows and any finite number of calls: no limit of calls in
\* flight and no rate of calls begun is exceeded, whatever process is terminated, and the
\* delay that a refusal names is long enough (admission.lua, admission.py).
THEOREM AdmissionIsSafe == AdmissionSpec => []AdmissionSafe
<1>1. AdmissionInit => AdmissionSafe
  BY InitIsSafe
<1>2. AdmissionSafe /\ [AdmissionNext]_admissionVars => AdmissionSafe'
  BY StepIsSafe
<1> QED BY <1>1, <1>2, PTL DEF AdmissionSpec

--------------------------------------------------------------------------
(* The turns of the tenants.                                              *)

\* The tenant has the turn and will give it back.
Holding(y) == turn.task # None /\ turnRun[turn.task] = y

\* Of two tenants in the queue one is ahead.
Ordered == \A x, y \in ready : x # y => x \in ahead[y] \/ y \in ahead[x]

\* Who is still ahead of a tenant, and has not its turn, has not passed it for itself.
PassedByThoseAhead ==
  \A x \in ready : \A y \in Party \ {x} :
    y \in ahead[x] /\ ~Holding(y) => passed[x][y] <= fairFaults

FairInv == FairTypeOK /\ PassedOnce /\ Ordered /\ PassedByThoseAhead

LEMMA FairInitially == FairInit => FairInv
<1> SUFFICES ASSUME FairInit PROVE FairInv
  OBVIOUS
<1>1. MaxCrashes \in Nat /\ Wait \in Nat /\ 0 \in 0 .. TurnTime - 1
  BY TasksOK, FairTurnOK
<1>2. FairTypeOK
  BY <1>1 DEF FairInit, FairTypeOK, NoTurn
<1>3. PassedOnce /\ Ordered /\ PassedByThoseAhead
  BY DEF FairInit, PassedOnce, Ordered, PassedByThoseAhead
<1> QED BY <1>2, <1>3 DEF FairInv

LEMMA FairTypes ==
  ASSUME FairTypeOK, [FairNext]_fairVars
  PROVE  FairTypeOK'
<1> USE DEF FairTypeOK
<1>0. /\ MaxCrashes \in Nat /\ Wait \in Nat /\ TurnTime \in Nat /\ Wait > 0 /\ TurnTime > 0
      /\ None \notin Party /\ None \notin Task
  BY TasksOK, FairTurnOK
<1>00. 0 \in 0 .. TurnTime - 1
  BY <1>0
<1>1. ASSUME NEW t \in Task, NEW x \in Party, TakeTurn(t, x) PROVE FairTypeOK'
  <2>1. ready' \subseteq Party /\ ahead' \in [Party -> SUBSET Party] /\ asked' \in [Party -> 0 .. Wait]
    BY <1>0, <1>1 DEF TakeTurn, Cleaned, Ahead
  <2>2. passed' \in [Party -> [Party -> Nat]]
    <3>1. \A y, z \in Party : passed[y][z] \in Nat /\ passed[y][z] + 1 \in Nat
      OBVIOUS
    <3> QED BY <1>1, <3>1 DEF TakeTurn, Passes
  <2>3. turn' \in [task : Task \cup {None}, age : 0 .. TurnTime - 1] /\ turnRun' \in [Task -> Party \cup {None}]
    BY <1>0, <1>00, <1>1 DEF TakeTurn
  <2> QED BY <1>1, <2>1, <2>2, <2>3 DEF TakeTurn
<1>2. ASSUME NEW t \in Task, FinishTurn(t) PROVE FairTypeOK'
  <2>1. turn' \in [task : Task \cup {None}, age : 0 .. TurnTime - 1]
    BY <1>00, <1>2 DEF FinishTurn, NoTurn
  <2>2. ready' \subseteq Party /\ ahead' \in [Party -> SUBSET Party]
    BY SMTT(90), <1>2 DEF FinishTurn
  <2>3. turnRun' \in [Task -> Party \cup {None}]
    BY <1>2 DEF FinishTurn
  <2> QED BY <1>2, <2>1, <2>2, <2>3 DEF FinishTurn
<1>3. ASSUME NEW t \in Task, LoseTurn(t) PROVE FairTypeOK'
  BY <1>0, <1>3 DEF LoseTurn
<1>4. ASSUME FairTicks PROVE FairTypeOK'
  <2>1. asked' \in [Party -> 0 .. Wait]
    BY <1>0, <1>4 DEF FairTicks, Live
  <2>2. turn' \in [task : Task \cup {None}, age : 0 .. TurnTime - 1]
    <3>1. CASE turn.task = None
      BY <1>4, <3>1 DEF FairTicks
    <3>2. CASE turn.task # None /\ turn.age + 1 = TurnTime
      BY <1>0, <1>00, <1>4, <3>2 DEF FairTicks, NoTurn
    <3>3. CASE turn.task # None /\ turn.age + 1 # TurnTime
      <4>1. turn.age + 1 \in 0 .. TurnTime - 1
        <5>1. turn.age \in 0 .. TurnTime - 1
          OBVIOUS
        <5>2. \A a \in 0 .. TurnTime - 1 : a + 1 # TurnTime => a + 1 \in 0 .. TurnTime - 1
          BY <1>0
        <5> QED BY <3>3, <5>1, <5>2
      <4>2. turn' = [turn EXCEPT !.age = turn.age + 1]
        BY <1>4, <3>3 DEF FairTicks
      <4> QED BY <4>1, <4>2
    <3> QED BY <3>1, <3>2, <3>3
  <2>3. fairFaults' \in 0 .. MaxCrashes
    BY <1>0, <1>4 DEF FairTicks
  <2> QED BY <1>4, <2>1, <2>2, <2>3 DEF FairTicks
<1>5. CASE UNCHANGED fairVars
  BY <1>5 DEF fairVars
<1> QED BY <1>1, <1>2, <1>3, <1>4, <1>5 DEF FairNext

\* The one that gets the turn was ahead of all others that wait.
LEMMA FairTaken ==
  ASSUME FairInv, NEW t \in Task, NEW x \in Party, TakeTurn(t, x)
  PROVE  (PassedOnce /\ Ordered /\ PassedByThoseAhead)'
<1>0. /\ fairFaults' = fairFaults /\ fairFaults \in Nat /\ None \notin Party /\ None \notin Task
      /\ \A y, z \in Party : passed[y][z] \in Nat
  BY TasksOK, FairTurnOK DEF TakeTurn, FairInv, FairTypeOK
<1>1. /\ Cleaned \subseteq ready /\ ready \subseteq Party /\ ready' = Cleaned \cup {x}
      /\ \A y \in Party : ahead'[y] = IF y \in Cleaned THEN ahead[y] \cap Cleaned
                                      ELSE IF y = x THEN Cleaned ELSE {}
      /\ ahead' = Ahead(x)
  BY DEF TakeTurn, Cleaned, Ahead, FairInv, FairTypeOK
<1>2. Ordered'
  <2>1. \A y, z \in Cleaned : y # z => y \in ahead[z] \/ z \in ahead[y]
    BY <1>1 DEF FairInv, Ordered
  <2>2. \A y, z \in ready' : y # z => y \in ahead'[z] \/ z \in ahead'[y]
    <3> SUFFICES ASSUME NEW y \in ready', NEW z \in ready', y # z
                 PROVE  y \in ahead'[z] \/ z \in ahead'[y]
      OBVIOUS
    <3>1. y \in Party /\ z \in Party
      BY <1>1
    <3>2. CASE y \in Cleaned /\ z \in Cleaned
      BY <1>1, <2>1, <3>1, <3>2
    <3>3. CASE y = x /\ y \notin Cleaned
      <4>1. z \in Cleaned
        BY <1>1, <3>3
      <4> QED BY <1>1, <3>1, <3>3, <4>1
    <3>4. CASE z = x /\ z \notin Cleaned
      <4>1. y \in Cleaned
        BY <1>1, <3>4
      <4> QED BY <1>1, <3>1, <3>4, <4>1
    <3> QED BY <1>1, <3>2, <3>3, <3>4
  <2> QED BY <2>2 DEF Ordered
<1>3. \A y, z \in Party : passed'[y][z] = IF y \notin Cleaned THEN 0
                                           ELSE IF z = x /\ Granted(x) THEN passed[y][z] + 1
                                           ELSE passed[y][z]
  BY DEF TakeTurn, Passes
<1>4. ASSUME Granted(x), NEW y \in Cleaned, y # x
      PROVE  x \in ahead[y] /\ ~Holding(x)
  <2>1. ahead'[x] = {} /\ turn.task = None
    BY <1>1, <1>4 DEF Granted
  <2>2. x \in Cleaned /\ y \notin ahead[x]
    BY <1>1, <1>4, <2>1
  <2> QED BY <1>1, <1>4, <2>1, <2>2 DEF FairInv, Ordered, Holding
<1>5. ASSUME NEW y \in ready', NEW z \in Party \ {y}
      PROVE  /\ passed'[y][z] <= 1 + fairFaults
             /\ z \in ahead'[y] /\ ~Holding(z)' => passed'[y][z] <= fairFaults
  <2>1. y \in Party /\ z \in Party
    BY <1>1
  <2>2. CASE y \notin Cleaned
    <3>1. passed'[y][z] = 0
      BY <1>3, <2>1, <2>2
    <3> QED BY <1>0, <3>1
  <2>3. CASE y \in Cleaned /\ z = x /\ Granted(x)
    <3>1. passed[y][z] <= fairFaults
      BY <1>1, <1>4, <2>1, <2>3 DEF FairInv, PassedByThoseAhead
    <3>2. passed'[y][z] = passed[y][z] + 1
      BY <1>3, <2>1, <2>3
    <3>3. Holding(z)'
      <4>1. turn'.task = t /\ turnRun'[t] = x
        BY <2>3 DEF TakeTurn, FairInv, FairTypeOK
      <4> QED BY <1>0, <2>3, <4>1 DEF Holding
    <3> QED BY <1>0, <2>1, <3>1, <3>2, <3>3
  <2>4. CASE y \in Cleaned /\ ~(z = x /\ Granted(x))
    <3>1. passed'[y][z] = passed[y][z]
      BY <1>3, <2>1, <2>4
    <3>2. passed[y][z] <= 1 + fairFaults
      BY <1>1, <2>4 DEF FairInv, PassedOnce
    <3>3. ASSUME z \in ahead'[y], ~Holding(z)' PROVE passed[y][z] <= fairFaults
      <4>1. z \in ahead[y]
        BY <1>1, <2>1, <2>4, <3>3
      <4>2. ~Holding(z)
        BY <3>3 DEF Holding, TakeTurn, Granted
      <4> QED BY <1>1, <2>4, <4>1, <4>2 DEF FairInv, PassedByThoseAhead
    <3> QED BY <1>0, <3>1, <3>2, <3>3
  <2> QED BY <2>2, <2>3, <2>4
<1>6. PassedOnce' /\ PassedByThoseAhead'
  BY <1>5, <1>0 DEF PassedOnce, PassedByThoseAhead
<1> QED BY <1>2, <1>6

\* Who gives the turn back leaves the queue, or was overtaken by the end of the turn.
LEMMA FairFinished ==
  ASSUME FairInv, NEW t \in Task, FinishTurn(t)
  PROVE  (PassedOnce /\ Ordered /\ PassedByThoseAhead)'
<1>1. /\ passed' = passed /\ fairFaults' = fairFaults
      /\ ready' \subseteq ready /\ ready \subseteq Party
      /\ \A y \in ready' : ahead'[y] \subseteq ahead[y]
      /\ \A y, z \in ready' : z \in ahead[y] => z \in ahead'[y]
  BY DEF FinishTurn, FairInv, FairTypeOK
<1>2. \A y \in ready' : \A z \in ahead'[y] : Holding(z) => Holding(z)'
  <2> SUFFICES ASSUME NEW y \in ready', NEW z \in ahead'[y], Holding(z)
               PROVE  Holding(z)'
    OBVIOUS
  <2>1. CASE turn.task = t
    <3>1. z = turnRun[t]
      BY <2>1 DEF Holding
    <3>2. z \notin ahead'[y]
      BY <1>1, <2>1, <3>1 DEF FinishTurn
    <3> QED BY <3>2
  <2>2. CASE turn.task # t
    BY <2>2 DEF Holding, FinishTurn, FairInv, FairTypeOK
  <2> QED BY <2>1, <2>2
<1>3. Ordered'
  BY <1>1 DEF FairInv, Ordered
<1>4. PassedOnce'
  BY <1>1 DEF FairInv, PassedOnce
<1>5. PassedByThoseAhead'
  <2> SUFFICES ASSUME NEW x \in ready', NEW y \in Party \ {x}, y \in ahead'[x], ~Holding(y)'
               PROVE  passed[x][y] <= fairFaults
    BY <1>1 DEF PassedByThoseAhead
  <2>1. ~Holding(y) /\ y \in ahead[x] /\ x \in ready
    BY <1>1, <1>2
  <2> QED BY <2>1 DEF FairInv, PassedByThoseAhead
<1> QED BY <1>3, <1>4, <1>5

\* Whose turn ends before it is given back was killed or stalled.
LEMMA FairLost ==
  ASSUME FairInv, FairTicks \/ \E t \in Task : LoseTurn(t)
  PROVE  (PassedOnce /\ Ordered /\ PassedByThoseAhead)'
<1>1. /\ passed' = passed /\ ready' = ready /\ ahead' = ahead /\ ready \subseteq Party
      /\ fairFaults \in Nat /\ fairFaults' \in Nat /\ fairFaults <= fairFaults'
      /\ \A y, z \in Party : passed[y][z] \in Nat
  BY TasksOK DEF FairTicks, LoseTurn, FairInv, FairTypeOK
<1>2. fairFaults' = fairFaults + 1 \/ \A z \in Party : Holding(z) => Holding(z)'
  <2>1. ASSUME NEW t \in Task, LoseTurn(t) PROVE fairFaults' = fairFaults + 1
    BY <2>1 DEF LoseTurn
  <2>2. CASE FairTicks /\ FairStalled
    BY <2>2 DEF FairTicks
  <2>3. CASE FairTicks /\ ~FairStalled
    <3> SUFFICES ASSUME NEW z \in Party, Holding(z) PROVE Holding(z)'
      OBVIOUS
    <3>1. turnRun' = turnRun /\ turn.task # None /\ turnRun[turn.task] = z /\ z # None
      BY <2>3, FairTurnOK DEF FairTicks, Holding
    <3>2. turn'.task = turn.task
      BY <2>3, <3>1 DEF FairTicks, FairStalled, FairInv, FairTypeOK
    <3> QED BY <3>1, <3>2 DEF Holding
  <2> QED BY <2>1, <2>2, <2>3
<1>3. Ordered'
  BY <1>1 DEF FairInv, Ordered
<1>4. ASSUME NEW x \in ready, NEW y \in Party \ {x}
      PROVE  /\ passed[x][y] <= 1 + fairFaults'
             /\ y \in ahead[x] /\ ~Holding(y)' => passed[x][y] <= fairFaults'
  <2>1. passed[x][y] <= 1 + fairFaults /\ passed[x][y] \in Nat
    BY <1>1 DEF FairInv, PassedOnce
  <2>2. y \in ahead[x] /\ ~Holding(y) => passed[x][y] <= fairFaults
    BY DEF FairInv, PassedByThoseAhead
  <2>3. CASE fairFaults' = fairFaults + 1
    BY <1>1, <2>1, <2>3
  <2>4. CASE \A z \in Party : Holding(z) => Holding(z)'
    <3>1. y \in ahead[x] /\ ~Holding(y)' => passed[x][y] <= fairFaults
      BY <2>2, <2>4
    <3> QED BY <1>1, <2>1, <3>1
  <2> QED BY <1>2, <2>3, <2>4
<1>5. PassedOnce' /\ PassedByThoseAhead'
  BY <1>1, <1>4 DEF PassedOnce, PassedByThoseAhead
<1> QED BY <1>3, <1>5

\* A tenant that waits for its turn is passed by every other tenant once, and once more
\* for each turn whose worker was killed or stalled (fair_turn.lua).
THEOREM TurnsAreFair == TurnSpec => []FairSafe
<1>1. FairInv /\ [FairNext]_fairVars => FairInv'
  <2> SUFFICES ASSUME FairInv, [FairNext]_fairVars PROVE FairInv'
    OBVIOUS
  <2>1. FairTypeOK'
    BY FairTypes DEF FairInv
  <2>2. (PassedOnce /\ Ordered /\ PassedByThoseAhead)'
    <3>1. CASE UNCHANGED fairVars
      BY <3>1 DEF fairVars, FairInv, PassedOnce, Ordered, PassedByThoseAhead, Holding
    <3>2. CASE FairNext
      BY <3>2, FairTaken, FairFinished, FairLost DEF FairNext
    <3> QED BY <3>1, <3>2
  <2> QED BY <2>1, <2>2 DEF FairInv
<1>2. FairInv => FairSafe
  BY DEF FairInv, FairSafe
<1> QED BY <1>1, <1>2, FairInitially, PTL DEF TurnSpec

----------------------------------------------------------------------------
(* The first page of a set of steps.                                        *)

LEMMA Greatest ==
  ASSUME NEW n \in Nat, NEW S \in SUBSET (1 .. n), S # {}
  PROVE  \E m \in S : \A x \in S : x <= m
<1> DEFINE T == {n - x : x \in S}
<1>1. T \in SUBSET Nat /\ T # {}
  <2>1. \A x \in S : n - x \in Nat
    OBVIOUS
  <2> QED BY <2>1
<1>2. PICK d \in T : \A y \in T : d <= y
  BY <1>1, Least
<1>3. PICK m \in S : d = n - m
  BY <1>2
<1>4. \A x \in S : n - m <= n - x
  BY <1>2, <1>3
<1>5. \A x \in S : x \in Int /\ m \in Int /\ (n - m <= n - x => x <= m)
  OBVIOUS
<1> QED BY <1>4, <1>5

\* Steps are finitely many.
LEMMA StepsAreFinite ==
  ASSUME NEW S \in SUBSET RStep
  PROVE  IsFiniteSet(S) /\ Cardinality(S) \in Nat /\ S \in SUBSET Nat /\ S \in SUBSET (1 .. LastStep)
<1>1. LastStep \in Nat /\ 1 \in Int /\ LastStep \in Int
  BY RecoveryOK
<1>2. IsFiniteSet(RStep)
  <2>1. IsFiniteSet(1 .. LastStep)
    BY <1>1, FS_Interval
  <2> QED BY <2>1 DEF RStep
<1>3. IsFiniteSet(S)
  BY <1>2, FS_Subset
<1>4. Cardinality(S) \in Nat
  BY <1>3, FS_CardinalityType
<1>5. S \in SUBSET Nat /\ S \in SUBSET (1 .. LastStep)
  BY <1>1 DEF RStep
<1> QED BY <1>3, <1>4, <1>5

Below(S, x) == {y \in S : y < x}

LEMMA BelowGrows ==
  ASSUME NEW S \in SUBSET RStep, NEW x \in S, NEW y \in S, x <= y
  PROVE  /\ Below(S, x) \subseteq Below(S, y)
         /\ Cardinality(Below(S, x)) <= Cardinality(Below(S, y))
         /\ Cardinality(Below(S, x)) \in Nat /\ Cardinality(Below(S, y)) \in Nat
<1>1. Below(S, x) \in SUBSET RStep /\ Below(S, y) \in SUBSET RStep
  BY DEF Below
<1>2. Below(S, x) \subseteq Below(S, y)
  BY StepsAreFinite DEF Below
<1> QED BY <1>1, <1>2, StepsAreFinite, FS_Subset

\* What a page leaves out comes behind all of it, and then the page is full.
LEMMA PageIsFirst ==
  ASSUME NEW S \in SUBSET RStep
  PROVE  /\ FirstPage(S) \in SUBSET S
         /\ \A s \in S \ FirstPage(S) :
              /\ \A x \in FirstPage(S) : x < s
              /\ Cardinality(FirstPage(S)) = PageSize
<1> USE RecoveryOK
<1> DEFINE P == FirstPage(S)
           R == S \ P
<1>1. /\ P \in SUBSET S /\ P \in SUBSET RStep
      /\ \A s \in S : s \in P <=> Cardinality(Below(S, s)) < PageSize
      /\ S \in SUBSET Nat /\ R \in SUBSET Nat
  BY StepsAreFinite DEF FirstPage, Below
<1> HIDE DEF P
<1>2. ASSUME NEW s \in R, NEW x \in P PROVE x < s
  <2> SUFFICES ASSUME ~(x < s) PROVE FALSE
    OBVIOUS
  <2>1. s <= x /\ s \in S /\ x \in S /\ s \notin P
    BY <1>1
  <2>2. /\ Cardinality(Below(S, s)) <= Cardinality(Below(S, x))
        /\ Cardinality(Below(S, s)) \in Nat /\ Cardinality(Below(S, x)) \in Nat
    BY <2>1, BelowGrows
  <2> QED BY <1>1, <2>1, <2>2
<1>3. ASSUME NEW s \in R PROVE Cardinality(P) = PageSize
  <2>1. PICK m \in R : \A y \in R : m <= y
    BY <1>1, Least
  <2>2. P = Below(S, m)
    <3>1. \A y \in P : y < m
      BY <1>2, <2>1
    <3>2. \A y \in S : y < m => y \in P
      <4> SUFFICES ASSUME NEW y \in S, y < m, y \notin P PROVE FALSE
        OBVIOUS
      <4> QED BY <1>1, <2>1
    <3> QED BY <1>1, <3>1, <3>2 DEF Below
  <2>3. Cardinality(P) \in Nat /\ ~(Cardinality(P) < PageSize)
    BY <1>1, <2>1, <2>2, StepsAreFinite
  <2>4. P # {}
    <3> SUFFICES ASSUME P = {} PROVE FALSE
      OBVIOUS
    <3> QED BY <2>3, FS_EmptySet
  <2>5. PICK g \in P : \A y \in P : y <= g
    <3>1. P \in SUBSET (1 .. LastStep) /\ LastStep \in Nat
      BY <1>1, StepsAreFinite
    <3> QED BY <3>1, <2>4, Greatest
  <2>6. P = Below(S, g) \cup {g} /\ g \notin Below(S, g)
    <3>1. g \in S /\ m \in S /\ g < m /\ g \in Nat /\ m \in Nat
      BY <1>1, <1>2, <2>1, <2>5
    <3>2. \A y \in S : y < g => y < m
      BY <1>1, <3>1
    <3>3. \A y \in P : y \in S /\ (y = g \/ y < g)
      BY <1>1, <2>5
    <3>4. \A y \in S : y < g => y \in P
      BY <2>2, <3>2 DEF Below
    <3>5. \A y \in P : y = g \/ y \in Below(S, g)
      BY <3>3 DEF Below
    <3>6. \A y \in Below(S, g) : y \in P
      BY <3>4 DEF Below
    <3>7. g \notin Below(S, g)
      BY <3>1 DEF Below
    <3> QED BY <3>5, <3>6, <3>7
  <2>7. Below(S, g) \in SUBSET RStep
    BY DEF Below
  <2>8. Cardinality(P) = Cardinality(Below(S, g)) + 1
    BY <2>6, <2>7, StepsAreFinite, FS_AddElement
  <2>9. Cardinality(Below(S, g)) < PageSize /\ Cardinality(Below(S, g)) \in Nat
    BY <1>1, <2>5, <2>7, StepsAreFinite
  <2> QED BY <2>3, <2>8, <2>9
<1> QED BY <1>1, <1>2, <1>3 DEF P

----------------------------------------------------------------------------
(* Types.                                                                   *)

Cursors == 0 .. LastStep

RowType == [RecoveryRow -> [state : {"NONE", "QUEUED", "RUNNING", "COMPLETED", "FAILED"},
                            revision : Nat, cursor : Cursors, live : BOOLEAN,
                            scanned : Nat, scheduled : Nat]]

RunType == [Task -> [at : {"idle", "claimed", "page", "denied"}, job : RecoveryRow \cup {None},
                     revision : Nat, page : SUBSET RStep, full : BOOLEAN]]

LEMMA RowTyped ==
  ASSUME RecoverySafe, NEW j \in RecoveryRow,
         NEW s \in {"NONE", "QUEUED", "RUNNING", "COMPLETED", "FAILED"}, NEW live \in BOOLEAN
  PROVE  /\ recovery \in RowType
         /\ [recovery EXCEPT ![j].state = s] \in RowType
         /\ [recovery EXCEPT ![j].live = live] \in RowType
         /\ [recovery EXCEPT ![j].state = s, ![j].live = live] \in RowType
         /\ [recovery EXCEPT ![j].live = live, ![j].state = s] \in RowType
         /\ [recovery EXCEPT ![j].live = live, ![j].revision = @ + 1] \in RowType
<1>1. recovery \in RowType
  BY DEF RecoverySafe, RecoveryTypeOK, RowType, Cursors
<1>2. [recovery EXCEPT ![j].state = s] \in RowType /\ [recovery EXCEPT ![j].live = live] \in RowType
  BY <1>1 DEF RowType
<1>3. /\ [recovery EXCEPT ![j].state = s, ![j].live = live] \in RowType
      /\ [recovery EXCEPT ![j].live = live, ![j].state = s] \in RowType
  <2>1. [recovery EXCEPT ![j].state = s, ![j].live = live] \in RowType
    BY ZenonT(90), <1>1 DEF RowType
  <2>2. [recovery EXCEPT ![j].live = live, ![j].state = s] \in RowType
    BY ZenonT(90), <1>1 DEF RowType
  <2> QED BY <2>1, <2>2
<1>4. [recovery EXCEPT ![j].live = live, ![j].revision = @ + 1] \in RowType
  <2>1. recovery[j].revision + 1 \in Nat
    BY <1>1 DEF RowType
  <2> QED BY ZenonT(90), <1>1, <2>1 DEF RowType
<1> QED BY <1>1, <1>2, <1>3, <1>4

LEMMA RunTyped ==
  ASSUME RecoverySafe, NEW t \in Task
  PROVE  /\ recoveryRun \in RunType
         /\ [recoveryRun EXCEPT ![t] = NoRecoveryRun] \in RunType
         /\ [recoveryRun EXCEPT ![t].at = "denied"] \in RunType
         /\ \A j \in RecoveryRow, r \in Nat :
              [recoveryRun EXCEPT ![t] = [NoRecoveryRun EXCEPT !.at = "claimed", !.job = j,
                                                               !.revision = r]] \in RunType
<1>1. recoveryRun \in RunType
  BY DEF RecoverySafe, RecoveryTypeOK, RunType
<1>2. [recoveryRun EXCEPT ![t] = NoRecoveryRun] \in RunType
  BY <1>1 DEF RunType, NoRecoveryRun
<1>3. [recoveryRun EXCEPT ![t].at = "denied"] \in RunType
  BY <1>1 DEF RunType
<1>4. ASSUME NEW j \in RecoveryRow, NEW r \in Nat
      PROVE  [recoveryRun EXCEPT ![t] = [NoRecoveryRun EXCEPT !.at = "claimed", !.job = j,
                                                              !.revision = r]] \in RunType
  BY <1>1 DEF RunType, NoRecoveryRun
<1> QED BY <1>1, <1>2, <1>3, <1>4

LEMMA RecoveryAreTyped ==
  ASSUME RecoverySafe
  PROVE  /\ recovery \in RowType /\ recoveryRun \in RunType
         /\ recoverer \in [RecoveryRow -> Task \cup {None}]
         /\ recoveryMail \in [RecoveryRow -> SUBSET Nat]
         /\ stepOpen \subseteq RStep
         /\ considered \in [RecoveryRow -> SUBSET RStep]
         /\ openSince \in [RecoveryRow -> SUBSET RStep]
         /\ reopened \in 0 .. MaxReopened /\ recoveryFaults \in 0 .. MaxCrashes
BY DEF RecoverySafe, RecoveryTypeOK, RowType, Cursors, RunType

\* A message of a revision is sent; a run that ends gives its claim up.
LEMMA MailTyped ==
  ASSUME RecoverySafe, NEW j \in RecoveryRow, NEW r \in Nat
  PROVE  /\ [recoveryMail EXCEPT ![j] = @ \cup {r}] \in [RecoveryRow -> SUBSET Nat]
         /\ [recoveryMail EXCEPT ![j] = @ \ {r}] \in [RecoveryRow -> SUBSET Nat]
         /\ [recoveryMail EXCEPT ![j] = {0}] \in [RecoveryRow -> SUBSET Nat]
BY RecoveryAreTyped

LEMMA ForgetTyped ==
  ASSUME RecoverySafe, NEW t \in Task
  PROVE  /\ Forget(recoverer, t) \in [RecoveryRow -> Task \cup {None}]
         /\ \A j \in RecoveryRow :
              Forget(recoverer, t)[j] = IF recoverer[j] = t THEN None ELSE recoverer[j]
BY RecoveryAreTyped DEF Forget

LEMMA Typed ==
  ASSUME recovery' \in RowType, recoverer' \in [RecoveryRow -> Task \cup {None}],
         recoveryMail' \in [RecoveryRow -> SUBSET Nat], stepOpen' \subseteq RStep,
         recoveryRun' \in RunType,
         considered' \in [RecoveryRow -> SUBSET RStep],
         openSince' \in [RecoveryRow -> SUBSET RStep],
         reopened' \in 0 .. MaxReopened, recoveryFaults' \in 0 .. MaxCrashes
  PROVE  RecoveryTypeOK'
BY DEF RecoveryTypeOK, RowType, Cursors, RunType

----------------------------------------------------------------------------
(* Most steps leave alone what a part of the invariant is about.            *)

\* Nothing is decided, and what stays open since the request stays open.
DecisionsKept ==
  /\ considered' = considered
  /\ \A j \in RecoveryRow :
       /\ recovery'[j].cursor = recovery[j].cursor
       /\ recovery'[j].scanned = recovery[j].scanned
       /\ recovery'[j].scheduled = recovery[j].scheduled
       /\ openSince'[j] \subseteq openSince[j]
       /\ \A s \in openSince'[j] : s \in stepOpen => s \in stepOpen'

EndsKept ==
  \A j \in RecoveryRow : recovery'[j].state = "COMPLETED" => recovery[j].state = "COMPLETED"

PagesKept ==
  \A j \in RecoveryRow, t \in Task :
    recoverer'[j] = t /\ recoveryRun'[t].at = "page" =>
      recoverer[j] = t /\ recoveryRun'[t] = recoveryRun[t]

\* Runs go on or end, and who ends does not own a job.
RunsKept ==
  /\ \A t \in Task : recoveryRun'[t].at # "idle" =>
       recoveryRun[t].at # "idle" /\ recoveryRun'[t].job = recoveryRun[t].job
  /\ \A j \in RecoveryRow : recoverer'[j] # None =>
       recoverer'[j] = recoverer[j] /\ recoveryRun'[recoverer[j]].at # "idle"

RowsKept ==
  \A j \in RecoveryRow : recovery'[j].state = "NONE" =>
    /\ recovery[j].state = "NONE" /\ recoveryMail'[j] = recoveryMail[j]
    /\ recovery'[j].cursor = recovery[j].cursor

LEMMA DecisionsStay ==
  ASSUME RecoverySafe, DecisionsKept PROVE EachStepOnce' /\ BehindCursor'
<1>1. EachStepOnce'
  BY DEF RecoverySafe, DecisionsKept, EachStepOnce
<1>2. BehindCursor'
  BY DEF RecoverySafe, DecisionsKept, BehindCursor
<1> QED BY <1>1, <1>2

LEMMA EndsStay ==
  ASSUME RecoverySafe, DecisionsKept, EndsKept PROVE NothingPassedOver'
BY DEF RecoverySafe, DecisionsKept, EndsKept, NothingPassedOver

LEMMA PagesStay ==
  ASSUME RecoverySafe, DecisionsKept, PagesKept PROVE PageHoldsTheFirst'
BY DEF RecoverySafe, DecisionsKept, PagesKept, PageHoldsTheFirst

LEMMA RunsStay ==
  ASSUME RecoverySafe, RecoveryTypeOK', RunsKept, RowsKept PROVE RunOfJob'
<1>1. \A t \in Task : recoveryRun'[t].at # "idle" =>
        recoveryRun'[t].job \in RecoveryRow /\ recovery'[recoveryRun'[t].job].state # "NONE"
  BY DEF RecoverySafe, RunOfJob, RunsKept, RowsKept
<1>2. \A j \in RecoveryRow : recoverer'[j] # None =>
        recoveryRun'[recoverer'[j]].at # "idle" /\ recoveryRun'[recoverer'[j]].job = j
  BY DEF RecoverySafe, RecoveryTypeOK, RunOfJob, RunsKept
<1>3. \A j \in RecoveryRow : recovery'[j].state = "NONE" =>
        recovery'[j].cursor = 0 /\ recoveryMail'[j] = {}
  BY DEF RecoverySafe, RunOfJob, RowsKept
<1> QED BY <1>1, <1>2, <1>3 DEF RunOfJob

LEMMA AllKept ==
  ASSUME RecoverySafe, RecoveryTypeOK', DecisionsKept, EndsKept, PagesKept, RunsKept, RowsKept
  PROVE  RecoverySafe'
BY DecisionsStay, EndsStay, PagesStay, RunsStay DEF RecoverySafe

----------------------------------------------------------------------------
(* One lemma for each operation.                                            *)

LEMMA RequestIsSafe ==
  ASSUME RecoverySafe, NEW j \in RecoveryRow, RequestRecovery(j) PROVE RecoverySafe'
<1>1. /\ recovery[j].state = "NONE" /\ recovery' = [recovery EXCEPT ![j].state = "QUEUED"]
      /\ recoveryMail' = [recoveryMail EXCEPT ![j] = {0}]
      /\ openSince' = [openSince EXCEPT ![j] = stepOpen]
      /\ UNCHANGED <<recoverer, stepOpen, recoveryRun, considered, reopened, recoveryFaults>>
  BY DEF RequestRecovery
<1>2. RecoveryTypeOK'
  <2>1. recovery' \in RowType
    BY <1>1, RowTyped
  <2>2. recoveryMail' \in [RecoveryRow -> SUBSET Nat]
    BY <1>1, RecoveryAreTyped
  <2>3. openSince' \in [RecoveryRow -> SUBSET RStep]
    BY <1>1, RecoveryAreTyped
  <2> QED BY SMTT(90), <1>1, <2>1, <2>2, <2>3, RecoveryAreTyped, Typed
<1>3. /\ \A i \in RecoveryRow \ {j} : /\ recovery'[i] = recovery[i]
                                      /\ recoveryMail'[i] = recoveryMail[i]
                                      /\ openSince'[i] = openSince[i]
      /\ recovery'[j].state = "QUEUED" /\ recovery'[j].cursor = recovery[j].cursor
      /\ recovery'[j].scanned = recovery[j].scanned
      /\ recovery'[j].scheduled = recovery[j].scheduled
      /\ openSince'[j] = stepOpen
  BY <1>1, RecoveryAreTyped DEF RowType
<1>4. recovery[j].cursor = 0 /\ recoverer[j] \notin Task
  BY <1>1, TasksOK DEF RecoverySafe, RunOfJob
<1>5. RunsKept /\ RowsKept
  BY <1>1, <1>3, RecoveryAreTyped DEF RunsKept, RowsKept, RecoverySafe, RunOfJob
<1>6. EachStepOnce' /\ NothingPassedOver'
  BY <1>1, <1>3 DEF RecoverySafe, EachStepOnce, NothingPassedOver
<1>7. BehindCursor'
  <2>1. \A s \in stepOpen : s > 0
    BY RecoveryAreTyped, StepsAreFinite, RecoveryOK DEF RStep
  <2> QED BY <1>1, <1>3, <1>4, <2>1 DEF RecoverySafe, BehindCursor
<1>8. PageHoldsTheFirst'
  BY <1>1, <1>3, <1>4 DEF RecoverySafe, PageHoldsTheFirst
<1> QED BY <1>2, <1>5, <1>6, <1>7, <1>8, RunsStay DEF RecoverySafe

LEMMA TakeIsSafe ==
  ASSUME RecoverySafe, NEW t \in Task, TakeRecovery(t) PROVE RecoverySafe'
<1>0. PICK j \in RecoveryRow : \E r \in recoveryMail[j] :
        /\ recoveryMail' = [recoveryMail EXCEPT ![j] = @ \ {r}]
        /\ IF recovery[j].state \in {"COMPLETED", "FAILED"} \/ recovery[j].revision # r
              \/ recovery[j].live
           THEN UNCHANGED <<recovery, recoverer, recoveryRun>>
           ELSE /\ recovery' = [recovery EXCEPT ![j].state = "RUNNING", ![j].live = TRUE]
                /\ recoverer' = [recoverer EXCEPT ![j] = t]
                /\ recoveryRun' = [recoveryRun EXCEPT ![t] =
                     [NoRecoveryRun EXCEPT !.at = "claimed", !.job = j, !.revision = r]]
  BY DEF TakeRecovery
<1>1. PICK r \in recoveryMail[j] :
        /\ recoveryMail' = [recoveryMail EXCEPT ![j] = @ \ {r}]
        /\ IF recovery[j].state \in {"COMPLETED", "FAILED"} \/ recovery[j].revision # r
              \/ recovery[j].live
           THEN UNCHANGED <<recovery, recoverer, recoveryRun>>
           ELSE /\ recovery' = [recovery EXCEPT ![j].state = "RUNNING", ![j].live = TRUE]
                /\ recoverer' = [recoverer EXCEPT ![j] = t]
                /\ recoveryRun' = [recoveryRun EXCEPT ![t] =
                     [NoRecoveryRun EXCEPT !.at = "claimed", !.job = j, !.revision = r]]
  BY <1>0
<1>2. /\ recoveryRun[t].at = "idle"
      /\ UNCHANGED <<stepOpen, considered, openSince, reopened, recoveryFaults>>
  BY DEF TakeRecovery
<1>3. r \in Nat /\ recoveryMail' \in [RecoveryRow -> SUBSET Nat]
      /\ (\A i \in RecoveryRow \ {j} : recoveryMail'[i] = recoveryMail[i])
      /\ recovery[j].state # "NONE"
  <2>1. r \in Nat
    BY <1>1, RecoveryAreTyped
  <2>2. recovery[j].state # "NONE"
    BY <1>1 DEF RecoverySafe, RunOfJob
  <2> QED BY <1>1, <2>1, <2>2, MailTyped, RecoveryAreTyped
<1>4. CASE UNCHANGED <<recovery, recoverer, recoveryRun>>
  <2>1. RecoveryTypeOK'
    BY <1>2, <1>3, <1>4, RowTyped, RunTyped, RecoveryAreTyped, Typed
  <2>2. DecisionsKept /\ EndsKept /\ PagesKept
    BY <1>2, <1>4 DEF DecisionsKept, EndsKept, PagesKept
  <2>3. RunsKept /\ RowsKept
    BY <1>3, <1>4 DEF RunsKept, RowsKept, RecoverySafe, RunOfJob
  <2> QED BY <2>1, <2>2, <2>3, AllKept, ZenonT(90)
<1>5. CASE /\ recovery' = [recovery EXCEPT ![j].state = "RUNNING", ![j].live = TRUE]
           /\ recoverer' = [recoverer EXCEPT ![j] = t]
           /\ recoveryRun' = [recoveryRun EXCEPT ![t] =
                [NoRecoveryRun EXCEPT !.at = "claimed", !.job = j, !.revision = r]]
  <2>1. RecoveryTypeOK'
    BY <1>2, <1>3, <1>5, RowTyped, RunTyped, RecoveryAreTyped, Typed
  <2>2. /\ \A i \in RecoveryRow \ {j} : recovery'[i] = recovery[i] /\ recoverer'[i] = recoverer[i]
        /\ recovery'[j].state = "RUNNING" /\ recovery'[j].cursor = recovery[j].cursor
        /\ recovery'[j].scanned = recovery[j].scanned
        /\ recovery'[j].scheduled = recovery[j].scheduled /\ recoverer'[j] = t
    BY <1>5, RecoveryAreTyped DEF RowType
  <2>3. /\ \A u \in Task \ {t} : recoveryRun'[u] = recoveryRun[u]
        /\ recoveryRun'[t].at = "claimed" /\ recoveryRun'[t].job = j
    BY <1>5, RecoveryAreTyped DEF RunType, NoRecoveryRun
  <2>4. DecisionsKept /\ EndsKept
    BY <1>2, <2>2 DEF DecisionsKept, EndsKept
  <2>5. PagesKept
    BY <2>2, <2>3 DEF PagesKept
  <2>6. RunOfJob'
    <3>1. \A i \in RecoveryRow \ {j} : recoverer[i] # None =>
            recoverer[i] \in Task \ {t} /\ recoveryRun[recoverer[i]].job = i
            /\ recoveryRun[recoverer[i]].at # "idle"
      BY <1>2, RecoveryAreTyped DEF RecoverySafe, RunOfJob
    <3>2. \A i \in RecoveryRow : recoverer'[i] # None =>
            recoveryRun'[recoverer'[i]].at # "idle" /\ recoveryRun'[recoverer'[i]].job = i
      BY <2>2, <2>3, <3>1
    <3>3. \A u \in Task : recoveryRun'[u].at # "idle" =>
            recoveryRun'[u].job \in RecoveryRow /\ recovery'[recoveryRun'[u].job].state # "NONE"
      BY <2>2, <2>3 DEF RecoverySafe, RunOfJob
    <3>4. \A i \in RecoveryRow : recovery'[i].state = "NONE" =>
            recovery'[i].cursor = 0 /\ recoveryMail'[i] = {}
      BY <1>3, <2>2 DEF RecoverySafe, RunOfJob
    <3> QED BY <3>2, <3>3, <3>4 DEF RunOfJob
  <2>7. EachStepOnce' /\ BehindCursor' /\ NothingPassedOver' /\ PageHoldsTheFirst'
    BY <2>4, <2>5, DecisionsStay, EndsStay, PagesStay, Zenon
  <2> QED BY <2>1, <2>6, <2>7, SMTT(90) DEF RecoverySafe
<1> QED BY <1>1, <1>4, <1>5

LEMMA RunEnds ==
  ASSUME RecoverySafe, NEW t \in Task, RecoveryEnds(t)
  PROVE  /\ recoverer' \in [RecoveryRow -> Task \cup {None}] /\ recoveryRun' \in RunType
         /\ PagesKept /\ RunsKept
<1>1. recoveryRun' = [recoveryRun EXCEPT ![t] = NoRecoveryRun] /\ recoverer' = Forget(recoverer, t)
  BY DEF RecoveryEnds
<1>2. recoverer' \in [RecoveryRow -> Task \cup {None}] /\ recoveryRun' \in RunType
  BY <1>1, ForgetTyped, RunTyped
<1>3. /\ \A u \in Task \ {t} : recoveryRun'[u] = recoveryRun[u]
      /\ recoveryRun'[t].at = "idle"
      /\ \A j \in RecoveryRow : recoverer'[j] = IF recoverer[j] = t THEN None ELSE recoverer[j]
  BY <1>1, ForgetTyped, RecoveryAreTyped DEF RunType, NoRecoveryRun
<1>4. PagesKept
  BY <1>3, TasksOK DEF PagesKept
<1>5. RunsKept
  <2>1. \A j \in RecoveryRow : recoverer'[j] # None =>
          /\ recoverer'[j] = recoverer[j] /\ recoverer[j] \in Task \ {t}
          /\ recoveryRun[recoverer[j]].at # "idle"
    BY <1>3, RecoveryAreTyped DEF RecoverySafe, RunOfJob
  <2> QED BY <1>3, <2>1 DEF RunsKept
<1> QED BY <1>2, <1>4, <1>5

LEMMA RunsUnchanged ==
  ASSUME RecoverySafe, UNCHANGED <<recoverer, recoveryRun>> PROVE PagesKept /\ RunsKept
BY DEF RecoverySafe, RunOfJob, PagesKept, RunsKept

LEMMA RepairIsSafe ==
  ASSUME RecoverySafe, NEW j \in RecoveryRow, RepairRecovery(j) PROVE RecoverySafe'
<1>1. /\ recovery[j].state # "NONE"
      /\ recoveryMail' = [recoveryMail EXCEPT ![j] = @ \cup {recovery[j].revision}]
      /\ UNCHANGED <<recovery, recoverer, stepOpen, recoveryRun, considered, openSince, reopened,
                     recoveryFaults>>
  BY DEF RepairRecovery
<1>2. recovery[j].revision \in Nat
  BY RecoveryAreTyped DEF RowType
<1>3. recoveryMail' \in [RecoveryRow -> SUBSET Nat]
  BY <1>1, <1>2, MailTyped
<1>4. RecoveryTypeOK'
  BY <1>1, <1>3, RecoveryAreTyped, Typed
<1>5. DecisionsKept /\ EndsKept
  BY <1>1 DEF DecisionsKept, EndsKept
<1>6. RowsKept
  BY <1>1, RecoveryAreTyped DEF RowsKept
<1> QED BY <1>1, <1>4, <1>5, <1>6, RunsUnchanged, AllKept

LEMMA LapseIsSafe ==
  ASSUME RecoverySafe, NEW j \in RecoveryRow, RecoveryLapses(j) PROVE RecoverySafe'
<1>1. /\ recovery' = [recovery EXCEPT ![j].live = FALSE]
      /\ UNCHANGED <<recoverer, recoveryMail, stepOpen, recoveryRun, considered, openSince, reopened>>
      /\ recoveryFaults' = recoveryFaults \/ (recoveryFaults < MaxCrashes
                                              /\ recoveryFaults' = recoveryFaults + 1)
  BY SMTT(90) DEF RecoveryLapses
<1>2. recovery' \in RowType
  BY <1>1, RowTyped
<1>3. recoveryFaults' \in 0 .. MaxCrashes
  BY <1>1, RecoveryAreTyped, TasksOK
<1>4. RecoveryTypeOK'
  BY <1>1, <1>2, <1>3, RecoveryAreTyped, Typed
<1>5. \A i \in RecoveryRow :
        /\ recovery'[i].state = recovery[i].state /\ recovery'[i].cursor = recovery[i].cursor
        /\ recovery'[i].scanned = recovery[i].scanned
        /\ recovery'[i].scheduled = recovery[i].scheduled
  BY <1>1, RecoveryAreTyped DEF RowType
<1>6. DecisionsKept /\ EndsKept /\ RowsKept
  BY <1>1, <1>5 DEF DecisionsKept, EndsKept, RowsKept
<1> QED BY <1>1, <1>4, <1>6, RunsUnchanged, AllKept

LEMMA ReopenIsSafe ==
  ASSUME RecoverySafe, NEW s \in RStep, StepReopens(s) PROVE RecoverySafe'
<1>1. /\ stepOpen' = stepOpen \cup {s} /\ reopened < MaxReopened /\ reopened' = reopened + 1
      /\ UNCHANGED <<recovery, recoverer, recoveryMail, recoveryRun, considered, openSince,
                     recoveryFaults>>
  BY DEF StepReopens
<1>2. reopened' \in 0 .. MaxReopened
  BY <1>1, RecoveryAreTyped, RecoveryOK
<1>3. RecoveryTypeOK'
  BY <1>1, <1>2, RecoveryAreTyped, Typed
<1>4. DecisionsKept /\ EndsKept /\ RowsKept
  BY <1>1 DEF DecisionsKept, EndsKept, RowsKept
<1> QED BY <1>1, <1>3, <1>4, RunsUnchanged, AllKept

LEMMA GoOnIsSafe ==
  ASSUME RecoverySafe, NEW s \in RStep, StepGoesOn(s) PROVE RecoverySafe'
<1>1. /\ stepOpen' = stepOpen \ {s}
      /\ openSince' = [j \in RecoveryRow |-> openSince[j] \ {s}]
      /\ UNCHANGED <<recovery, recoverer, recoveryMail, recoveryRun, considered, reopened,
                     recoveryFaults>>
  BY DEF StepGoesOn
<1>2. openSince' \in [RecoveryRow -> SUBSET RStep]
  BY <1>1, RecoveryAreTyped
<1>3. RecoveryTypeOK'
  BY <1>1, <1>2, RecoveryAreTyped, Typed
<1>4. DecisionsKept /\ EndsKept /\ RowsKept
  BY <1>1 DEF DecisionsKept, EndsKept, RowsKept
<1> QED BY <1>1, <1>3, <1>4, RunsUnchanged, AllKept

LEMMA DenyIsSafe ==
  ASSUME RecoverySafe, NEW t \in Task, RecoveryDenied(t) PROVE RecoverySafe'
<1>1. /\ recoveryRun[t].at # "idle"
      /\ recoveryRun' = [recoveryRun EXCEPT ![t].at = "denied"]
      /\ UNCHANGED <<recovery, recoverer, recoveryMail, stepOpen, considered, openSince,
                     reopened, recoveryFaults>>
  BY DEF RecoveryDenied
<1>2. recoveryRun' \in RunType
  BY <1>1, RunTyped
<1>3. RecoveryTypeOK'
  BY <1>1, <1>2, RecoveryAreTyped, Typed
<1>4. /\ \A u \in Task \ {t} : recoveryRun'[u] = recoveryRun[u]
      /\ recoveryRun'[t].at = "denied" /\ recoveryRun'[t].job = recoveryRun[t].job
  BY <1>1, RecoveryAreTyped DEF RunType
<1>5. DecisionsKept /\ EndsKept /\ RowsKept
  BY <1>1 DEF DecisionsKept, EndsKept, RowsKept
<1>6. PagesKept
  BY <1>1, <1>4 DEF PagesKept
<1>7. RunsKept
  <2>1. \A j \in RecoveryRow : recoverer[j] # None =>
          recoverer[j] \in Task /\ recoveryRun[recoverer[j]].at # "idle"
    BY RecoveryAreTyped DEF RecoverySafe, RunOfJob
  <2>2. \A u \in Task : recoveryRun[u].at # "idle" => recoveryRun'[u].at # "idle"
    BY <1>4
  <2>3. \A u \in Task : recoveryRun'[u].at # "idle" =>
          recoveryRun[u].at # "idle" /\ recoveryRun'[u].job = recoveryRun[u].job
    BY <1>1, <1>4
  <2> QED BY <1>1, <2>1, <2>2, <2>3 DEF RunsKept
<1> QED BY <1>3, <1>5, <1>6, <1>7, AllKept

LEMMA KillIsSafe ==
  ASSUME RecoverySafe, NEW t \in Task, KillRecovery(t) PROVE RecoverySafe'
<1> DEFINE j == recoveryRun[t].job
<1>1. /\ recoveryRun[t].at # "idle" /\ recoveryFaults < MaxCrashes
      /\ recoveryFaults' = recoveryFaults + 1 /\ RecoveryEnds(t)
      /\ \/ recoveryMail' = [recoveryMail EXCEPT ![j] = @ \cup {recoveryRun[t].revision}]
         \/ recoveryMail' = recoveryMail
      /\ UNCHANGED <<recovery, stepOpen, considered, openSince, reopened>>
  BY DEF KillRecovery
<1>2. j \in RecoveryRow /\ recovery[j].state # "NONE"
  BY <1>1 DEF RecoverySafe, RunOfJob
<1>3. recoveryRun[t].revision \in Nat
  BY RecoveryAreTyped DEF RunType
<1> HIDE DEF j
<1>4. /\ recoveryMail' \in [RecoveryRow -> SUBSET Nat]
      /\ \A i \in RecoveryRow \ {j} : recoveryMail'[i] = recoveryMail[i]
  BY <1>1, <1>2, <1>3, MailTyped, RecoveryAreTyped
<1>5. recoveryFaults' \in 0 .. MaxCrashes
  BY <1>1, RecoveryAreTyped, TasksOK
<1>6. RecoveryTypeOK'
  BY <1>1, <1>4, <1>5, RecoveryAreTyped, RunEnds, Typed
<1>7. DecisionsKept /\ EndsKept
  BY <1>1 DEF DecisionsKept, EndsKept
<1>8. RowsKept
  BY <1>1, <1>2, <1>4 DEF RowsKept
<1> QED BY <1>1, <1>6, <1>7, <1>8, RunEnds, AllKept

LEMMA FailIsSafe ==
  ASSUME RecoverySafe, NEW t \in Task, FailRecovery(t) PROVE RecoverySafe'
<1> DEFINE j == recoveryRun[t].job
<1>1. /\ recoveryRun[t].at # "idle" /\ RecoveryEnds(t)
      /\ \/ recovery' = recovery
         \/ recovery' = [recovery EXCEPT ![j].state = "FAILED", ![j].live = FALSE]
      /\ UNCHANGED <<recoveryMail, stepOpen, considered, openSince, reopened, recoveryFaults>>
  BY DEF FailRecovery
<1>2. j \in RecoveryRow /\ recovery[j].state # "NONE"
  BY SMTT(90), <1>1 DEF RecoverySafe, RunOfJob
<1> HIDE DEF j
<1>3. recovery' \in RowType
  BY <1>1, <1>2, RowTyped, RecoveryAreTyped
<1>4. \A i \in RecoveryRow :
        /\ recovery'[i].cursor = recovery[i].cursor
        /\ recovery'[i].scanned = recovery[i].scanned
        /\ recovery'[i].scheduled = recovery[i].scheduled
        /\ recovery'[i].state = recovery[i].state \/ recovery'[i].state = "FAILED"
  BY SMTT(90), <1>1, <1>2, RecoveryAreTyped DEF RowType
<1>5. RecoveryTypeOK'
  BY <1>1, <1>3, RecoveryAreTyped, RunEnds, Typed
<1>6. DecisionsKept
  BY <1>1, <1>4 DEF DecisionsKept
<1>7. EndsKept /\ RowsKept
  BY <1>1, <1>4 DEF EndsKept, RowsKept
<1> QED BY SMTT(90), <1>1, <1>5, <1>6, <1>7, RunEnds, AllKept

LEMMA FinishIsSafe ==
  ASSUME RecoverySafe, NEW t \in Task, FinishPage(t) PROVE RecoverySafe'
<1> DEFINE j == recoveryRun[t].job
<1>1. /\ recoveryRun[t].at = "page" /\ recoveryRun[t].page = {} /\ RecoveryEnds(t)
      /\ UNCHANGED <<stepOpen, considered, openSince, reopened, recoveryFaults>>
  BY SMTT(90) DEF FinishPage
<1>2. \/ UNCHANGED <<recovery, recoveryMail>>
      \/ /\ recovery' = [recovery EXCEPT ![j].live = FALSE, ![j].revision = @ + 1]
         /\ recoveryMail' = [recoveryMail EXCEPT ![j] = @ \cup {recovery[j].revision + 1}]
      \/ /\ recoverer[j] = t /\ ~recoveryRun[t].full
         /\ recovery' = [recovery EXCEPT ![j].live = FALSE, ![j].state = "COMPLETED"]
         /\ recoveryMail' = recoveryMail
  BY DEF FinishPage, OwnsRecovery
<1>3. j \in RecoveryRow /\ recovery[j].state # "NONE"
  BY <1>1 DEF RecoverySafe, RunOfJob
<1>4. recoverer[j] = t /\ ~recoveryRun[t].full => openSince[j] \subseteq considered[j]
  BY <1>1, <1>3 DEF RecoverySafe, PageHoldsTheFirst
<1> HIDE DEF j
<1>5. recovery[j].revision + 1 \in Nat
  BY SMTT(90), <1>3, RecoveryAreTyped DEF RowType
<1>6. recovery' \in RowType
  BY ZenonT(90), <1>2, <1>3, RowTyped, RecoveryAreTyped
<1>7. /\ recoveryMail' \in [RecoveryRow -> SUBSET Nat]
      /\ \A i \in RecoveryRow \ {j} : recoveryMail'[i] = recoveryMail[i]
  BY <1>2, <1>3, <1>5, MailTyped, RecoveryAreTyped
<1>8. RecoveryTypeOK'
  BY <1>1, <1>6, <1>7, RecoveryAreTyped, RunEnds, Typed
<1>9. /\ \A i \in RecoveryRow \ {j} : recovery'[i] = recovery[i]
      /\ recovery'[j].cursor = recovery[j].cursor
      /\ recovery'[j].scanned = recovery[j].scanned
      /\ recovery'[j].scheduled = recovery[j].scheduled
      /\ \/ recovery'[j].state = recovery[j].state
         \/ recovery'[j].state = "COMPLETED" /\ openSince[j] \subseteq considered[j]
  <2>1. recovery \in RowType
    BY RecoveryAreTyped
  <2>2. CASE recovery' = recovery
    BY <2>2
  <2>3. CASE recovery' = [recovery EXCEPT ![j].live = FALSE, ![j].revision = @ + 1]
    BY <1>3, <2>1, <2>3 DEF RowType
  <2>4. CASE /\ recoverer[j] = t /\ ~recoveryRun[t].full
             /\ recovery' = [recovery EXCEPT ![j].live = FALSE, ![j].state = "COMPLETED"]
    BY <1>3, <1>4, <2>1, <2>4 DEF RowType
  <2> QED BY <1>2, <2>2, <2>3, <2>4
<1>10. DecisionsKept
  BY <1>1, <1>9 DEF DecisionsKept
<1>11. RowsKept
  BY <1>3, <1>7, <1>9 DEF RowsKept
<1>12. NothingPassedOver'
  BY <1>1, <1>9 DEF RecoverySafe, NothingPassedOver
<1> QED BY SMTT(90), <1>1, <1>8, <1>10, <1>11, <1>12, RunEnds, DecisionsStay, PagesStay,
  RunsStay
        DEF RecoverySafe

LEMMA ReadIsSafe ==
  ASSUME RecoverySafe, NEW t \in Task, ReadPage(t) PROVE RecoverySafe'
<1> DEFINE j == recoveryRun[t].job
           behind == {s \in stepOpen : s > recovery[j].cursor}
           P == FirstPage(behind)
           f == Cardinality(P) = PageSize
<1>1. /\ recoveryRun[t].at = "claimed"
      /\ recoveryRun' = [recoveryRun EXCEPT ![t].at = "page", ![t].page = P, ![t].full = f]
      /\ UNCHANGED <<recovery, recoverer, recoveryMail, stepOpen, considered, openSince,
                     reopened, recoveryFaults>>
  BY DEF ReadPage
<1>2. j \in RecoveryRow
  BY <1>1 DEF RecoverySafe, RunOfJob
<1>3. behind \in SUBSET RStep
  BY RecoveryAreTyped
<1>4. /\ P \in SUBSET behind /\ f \in BOOLEAN
      /\ \A s \in behind \ P : f /\ \A x \in P : x < s
  <2> HIDE DEF behind
  <2> QED BY <1>3, PageIsFirst
<1>5. /\ \A s \in behind : s \in stepOpen /\ s > recovery[j].cursor
      /\ \A s \in openSince[j] \ considered[j] : s \in behind
  BY <1>2 DEF RecoverySafe, BehindCursor
<1>6. recoveryRun[t].job = j /\ P \in SUBSET RStep
  BY <1>3, <1>4
<1> HIDE DEF j, behind, P, f
<1>7. recoveryRun' \in RunType
  <2>1. recoveryRun \in RunType
    BY RecoveryAreTyped
  <2>2. [recoveryRun[t] EXCEPT !.at = "page", !.page = P, !.full = f]
          \in [at : {"idle", "claimed", "page", "denied"}, job : RecoveryRow \cup {None},
              revision : Nat, page : SUBSET RStep, full : BOOLEAN]
    BY <1>4, <1>6, <2>1 DEF RunType
  <2>3. recoveryRun' = [recoveryRun EXCEPT
          ![t] = [recoveryRun[t] EXCEPT !.at = "page", !.page = P, !.full = f]]
    BY <1>1, <2>1 DEF RunType
  <2> QED BY <2>1, <2>2, <2>3 DEF RunType
<1>8. RecoveryTypeOK'
  BY <1>1, <1>7, RecoveryAreTyped, Typed
<1>9. /\ \A u \in Task \ {t} : recoveryRun'[u] = recoveryRun[u]
      /\ recoveryRun'[t].at = "page" /\ recoveryRun'[t].job = j
      /\ recoveryRun'[t].page = P /\ recoveryRun'[t].full = f
  BY <1>1, <1>6, RecoveryAreTyped DEF RunType
<1>10. DecisionsKept /\ EndsKept /\ RowsKept
  BY <1>1 DEF DecisionsKept, EndsKept, RowsKept
<1>11. RunsKept
  <2>1. \A i \in RecoveryRow : recoverer[i] # None =>
          recoverer[i] \in Task /\ recoveryRun[recoverer[i]].at # "idle"
    BY RecoveryAreTyped DEF RecoverySafe, RunOfJob
  <2>2. \A u \in Task : recoveryRun[u].at # "idle" => recoveryRun'[u].at # "idle"
    BY <1>9
  <2>3. \A u \in Task : recoveryRun'[u].at # "idle" =>
          recoveryRun[u].at # "idle" /\ recoveryRun'[u].job = recoveryRun[u].job
    BY <1>1, <1>6, <1>9
  <2> QED BY <1>1, <2>1, <2>2, <2>3 DEF RunsKept
<1>12. PageHoldsTheFirst'
  <2>1. ASSUME NEW i \in RecoveryRow, recoverer[i] = t PROVE i = j
    BY <2>1, <1>6, TasksOK DEF RecoverySafe, RunOfJob
  <2>2. /\ \A s \in P : s > recovery[j].cursor
        /\ \A s \in (openSince[j] \ considered[j]) \ P : f /\ \A x \in P : x < s
    BY <1>4, <1>5
  <2>3. ASSUME NEW i \in RecoveryRow, NEW u \in Task, recoverer'[i] = u,
               recoveryRun'[u].at = "page"
        PROVE  /\ \A s \in recoveryRun'[u].page : s > recovery'[i].cursor
               /\ \A s \in (openSince'[i] \ considered'[i]) \ recoveryRun'[u].page :
                    recoveryRun'[u].full /\ \A x \in recoveryRun'[u].page : x < s
    <3>1. CASE u = t
      BY <1>1, <1>9, <2>1, <2>2, <2>3, <3>1
    <3>2. CASE u # t
      <4>1. recoverer[i] = u /\ recoveryRun'[u] = recoveryRun[u] /\ recoveryRun[u].at = "page"
        BY <1>1, <1>9, <2>3, <3>2
      <4>2. /\ \A s \in recoveryRun[u].page : s > recovery[i].cursor
            /\ \A s \in (openSince[i] \ considered[i]) \ recoveryRun[u].page :
                 recoveryRun[u].full /\ \A x \in recoveryRun[u].page : x < s
        BY <4>1 DEF RecoverySafe, PageHoldsTheFirst
      <4> QED BY <1>1, <4>1, <4>2
    <3> QED BY <3>1, <3>2
  <2> QED BY <2>3 DEF PageHoldsTheFirst
<1> QED BY <1>8, <1>10, <1>11, <1>12, DecisionsStay, EndsStay, RunsStay DEF RecoverySafe

\* One step is decided about: only for the job's owner does anything change.
LEMMA ScheduleIsSafe ==
  ASSUME RecoverySafe, NEW t \in Task, ScheduleStep(t) PROVE RecoverySafe'
<1> DEFINE j == recoveryRun[t].job
           P == recoveryRun[t].page
           s == CHOOSE x \in P : \A y \in P : x <= y
<1>1. /\ recoveryRun[t].at = "page" /\ P # {}
      /\ UNCHANGED <<recoveryMail, reopened, recoveryFaults>>
  BY DEF ScheduleStep
<1>2. CASE RecoveryEnds(t) /\ UNCHANGED <<recovery, stepOpen, considered, openSince>>
  <2>1. RecoveryTypeOK'
    BY <1>1, <1>2, RecoveryAreTyped, RunEnds, Typed
  <2>2. DecisionsKept /\ EndsKept /\ RowsKept
    BY <1>1, <1>2 DEF DecisionsKept, EndsKept, RowsKept
  <2> QED BY <1>2, <2>1, <2>2, RunEnds, AllKept
<1>3. CASE OwnsRecovery(t)
  <2>1. /\ recovery' = [recovery EXCEPT ![j].cursor = s, ![j].scanned = @ + 1,
                          ![j].scheduled = IF s \in stepOpen THEN @ + 1 ELSE @]
        /\ stepOpen' = stepOpen \ {s}
        /\ considered' = [considered EXCEPT ![j] = @ \cup {s}]
        /\ openSince' = [i \in RecoveryRow |-> IF i = j THEN openSince[i] ELSE openSince[i] \ {s}]
        /\ recoveryRun' = [recoveryRun EXCEPT ![t].page = P \ {s}]
        /\ recoverer' = recoverer
    BY <1>3 DEF ScheduleStep
  <2>2. /\ j \in RecoveryRow /\ recovery[j].state = "RUNNING" /\ recoverer[j] = t
        /\ recoveryRun[t].job = j
    BY <1>1, <1>3 DEF OwnsRecovery, RecoverySafe, RunOfJob
  <2>3. P \in SUBSET RStep
    BY RecoveryAreTyped DEF RunType
  <2>4. s \in P /\ \A y \in P : s <= y
    <3>1. P \in SUBSET Nat
      BY <2>3, StepsAreFinite
    <3>2. \E x \in P : \A y \in P : x <= y
      BY <1>1, <3>1, Least
    <3> QED BY <3>2
  <2>5. /\ \A x \in P : x > recovery[j].cursor
        /\ \A x \in (openSince[j] \ considered[j]) \ P :
             recoveryRun[t].full /\ \A y \in P : y < x
    BY <1>1, <2>2 DEF RecoverySafe, PageHoldsTheFirst
  <2>6. P = recoveryRun[t].page
    OBVIOUS
  <2> HIDE DEF j, P, s
  <2>7. /\ s \in RStep /\ s \in Nat /\ s \in Cursors /\ recovery[j].cursor \in Nat
        /\ \A x \in RStep : x \in Nat
    <3>1. /\ LastStep \in Nat /\ recovery[j].cursor \in Cursors
      BY <2>2, RecoveryAreTyped, RecoveryOK DEF RowType
    <3> QED BY <2>3, <2>4, <3>1 DEF RStep, Cursors
  <2>8. /\ considered[j] \in SUBSET RStep /\ openSince[j] \in SUBSET RStep
        /\ recovery[j].scanned = Cardinality(considered[j])
        /\ recovery[j].scanned \in Nat /\ recovery[j].scheduled \in Nat
        /\ recovery[j].scheduled <= recovery[j].scanned
        /\ \A x \in considered[j] : x <= recovery[j].cursor
    <3>1. considered[j] \in SUBSET RStep /\ openSince[j] \in SUBSET RStep
      BY <2>2, RecoveryAreTyped
    <3>2. recovery[j].scanned \in Nat /\ recovery[j].scheduled \in Nat
      BY <2>2, RecoveryAreTyped DEF RowType
    <3> QED BY <2>2, <3>1, <3>2 DEF RecoverySafe, EachStepOnce
  <2>9. /\ \A i \in RecoveryRow \ {j} : /\ recovery'[i] = recovery[i]
                                        /\ considered'[i] = considered[i]
                                        /\ openSince'[i] = openSince[i] \ {s}
        /\ considered'[j] = considered[j] \cup {s} /\ openSince'[j] = openSince[j]
    BY <2>1, <2>2, RecoveryAreTyped DEF RowType
  <2>10. /\ recovery'[j].cursor = s /\ recovery'[j].scanned = recovery[j].scanned + 1
         /\ recovery'[j].scheduled \in {recovery[j].scheduled, recovery[j].scheduled + 1}
         /\ recovery'[j].state = "RUNNING"
    BY <2>1, <2>2, RecoveryAreTyped DEF RowType
  <2>11. /\ \A u \in Task \ {t} : recoveryRun'[u] = recoveryRun[u]
         /\ recoveryRun'[t].at = "page" /\ recoveryRun'[t].job = j
         /\ recoveryRun'[t].page = P \ {s} /\ recoveryRun'[t].full = recoveryRun[t].full
    BY <1>1, <2>1, <2>2, RecoveryAreTyped DEF RunType
  <2>12. RecoveryTypeOK'
    <3>1. recovery' \in RowType
      <4>1. recovery[j].scanned + 1 \in Nat /\ recovery[j].scheduled + 1 \in Nat
        BY <2>8
      <4>2. (IF s \in stepOpen THEN recovery[j].scheduled + 1 ELSE recovery[j].scheduled) \in Nat
        BY <2>8, <4>1
      <4>3. recovery \in RowType
        BY RecoveryAreTyped
      <4> QED BY <2>1, <2>2, <2>7, <4>1, <4>2, <4>3 DEF RowType
    <3>2. recoveryRun' \in RunType
      <4>1. recoveryRun \in RunType /\ P \ {s} \in SUBSET RStep
        BY <2>3, RecoveryAreTyped
      <4> QED BY <2>1, <4>1 DEF RunType
    <3>3. considered' \in [RecoveryRow -> SUBSET RStep]
      BY <2>1, <2>7, RecoveryAreTyped
    <3>4. openSince' \in [RecoveryRow -> SUBSET RStep] /\ stepOpen' \subseteq RStep
      BY <2>1, RecoveryAreTyped
    <3> QED BY SMTT(90), <1>1, <2>1, <3>1, <3>2, <3>3, <3>4, RecoveryAreTyped, Typed
  <2>13. EachStepOnce'
    <3>1. s \notin considered[j]
      BY <2>4, <2>5, <2>7, <2>8
    <3>2. Cardinality(considered'[j]) = Cardinality(considered[j]) + 1
      BY <2>8, <2>9, <3>1, StepsAreFinite, FS_AddElement
    <3>3. \A x \in considered'[j] : x <= s
      <4>1. s > recovery[j].cursor
        BY <2>4, <2>5
      <4>2. ASSUME NEW x \in considered[j] PROVE x \in Nat /\ x <= s
        <5>1. x \in RStep /\ x <= recovery[j].cursor
          BY <2>8
        <5>2. x \in Nat
          BY <5>1, <2>7
        <5> QED BY <5>1, <5>2, <4>1, <2>7
      <4> QED BY <2>7, <2>9, <4>2
    <3>4. recovery'[j].scheduled <= recovery'[j].scanned
      BY <2>8, <2>10
    <3>5. \A i \in RecoveryRow \ {j} :
            /\ recovery'[i].scanned = Cardinality(considered'[i])
            /\ recovery'[i].scheduled <= recovery'[i].scanned
            /\ \A x \in considered'[i] : x <= recovery'[i].cursor
      BY <2>9 DEF RecoverySafe, EachStepOnce
    <3> QED BY <2>8, <2>10, <3>2, <3>3, <3>4, <3>5 DEF EachStepOnce
  <2>14. NothingPassedOver'
    BY <2>9, <2>10 DEF RecoverySafe, NothingPassedOver
  <2>15. RunsKept /\ RowsKept
    <3>1. RowsKept
      BY <1>1, <2>9, <2>10 DEF RowsKept
    <3>2. \A i \in RecoveryRow : recoverer[i] # None =>
            recoverer[i] \in Task /\ recoveryRun[recoverer[i]].at # "idle"
      BY RecoveryAreTyped DEF RecoverySafe, RunOfJob
    <3>3. \A u \in Task : /\ recoveryRun'[u].at = recoveryRun[u].at
                          /\ recoveryRun'[u].job = recoveryRun[u].job
      BY <1>1, <2>2, <2>11
    <3> QED BY <2>1, <3>1, <3>2, <3>3 DEF RunsKept
  <2>16. BehindCursor'
    <3>1. \A x \in openSince[j] \ considered'[j] :
            x \in stepOpen /\ x # s /\ x > recovery[j].cursor
      BY <2>2, <2>9 DEF RecoverySafe, BehindCursor
    <3>2. \A x \in openSince[j] \ considered'[j] : x > s
      <4>1. ASSUME NEW x \in openSince[j] \ considered'[j] PROVE x > s
        <5>1. x \in RStep /\ x # s /\ x \in Nat /\ x \notin considered[j]
          BY <2>7, <2>8, <2>9, <3>1
        <5>2. CASE x \in P
          BY <2>4, <2>7, <5>1, <5>2
        <5>3. CASE x \notin P
          BY <2>4, <2>5, <2>7, <5>1, <5>3
        <5> QED BY <5>2, <5>3
      <4> QED BY <4>1
    <3>3. \A i \in RecoveryRow \ {j} : \A x \in openSince'[i] \ considered'[i] :
            x \in stepOpen' /\ x > recovery'[i].cursor
      BY <2>1, <2>9 DEF RecoverySafe, BehindCursor
    <3>4. \A x \in openSince'[j] \ considered'[j] : x \in stepOpen' /\ x > recovery'[j].cursor
      BY <2>1, <2>9, <2>10, <3>1, <3>2
    <3> QED BY <3>3, <3>4 DEF BehindCursor
  <2>17. PageHoldsTheFirst'
    <3>1. ASSUME NEW i \in RecoveryRow, NEW u \in Task, recoverer'[i] = u,
                 recoveryRun'[u].at = "page"
          PROVE  /\ \A x \in recoveryRun'[u].page : x > recovery'[i].cursor
                 /\ \A x \in (openSince'[i] \ considered'[i]) \ recoveryRun'[u].page :
                      recoveryRun'[u].full /\ \A y \in recoveryRun'[u].page : y < x
      <4>1. CASE u = t
        <5>1. i = j
          BY <2>1, <2>2, <3>1, <4>1, TasksOK DEF RecoverySafe, RunOfJob
        <5>2. \A x \in P \ {s} : x > s
          BY <2>3, <2>4, <2>7
        <5>3. \A x \in (openSince[j] \ considered'[j]) \ (P \ {s}) :
                recoveryRun[t].full /\ \A y \in P \ {s} : y < x
          BY <2>5, <2>9
        <5> QED BY <2>9, <2>10, <2>11, <4>1, <5>1, <5>2, <5>3
      <4>2. CASE u # t
        <5>1. /\ recoverer[i] = u /\ recoveryRun'[u] = recoveryRun[u]
              /\ recoveryRun[u].at = "page" /\ i # j
          BY <2>1, <2>2, <2>11, <3>1, <4>2
        <5>2. /\ \A x \in recoveryRun[u].page : x > recovery[i].cursor
              /\ \A x \in (openSince[i] \ considered[i]) \ recoveryRun[u].page :
                   recoveryRun[u].full /\ \A y \in recoveryRun[u].page : y < x
          BY <5>1 DEF RecoverySafe, PageHoldsTheFirst
        <5> QED BY <2>9, <5>1, <5>2
      <4> QED BY <4>1, <4>2
    <3> QED BY <3>1 DEF PageHoldsTheFirst
  <2> QED BY <2>12, <2>13, <2>14, <2>15, <2>16, <2>17, RunsStay, SMTT(90) DEF RecoverySafe
<1> QED BY <1>2, <1>3 DEF ScheduleStep

----------------------------------------------------------------------------
LEMMA RecoveryInitIsSafe == ASSUME RecoveryInit PROVE RecoverySafe
<1>1. 0 \in 0 .. LastStep /\ 0 \in 0 .. MaxReopened /\ 0 \in 0 .. MaxCrashes
  BY RecoveryOK, TasksOK
<1>2. RecoveryTypeOK
  BY <1>1 DEF RecoveryInit, RecoveryTypeOK, NoRecoveryRun
<1>3. EachStepOnce
  BY FS_EmptySet DEF RecoveryInit, EachStepOnce
<1>4. NothingPassedOver /\ BehindCursor
  BY DEF RecoveryInit, NothingPassedOver, BehindCursor
<1>5. RunOfJob /\ PageHoldsTheFirst
  BY TasksOK DEF RecoveryInit, RunOfJob, PageHoldsTheFirst, NoRecoveryRun
<1> QED BY <1>2, <1>3, <1>4, <1>5 DEF RecoverySafe

LEMMA RecoveryStepIsSafe == ASSUME RecoverySafe, [RecoveryNext]_recoveryVars PROVE RecoverySafe'
<1>1. CASE UNCHANGED recoveryVars
  <2>1. UNCHANGED <<recovery, recoverer, recoveryMail, stepOpen, recoveryRun, considered,
                    openSince, reopened, recoveryFaults>>
    BY <1>1 DEF recoveryVars
  <2>2. RecoveryTypeOK'
    BY <2>1, RecoveryAreTyped, Typed
  <2>3. DecisionsKept /\ EndsKept /\ RowsKept
    BY <2>1 DEF DecisionsKept, EndsKept, RowsKept
  <2> QED BY <2>1, <2>2, <2>3, RunsUnchanged, AllKept
<1>2. ASSUME NEW j \in RecoveryRow,
             RequestRecovery(j) \/ RecoveryLapses(j) \/ RepairRecovery(j)
      PROVE  RecoverySafe'
  BY <1>2, RequestIsSafe, LapseIsSafe, RepairIsSafe
<1>3. ASSUME NEW t \in Task, RecoveryTask(t) \/ RecoveryDenied(t) \/ KillRecovery(t)
      PROVE  RecoverySafe'
  BY <1>3, TakeIsSafe, ReadIsSafe, ScheduleIsSafe, FinishIsSafe, FailIsSafe, DenyIsSafe,
     KillIsSafe DEF RecoveryTask
<1>4. ASSUME NEW s \in RStep, StepReopens(s) \/ StepGoesOn(s) PROVE RecoverySafe'
  BY <1>4, ReopenIsSafe, GoOnIsSafe
<1> QED BY <1>1, <1>2, <1>3, <1>4 DEF RecoveryNext

\* For every number of jobs, tasks and steps and every size of a page: a recovery that is
\* COMPLETED has decided about every step that was open when it was requested and that
\* nobody else took up since, about each step at most once, and it counts them truly
\* (process_recovery, _schedule; backend/app/modules/builds/recovery.py).
THEOREM RecoveryIsSafe == RecoverySpec => []RecoverySafe
<1>1. RecoveryInit => RecoverySafe
  BY RecoveryInitIsSafe
<1>2. RecoverySafe /\ [RecoveryNext]_recoveryVars => RecoverySafe'
  BY RecoveryStepIsSafe
<1> QED BY <1>1, <1>2, PTL DEF RecoverySpec

-----------------------------------------------------------------------------
(* The scan of a changing listing: what has been read tells one listing. *)

\* What the platform may list.
Listed(rows) == rows \in Rows /\ IsInjective(rows)

\* The rows that come before a page.
Above(rows, page, o) == \E i \in 1 .. Len(rows) : i <= (page - 1) * RowsPerPage /\ rows[i] = o

\* All pages of the scan so far were read from one listing, which had all that is steady.
ReadFrom(rows) ==
  /\ Listed(rows) /\ \A o \in steady : \E i \in 1 .. Len(rows) : rows[i] = o
  /\ scan.total = Len(rows) /\ \A o \in Object : o \in evidence <=> Above(rows, scan.page, o)

AnsweredFrom(rows) ==
  /\ Listed(rows) /\ \A o \in steady : \E i \in 1 .. Len(rows) : rows[i] = o
  /\ reply = [rows |-> Page(rows, scan.page), total |-> Len(rows)]

\* After one change the total tells the listing now from the one before.
OneListing ==
  \E before \in Rows :
    /\ changes = 0 => before = listing
    /\ before = listing \/ Len(before) # Len(listing)
    /\ scan.page > 1 => \E rows \in {before, listing} : ReadFrom(rows)
    /\ reply # <<>>  => \E rows \in {before, listing} : AnsweredFrom(rows)

\* The matches that are counted among what has been read: none, the candidate, or too many.
Counts(matches, candidate, read) ==
  /\ matches \in 0 .. 2
  /\ matches = 0 => read \cap Alike = {} /\ candidate = {}
  /\ matches = 1 => read \cap Alike = candidate

Counted == Counts(scan.matches, scan.candidate, evidence)

ScanInv ==
  /\ ScanTypeOK /\ scan.page > 0
  /\ \A o \in steady : \E i \in 1 .. Len(listing) : listing[i] = o
  /\ ~scan.done =>
       /\ result = "MORE" /\ Counted
       /\ scan.page = 1 => evidence = {} /\ scan.matches = 0
       /\ changes <= 1 => OneListing
  /\ scan.done => reply = <<>>
  /\ OneChangeIsNoticed

-----------------------------------------------------------------------------
(* Listings and their pages.                                               *)

LEMMA RowsAre ==
  ASSUME NEW rows \in Rows
  PROVE  /\ rows \in Seq(Object) /\ Len(rows) \in Nat /\ Len(rows) <= Cardinality(Object)
         /\ DOMAIN rows = 1 .. Len(rows) /\ \A i \in 1 .. Len(rows) : rows[i] \in Object
<1>1. Cardinality(Object) \in Nat
  BY ScanOK, FS_CardinalityType
<1>2. PICK n \in 0 .. Cardinality(Object) : rows \in [1 .. n -> Object]
  BY DEF Rows
<1>3. rows \in Seq(Object)
  BY <1>1, <1>2, SeqDef
<1>4. Len(rows) \in Nat /\ DOMAIN rows = 1 .. Len(rows) /\ rows \in [1 .. Len(rows) -> Object]
  BY <1>3, LenProperties
<1>5. Len(rows) = n
  BY <1>1, <1>2, <1>4
<1> QED
  BY <1>1, <1>2, <1>3, <1>4, <1>5

LEMMA AreRows ==
  ASSUME NEW rows \in Seq(Object), Len(rows) <= Cardinality(Object)
  PROVE  rows \in Rows
<1>1. Len(rows) \in Nat /\ rows \in [1 .. Len(rows) -> Object]
  BY LenProperties
<1>2. Cardinality(Object) \in Nat
  BY ScanOK, FS_CardinalityType
<1>3. Len(rows) \in 0 .. Cardinality(Object)
  BY <1>1, <1>2
<1> QED
  BY <1>1, <1>3 DEF Rows

\* A listing without repetition is no longer than there are objects.
LEMMA ListedLength ==
  ASSUME NEW rows \in Seq(Object), IsInjective(rows)
  PROVE  Len(rows) <= Cardinality(Object)
<1>1. Len(rows) \in Nat /\ rows \in [1 .. Len(rows) -> Object] /\ DOMAIN rows = 1 .. Len(rows)
  BY LenProperties
<1>2. IsFiniteSet(1 .. Len(rows)) /\ Cardinality(1 .. Len(rows)) = Len(rows)
  <2>1. /\ IsFiniteSet(1 .. Len(rows))
        /\ Cardinality(1 .. Len(rows)) = IF 1 > Len(rows) THEN 0 ELSE Len(rows) - 1 + 1
    BY SMTT(90), <1>1, FS_Interval
  <2> QED
    BY <1>1, <2>1
<1>3. Cardinality(Object) \in Nat /\ IsFiniteSet(Object)
  BY ScanOK, FS_CardinalityType
<1>4. SUFFICES ASSUME Cardinality(Object) < Len(rows) PROVE FALSE
  BY <1>1, <1>3
<1>5. \E x, y \in 1 .. Len(rows) : x # y /\ rows[x] = rows[y]
  BY <1>1, <1>2, <1>3, <1>4, FS_PigeonHole
<1> QED
  BY <1>1, <1>5 DEF IsInjective

LEMMA PageBounds ==
  ASSUME NEW page \in Nat \ {0}
  PROVE  /\ (page - 1) * RowsPerPage \in Nat /\ page * RowsPerPage \in Nat
         /\ page * RowsPerPage = (page - 1) * RowsPerPage + RowsPerPage
         /\ (page + 1 - 1) * RowsPerPage = page * RowsPerPage
<1>1. RowsPerPage \in Nat
  BY ScanOK
<1> QED
  BY <1>1, SMTT(90)

\* The last page holds the end of the listing.
LEMMA LastPage ==
  ASSUME NEW total \in Nat, NEW page \in Nat \ {0}, ~(page < Pages(total))
  PROVE  total <= page * RowsPerPage
<1>1. RowsPerPage \in Nat /\ RowsPerPage > 0
  BY ScanOK
<1>2. PICK q \in Int : q = (total + RowsPerPage - 1) \div RowsPerPage
  BY <1>1
<1>3. total + RowsPerPage - 1 < (q + 1) * RowsPerPage
  BY <1>1, <1>2, SMTT(90)
<1>4. q <= page
  BY <1>1, <1>2 DEF Pages
<1>5. (q + 1) * RowsPerPage <= (page + 1) * RowsPerPage
  BY <1>1, <1>4, SMTT(90)
<1>6. (page + 1) * RowsPerPage = page * RowsPerPage + RowsPerPage /\ page * RowsPerPage \in Nat
  BY <1>1, SMTT(90)
<1> QED
  BY <1>1, <1>3, <1>5, <1>6, SMTT(90)

LEMMA PageIs ==
  ASSUME NEW rows \in Rows, NEW page \in Nat \ {0}
  PROVE  /\ Page(rows, page) \in Rows
         /\ \A o \in Object : o \in ToSet(Page(rows, page)) <=>
              \E i \in 1 .. Len(rows) :
                (page - 1) * RowsPerPage < i /\ i <= page * RowsPerPage /\ rows[i] = o
<1>1. /\ rows \in Seq(Object) /\ Len(rows) \in Nat /\ Len(rows) <= Cardinality(Object)
      /\ \A i \in 1 .. Len(rows) : rows[i] \in Object
  BY RowsAre
<1>2. PICK a \in Nat, b \in Nat : a = (page - 1) * RowsPerPage /\ b = page * RowsPerPage /\ a < b
  BY PageBounds, ScanOK
<1>3. PICK e \in Nat : e = IF b < Len(rows) THEN b ELSE Len(rows)
  BY <1>1
<1>4. PICK p : p = Page(rows, page) /\ p = SubSeq(rows, a + 1, e)
  BY <1>2, <1>3 DEF Page
<1>5. \A i \in a + 1 .. e : rows[i] \in Object
  BY <1>1, <1>3
<1>6. /\ p \in Seq(Object) /\ Len(p) = IF a + 1 <= e THEN e - (a + 1) + 1 ELSE 0
      /\ \A i \in 1 .. e - (a + 1) + 1 : p[i] = rows[a + 1 + i - 1]
  <2>1. a + 1 \in Int /\ e \in Int
    OBVIOUS
  <2> QED
    BY <1>4, <1>5, <2>1, SubSeqProperties
<1>7. Len(p) <= Len(rows) /\ p \in Rows
  <2>1. Len(p) <= Len(rows)
    BY <1>1, <1>3, <1>6
  <2>2. Cardinality(Object) \in Nat /\ Len(p) \in Nat
    BY <1>6, ScanOK, FS_CardinalityType
  <2> QED
    BY <1>1, <1>6, <2>1, <2>2, AreRows
<1>8. DOMAIN p = 1 .. Len(p)
  BY <1>6, LenProperties
<1>9. ASSUME NEW o \in Object, o \in ToSet(p)
      PROVE  \E i \in 1 .. Len(rows) : a < i /\ i <= b /\ rows[i] = o
  <2>1. PICK k \in 1 .. Len(p) : p[k] = o
    BY <1>8, <1>9 DEF ToSet
  <2>2. k \in 1 .. e - (a + 1) + 1 /\ a + k \in 1 .. Len(rows) /\ a < a + k /\ a + k <= b
    <3>1. PICK l : l = Len(p) /\ (l = IF a + 1 <= e THEN e - (a + 1) + 1 ELSE 0)
      BY <1>6
    <3>2. l = e - a /\ k \in 1 .. l
      BY <2>1, <3>1
    <3> QED
      BY <1>1, <1>3, <3>2
  <2>3. rows[a + k] = o
    <3>1. p[k] = rows[a + 1 + k - 1] /\ a + 1 + k - 1 = a + k
      BY <1>6, <2>2
    <3> QED
      BY <2>1, <3>1
  <2> QED
    BY <2>2, <2>3
<1>10. ASSUME NEW o \in Object, NEW i \in 1 .. Len(rows), a < i, i <= b, rows[i] = o
       PROVE  o \in ToSet(p)
  <2>1. i - a \in 1 .. Len(p) /\ i - a \in 1 .. e - (a + 1) + 1 /\ a + 1 + (i - a) - 1 = i
    BY <1>1, <1>3, <1>6, <1>10
  <2>2. p[i - a] = o
    BY <1>6, <1>10, <2>1
  <2> QED
    BY <1>8, <2>1, <2>2 DEF ToSet
<1> QED
  BY <1>2, <1>4, <1>7, <1>9, <1>10

\* A row more.
LEMMA Grown ==
  ASSUME NEW rows, Listed(rows), NEW o \in Object, o \notin ToSet(rows), NEW k \in 1 .. Len(rows) + 1,
         NEW more, more = InsertAt(rows, k, o)
  PROVE  /\ Listed(more) /\ Len(more) = Len(rows) + 1
         /\ \A i \in 1 .. Len(rows) : \E j \in 1 .. Len(more) : more[j] = rows[i]
<1>1. /\ rows \in Rows /\ rows \in Seq(Object) /\ Len(rows) \in Nat /\ DOMAIN rows = 1 .. Len(rows)
      /\ \A i \in 1 .. Len(rows) : rows[i] \in Object
      /\ \A i, j \in 1 .. Len(rows) : rows[i] = rows[j] => i = j
  BY RowsAre DEF Listed, IsInjective
<1>2. k \in Nat /\ k > 0 /\ k <= Len(rows) + 1
  BY <1>1
<1>3. PICK top, end : top = SubSeq(rows, 1, k - 1) /\ end = SubSeq(rows, k, Len(rows))
  OBVIOUS
<1>4. /\ top \in Seq(Object) /\ Len(top) = k - 1
      /\ \A i \in 1 .. k - 1 : top[i] = rows[i]
  <2>1. 1 \in Int /\ k - 1 \in Int /\ \A i \in 1 .. k - 1 : rows[i] \in Object
    BY <1>1, <1>2
  <2>2. /\ SubSeq(rows, 1, k - 1) \in Seq(Object)
        /\ Len(SubSeq(rows, 1, k - 1)) = IF 1 <= k - 1 THEN k - 1 - 1 + 1 ELSE 0
        /\ \A i \in 1 .. k - 1 - 1 + 1 : SubSeq(rows, 1, k - 1)[i] = rows[1 + i - 1]
    BY <2>1, SubSeqProperties
  <2>3. \A i \in 1 .. k - 1 : i \in 1 .. k - 1 - 1 + 1 /\ 1 + i - 1 = i
    BY <1>2
  <2> QED
    BY <1>2, <1>3, <2>2, <2>3
<1>5. /\ end \in Seq(Object) /\ Len(end) = Len(rows) - k + 1
      /\ \A i \in 1 .. Len(rows) - k + 1 : end[i] = rows[k + i - 1]
  <2>1. k \in Int /\ Len(rows) \in Int /\ \A i \in k .. Len(rows) : rows[i] \in Object
    BY <1>1, <1>2
  <2>2. /\ SubSeq(rows, k, Len(rows)) \in Seq(Object)
        /\ Len(SubSeq(rows, k, Len(rows))) = IF k <= Len(rows) THEN Len(rows) - k + 1 ELSE 0
        /\ \A i \in 1 .. Len(rows) - k + 1 : SubSeq(rows, k, Len(rows))[i] = rows[k + i - 1]
    BY <2>1, SubSeqProperties
  <2> QED
    BY SMTT(90), <1>1, <1>2, <1>3, <2>2
<1>6. PICK start : /\ start = top \o <<o>> /\ start \in Seq(Object) /\ Len(start) = k
                   /\ \A i \in 1 .. k : start[i] = IF i < k THEN rows[i] ELSE o
  <2>1. <<o>> \in Seq(Object) /\ Len(<<o>>) = 1 /\ <<o>>[1] = o
    OBVIOUS
  <2>2. /\ top \o <<o>> \in Seq(Object) /\ Len(top \o <<o>>) = k - 1 + 1
        /\ \A i \in 1 .. k - 1 + 1 : (top \o <<o>>)[i] = IF i <= k - 1 THEN top[i] ELSE <<o>>[i - (k - 1)]
    BY <1>4, <2>1, ConcatProperties
  <2>3. ASSUME NEW i \in 1 .. k PROVE (top \o <<o>>)[i] = IF i < k THEN rows[i] ELSE o
    <3>1. i \in 1 .. k - 1 + 1 /\ (i < k => i \in 1 .. k - 1 /\ i <= k - 1)
      BY <1>2
    <3>2. i >= k => ~(i <= k - 1) /\ i - (k - 1) = 1
      BY <1>2
    <3> QED
      BY <1>2, <1>4, <2>1, <2>2, <3>1, <3>2
  <2>4. Len(top \o <<o>>) = k
    BY <1>2, <2>2
  <2>5. PICK start : start = top \o <<o>>
    OBVIOUS
  <2> QED
    BY <2>2, <2>3, <2>4, <2>5
<1>7. /\ more = start \o end /\ more \in Seq(Object) /\ Len(more) = Len(rows) + 1
      /\ \A i \in 1 .. Len(rows) + 1 : more[i] = IF i < k THEN rows[i] ELSE IF i = k THEN o ELSE rows[i - 1]
  <2>1. more = start \o end
    BY <1>3, <1>6 DEF InsertAt
  <2>2. /\ start \o end \in Seq(Object) /\ Len(start \o end) = k + (Len(rows) - k + 1)
        /\ \A i \in 1 .. k + (Len(rows) - k + 1) : (start \o end)[i] = IF i <= k THEN start[i] ELSE end[i - k]
    <3>1. /\ start \o end \in Seq(Object) /\ Len(start \o end) = Len(start) + Len(end)
          /\ \A i \in 1 .. Len(start) + Len(end) :
               (start \o end)[i] = IF i <= Len(start) THEN start[i] ELSE end[i - Len(start)]
      <4>1. start \in Seq(Object) /\ end \in Seq(Object)
        BY <1>5, <1>6
      <4> QED
        BY <4>1, ConcatProperties
    <3>2. Len(start) = k /\ Len(end) = Len(rows) - k + 1
      BY <1>5, <1>6
    <3> QED
      BY <3>1, <3>2, Zenon
  <2>3. ASSUME NEW i \in 1 .. Len(rows) + 1
        PROVE  more[i] = IF i < k THEN rows[i] ELSE IF i = k THEN o ELSE rows[i - 1]
    <3>1. i \in 1 .. k + (Len(rows) - k + 1) /\ (i <= k => i \in 1 .. k)
      BY <1>1, <1>2
    <3>2. i > k => i - k \in 1 .. Len(rows) - k + 1 /\ k + (i - k) - 1 = i - 1
      BY <1>1, <1>2
    <3>3. CASE i <= k
      BY <1>2, <1>6, <2>1, <2>2, <3>1, <3>3
    <3>4. CASE i > k
      BY <1>2, <1>5, <2>1, <2>2, <3>1, <3>2, <3>4
    <3> QED
      BY <1>2, <3>3, <3>4
  <2> QED
    BY <1>1, <1>2, <2>1, <2>2, <2>3
<1>8. DOMAIN more = 1 .. Len(rows) + 1
  BY <1>7, LenProperties
<1>9. \A i \in 1 .. Len(rows) : rows[i] # o
  BY <1>1 DEF ToSet
<1>10. IsInjective(more)
  <2>1. ASSUME NEW i \in 1 .. Len(rows) + 1, NEW j \in 1 .. Len(rows) + 1, more[i] = more[j] PROVE i = j
    <3>1. ASSUME NEW x \in 1 .. Len(rows) + 1
          PROVE  /\ x < k => x \in 1 .. Len(rows) /\ more[x] = rows[x]
                 /\ x = k => more[x] = o
                 /\ x > k => x - 1 \in 1 .. Len(rows) /\ more[x] = rows[x - 1]
      <4>1. (x < k => x \in 1 .. Len(rows)) /\ (x > k => x - 1 \in 1 .. Len(rows) /\ ~(x < k) /\ x # k)
        BY <1>1, <1>2
      <4>2. more[x] = IF x < k THEN rows[x] ELSE IF x = k THEN o ELSE rows[x - 1]
        BY <1>7
      <4>3. x = k => ~(x < k)
        BY <1>2
      <4> QED
        BY <4>1, <4>2, <4>3
    <3> QED
      BY SMTT(90), <1>1, <1>2, <1>9, <2>1, <3>1
  <2> QED
    BY <1>8, <2>1 DEF IsInjective
<1>11. more \in Rows
  BY <1>7, <1>10, ListedLength, AreRows
<1>12. ASSUME NEW i \in 1 .. Len(rows) PROVE \E j \in 1 .. Len(more) : more[j] = rows[i]
  <2>1. CASE i < k
    <3>1. i \in 1 .. Len(rows) + 1 /\ more[i] = rows[i]
      BY <1>1, <1>7, <2>1
    <3> QED
      BY <1>7, <3>1
  <2>2. CASE ~(i < k)
    <3>1. i + 1 \in 1 .. Len(rows) + 1 /\ ~(i + 1 < k) /\ i + 1 # k /\ i + 1 - 1 = i
      BY <1>1, <1>2, <2>2
    <3>2. more[i + 1] = rows[i]
      BY <1>7, <3>1
    <3> QED
      BY <1>7, <3>1, <3>2
  <2> QED
    BY <2>1, <2>2
<1> QED
  BY <1>7, <1>10, <1>11, <1>12 DEF Listed

\* A row less.
LEMMA Shrunk ==
  ASSUME NEW rows, Listed(rows), NEW k \in 1 .. Len(rows), NEW less, less = RemoveAt(rows, k)
  PROVE  /\ Listed(less) /\ Len(less) = Len(rows) - 1
         /\ \A i \in 1 .. Len(rows) : i # k => \E j \in 1 .. Len(less) : less[j] = rows[i]
<1>1. /\ rows \in Rows /\ rows \in Seq(Object) /\ Len(rows) \in Nat /\ DOMAIN rows = 1 .. Len(rows)
      /\ \A i \in 1 .. Len(rows) : rows[i] \in Object
      /\ \A i, j \in 1 .. Len(rows) : rows[i] = rows[j] => i = j
  BY RowsAre DEF Listed, IsInjective
<1>2. k \in Nat /\ k > 0 /\ k <= Len(rows)
  BY <1>1
<1>3. PICK top, end : top = SubSeq(rows, 1, k - 1) /\ end = SubSeq(rows, k + 1, Len(rows))
  OBVIOUS
<1>4. /\ top \in Seq(Object) /\ Len(top) = k - 1
      /\ \A i \in 1 .. k - 1 : top[i] = rows[i]
  <2>1. 1 \in Int /\ k - 1 \in Int /\ \A i \in 1 .. k - 1 : rows[i] \in Object
    BY <1>1, <1>2
  <2>2. /\ SubSeq(rows, 1, k - 1) \in Seq(Object)
        /\ Len(SubSeq(rows, 1, k - 1)) = IF 1 <= k - 1 THEN k - 1 - 1 + 1 ELSE 0
        /\ \A i \in 1 .. k - 1 - 1 + 1 : SubSeq(rows, 1, k - 1)[i] = rows[1 + i - 1]
    BY <2>1, SubSeqProperties
  <2>3. \A i \in 1 .. k - 1 : i \in 1 .. k - 1 - 1 + 1 /\ 1 + i - 1 = i
    BY <1>2
  <2> QED
    BY <1>2, <1>3, <2>2, <2>3
<1>5. /\ end \in Seq(Object) /\ Len(end) = Len(rows) - k
      /\ \A i \in 1 .. Len(rows) - k : end[i] = rows[k + i]
  <2>1. k + 1 \in Int /\ Len(rows) \in Int /\ \A i \in k + 1 .. Len(rows) : rows[i] \in Object
    BY <1>1, <1>2
  <2>2. /\ SubSeq(rows, k + 1, Len(rows)) \in Seq(Object)
        /\ Len(SubSeq(rows, k + 1, Len(rows))) = IF k + 1 <= Len(rows) THEN Len(rows) - (k + 1) + 1 ELSE 0
        /\ \A i \in 1 .. Len(rows) - (k + 1) + 1 : SubSeq(rows, k + 1, Len(rows))[i] = rows[k + 1 + i - 1]
    BY <2>1, SubSeqProperties
  <2>3. \A i \in 1 .. Len(rows) - k : i \in 1 .. Len(rows) - (k + 1) + 1 /\ k + 1 + i - 1 = k + i
    BY <1>1, <1>2
  <2> QED
    <3>1. Len(end) = Len(rows) - k
      <4>1. Len(end) = IF k + 1 <= Len(rows) THEN Len(rows) - (k + 1) + 1 ELSE 0
        BY <1>3, <2>2
      <4>2. PICK l \in Nat : l = Len(rows)
        BY <1>1
      <4> QED
        BY <1>2, <4>1, <4>2
    <3>2. ASSUME NEW i \in 1 .. Len(rows) - k PROVE end[i] = rows[k + i]
      <4>1. i \in 1 .. Len(rows) - (k + 1) + 1 /\ k + 1 + i - 1 = k + i
        BY <2>3
      <4>2. end[i] = rows[k + 1 + i - 1]
        BY <1>3, <2>2, <4>1
      <4> QED
        BY <4>1, <4>2
    <3> QED
      BY SMTT(90), <1>3, <2>2, <3>1, <3>2
<1>6. /\ less = top \o end /\ less \in Seq(Object) /\ Len(less) = Len(rows) - 1
      /\ \A i \in 1 .. Len(rows) - 1 : less[i] = IF i < k THEN rows[i] ELSE rows[i + 1]
  <2>1. less = top \o end
    BY <1>3 DEF RemoveAt
  <2>2. /\ top \o end \in Seq(Object) /\ Len(top \o end) = k - 1 + (Len(rows) - k)
        /\ \A i \in 1 .. k - 1 + (Len(rows) - k) : (top \o end)[i] = IF i <= k - 1 THEN top[i] ELSE end[i - (k - 1)]
    <3>1. /\ top \o end \in Seq(Object) /\ Len(top \o end) = Len(top) + Len(end)
          /\ \A i \in 1 .. Len(top) + Len(end) :
               (top \o end)[i] = IF i <= Len(top) THEN top[i] ELSE end[i - Len(top)]
      <4>1. top \in Seq(Object) /\ end \in Seq(Object)
        BY <1>4, <1>5
      <4> QED
        BY <4>1, ConcatProperties
    <3>2. Len(top) = k - 1 /\ Len(end) = Len(rows) - k
      BY <1>4, <1>5
    <3> QED
      BY <3>1, <3>2, Zenon
  <2>3. ASSUME NEW i \in 1 .. Len(rows) - 1
        PROVE  less[i] = IF i < k THEN rows[i] ELSE rows[i + 1]
    <3>1. i \in 1 .. k - 1 + (Len(rows) - k) /\ (i < k => i <= k - 1 /\ i \in 1 .. k - 1)
      BY <1>1, <1>2
    <3>2. ~(i < k) => ~(i <= k - 1) /\ i - (k - 1) \in 1 .. Len(rows) - k /\ k + (i - (k - 1)) = i + 1
      BY <1>1, <1>2
    <3>3. CASE i < k
      BY <1>4, <2>1, <2>2, <3>1, <3>3
    <3>4. CASE ~(i < k)
      BY SMTT(90), <1>5, <2>1, <2>2, <3>1, <3>2, <3>4
    <3> QED
      BY <3>3, <3>4
  <2> QED
    BY SMTT(90), <1>1, <1>2, <2>1, <2>2, <2>3
<1>7. DOMAIN less = 1 .. Len(rows) - 1
  BY <1>6, LenProperties
<1>8. IsInjective(less)
  <2>1. ASSUME NEW i \in 1 .. Len(rows) - 1, NEW j \in 1 .. Len(rows) - 1, less[i] = less[j] PROVE i = j
    <3>1. /\ i < k => i \in 1 .. Len(rows) /\ less[i] = rows[i]
          /\ ~(i < k) => i + 1 \in 1 .. Len(rows) /\ less[i] = rows[i + 1]
      BY SMTT(90), <1>1, <1>2, <1>6
    <3>2. /\ j < k => j \in 1 .. Len(rows) /\ less[j] = rows[j]
          /\ ~(j < k) => j + 1 \in 1 .. Len(rows) /\ less[j] = rows[j + 1]
      BY SMTT(90), <1>1, <1>2, <1>6
    <3> QED
      BY <1>1, <1>2, <2>1, <3>1, <3>2
  <2> QED
    BY <1>7, <2>1 DEF IsInjective
<1>9. less \in Rows
  BY <1>6, <1>8, ListedLength, AreRows
<1>10. /\ Len(less) = Len(rows) - 1
       /\ \A i \in 1 .. Len(rows) - 1 : less[i] = IF i < k THEN rows[i] ELSE rows[i + 1]
  BY <1>6
<1>11. ASSUME NEW i \in 1 .. Len(rows), i # k PROVE \E j \in 1 .. Len(less) : less[j] = rows[i]
  <2>1. CASE i < k
    <3>1. i \in 1 .. Len(rows) - 1
      BY <1>1, <1>2, <2>1
    <3>2. less[i] = rows[i]
      BY <1>10, <2>1, <3>1
    <3>3. i \in 1 .. Len(less)
      BY <1>10, <3>1
    <3> QED
      BY <3>2, <3>3
  <2>2. CASE ~(i < k)
    <3>1. i - 1 \in 1 .. Len(rows) - 1 /\ ~(i - 1 < k) /\ i - 1 + 1 = i
      BY <1>1, <1>2, <1>11, <2>2
    <3>2. less[i - 1] = rows[i]
      BY <1>10, <3>1
    <3>3. i - 1 \in 1 .. Len(less)
      BY <1>10, <3>1
    <3> QED
      BY <3>2, <3>3
  <2> QED
    BY <2>1, <2>2
<1> QED
  BY <1>6, <1>8, <1>9, <1>11 DEF Listed

-----------------------------------------------------------------------------
(* The invariant of a scan.                                                *)

ScanRow == [page : Nat, total : Nat, seen : Nat, matches : 0 .. 2,
            candidate : SUBSET Object, done : BOOLEAN]

LEMMA ScanInvInit == ScanInit => ScanInv
<1> SUFFICES ASSUME ScanInit PROVE ScanInv
  OBVIOUS
<1>1. /\ listing \in Rows /\ IsInjective(listing)
      /\ scan = [page |-> 1, total |-> 0, seen |-> 0, matches |-> 0, candidate |-> {}, done |-> TRUE]
      /\ result = "UNKNOWN" /\ evidence = {} /\ reply = <<>> /\ steady = {} /\ changes = 0
  BY DEF ScanInit, NewScan
<1>2. ScanTypeOK
  BY <1>1, ScanOK DEF ScanTypeOK
<1>3. scan.page = 1 /\ scan.done
  BY <1>1
<1> QED
  BY <1>1, <1>2, <1>3 DEF ScanInv, OneChangeIsNoticed

\* A new scan sees the listing as it is.
LEMMA StartKeeps == ASSUME ScanInv, StartScan PROVE ScanInv'
<1>1. /\ scan' = [page |-> 1, total |-> 0, seen |-> 0, matches |-> 0, candidate |-> {}, done |-> FALSE]
      /\ result' = "MORE" /\ evidence' = {} /\ reply' = <<>> /\ steady' = ToSet(listing) /\ changes' = 0
      /\ listing' = listing
  BY DEF StartScan, NewScan
<1>2. listing \in Rows /\ IsInjective(listing)
  BY DEF ScanInv, ScanTypeOK
<1>3. ToSet(listing) \subseteq Object /\ \A o \in ToSet(listing) : \E i \in 1 .. Len(listing) : listing[i] = o
  BY <1>2, RowsAre DEF ToSet
<1>4. scan' \in ScanRow /\ scan'.page = 1 /\ scan'.matches = 0 /\ scan'.candidate = {} /\ ~scan'.done
  BY <1>1 DEF ScanRow
<1>5. ScanTypeOK'
  BY <1>1, <1>2, <1>3, <1>4, ScanOK DEF ScanTypeOK, ScanRow
<1>6. OneListing'
  BY <1>1, <1>2, <1>4 DEF OneListing
<1> QED
  BY <1>1, <1>3, <1>4, <1>5, <1>6 DEF ScanInv, Counted, Counts, OneChangeIsNoticed

\* A page is read from the listing as it is now.
LEMMA ReadKeeps == ASSUME ScanInv, ReadRows PROVE ScanInv'
<1>1. /\ ~scan.done /\ reply' = [rows |-> Page(listing, scan.page), total |-> Len(listing)]
      /\ UNCHANGED <<listing, scan, result, evidence, steady, changes>>
  BY DEF ReadRows
<1>2. listing \in Rows /\ IsInjective(listing) /\ scan.page \in Nat \ {0}
  BY DEF ScanInv, ScanTypeOK
<1>3. Page(listing, scan.page) \in Rows /\ Len(listing) \in Nat
  BY <1>2, PageIs, RowsAre
<1>4. ScanTypeOK'
  BY <1>1, <1>3 DEF ScanInv, ScanTypeOK
<1>5. ASSUME changes <= 1 PROVE OneListing'
  <2>1. PICK before \in Rows :
          /\ changes = 0 => before = listing
          /\ before = listing \/ Len(before) # Len(listing)
          /\ scan.page > 1 => \E rows \in {before, listing} : ReadFrom(rows)
    BY <1>1, <1>5 DEF ScanInv, OneListing
  <2>2. \A rows : ReadFrom(rows) => ReadFrom(rows)'
    BY <1>1 DEF ReadFrom, Listed, Above
  <2>3. AnsweredFrom(listing)'
    BY <1>1, <1>2 DEF AnsweredFrom, Listed, ScanInv
  <2> QED
    BY <1>1, <2>1, <2>2, <2>3 DEF OneListing
<1> QED
  BY <1>1, <1>4, <1>5 DEF ScanInv, Counted, Counts, OneChangeIsNoticed

\* A change of the listing during the scan.
LEMMA ChangeKeeps ==
  ASSUME ScanInv, Listed(listing'), Len(listing') # Len(listing), changes' = changes + 1, changes < MaxChanges,
         steady' \subseteq steady, \A o \in steady' : \E i \in 1 .. Len(listing') : listing'[i] = o,
         UNCHANGED <<scan, result, evidence, reply>>
  PROVE  ScanInv'
<1>1. ScanTypeOK'
  BY ScanOK DEF ScanInv, ScanTypeOK, Listed
<1>2. ASSUME ~scan.done, changes' <= 1 PROVE OneListing'
  <2>1. changes \in Nat /\ changes = 0
    BY <1>2, ScanOK DEF ScanInv, ScanTypeOK
  <2>2. /\ listing \in Rows
        /\ scan.page > 1 => ReadFrom(listing)
        /\ reply # <<>> => AnsweredFrom(listing)
    BY <1>2, <2>1 DEF ScanInv, ScanTypeOK, OneListing
  <2>3. \A rows : (ReadFrom(rows) => ReadFrom(rows)') /\ (AnsweredFrom(rows) => AnsweredFrom(rows)')
    BY DEF ReadFrom, AnsweredFrom, Listed, Above
  <2> QED
    BY <2>1, <2>2, <2>3 DEF OneListing
<1>3. OneChangeIsNoticed'
  BY ScanOK DEF ScanInv, ScanTypeOK, OneChangeIsNoticed
<1> QED
  BY <1>1, <1>2, <1>3 DEF ScanInv, Counted

LEMMA GrowsKeeps == ASSUME ScanInv, NEW o \in Object, ListingGrows(o) PROVE ScanInv'
<1>1. PICK k \in 1 .. Len(listing) + 1 : listing' = InsertAt(listing, k, o)
  BY DEF ListingGrows
<1>2. /\ changes < MaxChanges /\ o \notin ToSet(listing) /\ changes' = changes + 1
      /\ UNCHANGED <<scan, result, evidence, reply, steady>>
  BY DEF ListingGrows
<1>3. Listed(listing) /\ Len(listing) \in Nat /\ \A x \in steady : \E i \in 1 .. Len(listing) : listing[i] = x
  BY RowsAre DEF ScanInv, ScanTypeOK, Listed
<1>4. /\ Listed(listing') /\ Len(listing') = Len(listing) + 1
      /\ \A i \in 1 .. Len(listing) : \E j \in 1 .. Len(listing') : listing'[j] = listing[i]
  BY SMTT(90), <1>1, <1>2, <1>3, Grown
<1>5. \A x \in steady' : \E i \in 1 .. Len(listing') : listing'[i] = x
  BY <1>2, <1>3, <1>4
<1> QED
  BY <1>2, <1>3, <1>4, <1>5, ChangeKeeps

LEMMA ShrinksKeeps == ASSUME ScanInv, NEW o \in Object, ListingShrinks(o) PROVE ScanInv'
<1>1. PICK k \in 1 .. Len(listing) : listing[k] = o /\ listing' = RemoveAt(listing, k)
  BY DEF ListingShrinks
<1>2. /\ changes < MaxChanges /\ changes' = changes + 1 /\ steady' = steady \ {o}
      /\ UNCHANGED <<scan, result, evidence, reply>>
  BY DEF ListingShrinks
<1>3. Listed(listing) /\ Len(listing) \in Nat /\ \A x \in steady : \E i \in 1 .. Len(listing) : listing[i] = x
  BY RowsAre DEF ScanInv, ScanTypeOK, Listed
<1>4. /\ Listed(listing') /\ Len(listing') = Len(listing) - 1
      /\ \A i \in 1 .. Len(listing) : i # k => \E j \in 1 .. Len(listing') : listing'[j] = listing[i]
  BY SMTT(90), <1>1, <1>3, Shrunk
<1>5. \A x \in steady' : \E i \in 1 .. Len(listing') : listing'[i] = x
  BY <1>1, <1>2, <1>3, <1>4
<1> QED
  BY <1>2, <1>3, <1>4, <1>5, ChangeKeeps

\* The counting of matches: none, one, or too many.
LEMMA CountOn ==
  ASSUME NEW matches, NEW candidate, NEW read, Counts(matches, candidate, read), NEW rows \in SUBSET Object,
         NEW alike, alike = rows \cap Alike, NEW many, many = matches + Cardinality(alike),
         NEW now, many < 2 => now = many, many >= 2 => now = 2,
         NEW found, matches = 0 /\ alike # {} => \E o \in alike : found = {o},
         matches # 0 \/ alike = {} => found = candidate
  PROVE  Counts(now, found, read \cup rows)
<1>0. matches \in 0 .. 2
  BY DEF Counts
<1>1. IsFiniteSet(alike)
  BY ScanOK, FS_Subset
<1>2. PICK n \in Nat : n = Cardinality(alike) /\ (n = 0 <=> alike = {})
  BY <1>1, FS_CardinalityType, FS_EmptySet
<1>3. n = 1 => \E o : alike = {o}
  BY <1>1, <1>2, FS_Singleton
<1>4. now \in 0 .. 2
  BY <1>0, <1>2
<1>5. ASSUME now = 0 PROVE (read \cup rows) \cap Alike = {} /\ found = {}
  <2>1. matches = 0 /\ n = 0
    BY <1>0, <1>2, <1>5
  <2>2. alike = {} /\ found = candidate
    BY <1>2, <2>1
  <2> QED
    BY <2>1, <2>2 DEF Counts
<1>6. ASSUME now = 1 PROVE (read \cup rows) \cap Alike = found
  <2>1. (matches = 1 /\ alike = {}) \/ (matches = 0 /\ n = 1)
    BY <1>0, <1>2, <1>6
  <2>2. CASE matches = 1 /\ alike = {}
    BY <2>2 DEF Counts
  <2>3. CASE matches = 0 /\ n = 1
    <3>1. PICK o : alike = {o}
      BY <1>3, <2>3
    <3>2. found = {o}
      BY <2>3, <3>1
    <3> QED
      BY <2>3, <3>1, <3>2 DEF Counts
  <2> QED
    BY <2>1, <2>2, <2>3
<1> QED
  BY <1>4, <1>5, <1>6 DEF Counts

\* A page that agrees with those before was read from the same listing.
LEMMA PageAdds ==
  ASSUME ScanInv, ~scan.done, reply # <<>>, Agrees, changes <= 1
  PROVE  \E before \in Rows :
           /\ changes = 0 => before = listing
           /\ before = listing \/ Len(before) # Len(listing)
           /\ \E rows \in {before, listing} :
                /\ Listed(rows) /\ \A o \in steady : \E i \in 1 .. Len(rows) : rows[i] = o
                /\ reply.total = Len(rows)
                /\ \A o \in Object : o \in evidence \cup ToSet(reply.rows) <=> Above(rows, scan.page + 1, o)
<1>1. PICK before \in Rows :
        /\ changes = 0 => before = listing
        /\ before = listing \/ Len(before) # Len(listing)
        /\ scan.page > 1 => \E rows \in {before, listing} : ReadFrom(rows)
        /\ \E rows \in {before, listing} : AnsweredFrom(rows)
  BY DEF ScanInv, OneListing
<1>2. PICK rows \in {before, listing} : AnsweredFrom(rows)
  BY <1>1
<1>3. /\ Listed(rows) /\ (\A o \in steady : \E i \in 1 .. Len(rows) : rows[i] = o)
      /\ reply.total = Len(rows) /\ reply.rows = Page(rows, scan.page)
  BY <1>2 DEF AnsweredFrom
<1>4. PICK page \in Nat \ {0} : page = scan.page
  BY DEF ScanInv, ScanTypeOK
<1>5. PICK a \in Nat, b \in Nat : /\ a = (page - 1) * RowsPerPage /\ b = page * RowsPerPage /\ a < b
                                  /\ (page + 1 - 1) * RowsPerPage = b
  BY PageBounds, ScanOK
<1>6. \A o \in Object : o \in ToSet(reply.rows) <=> \E i \in 1 .. Len(rows) : a < i /\ i <= b /\ rows[i] = o
  <2>1. rows \in Rows
    BY <1>3 DEF Listed
  <2>2. \A o \in Object : o \in ToSet(Page(rows, page)) <=>
          \E i \in 1 .. Len(rows) :
            (page - 1) * RowsPerPage < i /\ i <= page * RowsPerPage /\ rows[i] = o
    BY <2>1, PageIs
  <2>3. \A o \in Object : o \in ToSet(Page(rows, page)) <=>
          \E i \in 1 .. Len(rows) : a < i /\ i <= b /\ rows[i] = o
    BY <1>5, <2>2, Zenon
  <2> QED
    BY <1>3, <1>4, <2>3
<1>7. \A o \in Object : o \in evidence <=> \E i \in 1 .. Len(rows) : i <= a /\ rows[i] = o
  <2>1. CASE page = 1
    <3>1. evidence = {}
      BY <1>4, <2>1 DEF ScanInv
    <3>2. a = 0
      BY <1>5, <2>1, ScanOK
    <3>3. \A i \in 1 .. Len(rows) : ~(i <= a)
      BY <1>3, <3>2, RowsAre DEF Listed
    <3> QED
      BY <3>1, <3>3
  <2>2. CASE page # 1
    <3>1. PICK past \in {before, listing} : ReadFrom(past)
      BY <1>1, <1>4, <2>2
    <3>2. scan.total = Len(past) /\ scan.total = reply.total
      BY <1>4, <2>2, <3>1 DEF ReadFrom, Agrees
    <3>3. past = rows
      <4>1. Len(past) = Len(rows)
        BY <1>3, <3>2
      <4>2. CASE before = listing
        BY <1>2, <3>1, <4>2
      <4>3. CASE Len(before) # Len(listing)
        BY <1>2, <3>1, <4>1, <4>3
      <4> QED
        BY <1>1, <4>2, <4>3
    <3> QED
      BY <1>4, <1>5, <3>1, <3>3 DEF ReadFrom, Above
  <2> QED
    BY <2>1, <2>2
<1>8. ASSUME NEW o \in Object
      PROVE  o \in evidence \cup ToSet(reply.rows) <=> \E i \in 1 .. Len(rows) : i <= b /\ rows[i] = o
  <2>1. \A i \in 1 .. Len(rows) : i <= b <=> i <= a \/ (a < i /\ i <= b)
    BY <1>3, <1>5, RowsAre DEF Listed
  <2> QED
    BY <1>6, <1>7, <2>1
<1>9. \A o \in Object : o \in evidence \cup ToSet(reply.rows) <=> Above(rows, scan.page + 1, o)
  BY <1>4, <1>5, <1>8 DEF Above
<1> QED
  BY <1>1, <1>3, <1>9

\* A page is evaluated: the scan goes on, gives up, or concludes.
LEMMA FinishKeeps == ASSUME ScanInv, FinishRows PROVE ScanInv'
<1>1. /\ scan \in ScanRow /\ scan.page \in Nat \ {0} /\ scan.matches \in 0 .. 2 /\ scan.seen \in Nat
      /\ scan.candidate \subseteq Object /\ reply # <<>> /\ ~scan.done /\ reply' = <<>>
      /\ reply \in [rows : Rows, total : Nat] /\ UNCHANGED <<listing, steady, changes>>
      /\ evidence' = evidence \cup ToSet(reply.rows)
  <2>1. scan \in ScanRow /\ scan.page > 0
    BY DEF ScanInv, ScanTypeOK, ScanRow
  <2>2. reply # <<>> /\ reply' = <<>> /\ evidence' = evidence \cup ToSet(reply.rows)
        /\ UNCHANGED <<listing, steady, changes>>
    BY DEF FinishRows
  <2>3. ~scan.done /\ reply \in [rows : Rows, total : Nat]
    BY <2>2 DEF ScanInv, ScanTypeOK
  <2> QED
    BY <2>1, <2>2, <2>3 DEF ScanRow
<1>2. reply.rows \in Rows /\ reply.total \in Nat /\ Len(reply.rows) \in Nat /\ ToSet(reply.rows) \subseteq Object
  <2>1. reply.rows \in Rows /\ reply.total \in Nat
    BY SMTT(90), <1>1
  <2> QED
    BY <2>1, RowsAre DEF ToSet
<1>3. PICK alike, many, now, found, seen, next :
        /\ alike = ToSet(reply.rows) \cap Alike /\ many = scan.matches + Cardinality(alike)
        /\ now = (IF many < 2 THEN many ELSE 2) /\ seen = scan.seen + Len(reply.rows)
        /\ found = (IF scan.matches = 0 /\ alike # {} THEN {CHOOSE o \in alike : TRUE} ELSE scan.candidate)
        /\ next = [scan EXCEPT !.total = reply.total, !.seen = seen, !.matches = now, !.candidate = found]
  OBVIOUS
<1>4. IF ~Agrees
      THEN scan' = [scan EXCEPT !.done = TRUE] /\ result' = "UNKNOWN"
      ELSE IF scan.page < Pages(reply.total)
      THEN scan' = [next EXCEPT !.page = next.page + 1] /\ result' = "MORE"
      ELSE /\ scan' = [next EXCEPT !.done = TRUE]
           /\ result' = IF next.seen = reply.total /\ now = 1 THEN "COMPLETE" ELSE "UNKNOWN"
  BY <1>3 DEF FinishRows
<1>5. Counted
  BY <1>1 DEF ScanInv
<1>6. Counts(now, found, evidence')
  <2>1. IsFiniteSet(alike) /\ Cardinality(alike) \in Nat /\ many \in Nat
    <3>1. IsFiniteSet(alike)
      BY <1>3, ScanOK, FS_Subset
    <3> QED
      BY <1>1, <1>3, <3>1, FS_CardinalityType
  <2>2. (many < 2 => now = many) /\ (many >= 2 => now = 2)
    BY <1>3, <2>1
  <2>3. scan.matches = 0 /\ alike # {} => \E o \in alike : found = {o}
    BY <1>3
  <2>4. scan.matches # 0 \/ alike = {} => found = scan.candidate
    BY <1>3
  <2>5. Counts(scan.matches, scan.candidate, evidence)
    BY <1>5 DEF Counted
  <2>6. PICK rows, read, matches, candidate :
          rows = ToSet(reply.rows) /\ read = evidence /\ matches = scan.matches /\ candidate = scan.candidate
    OBVIOUS
  <2>7. rows \in SUBSET Object
    BY <1>2, <2>6
  <2>8. alike = rows \cap Alike
    BY <1>3, <2>6
  <2>9. many = matches + Cardinality(alike)
    BY <1>3, <2>6
  <2>10. matches = 0 /\ alike # {} => \E o \in alike : found = {o}
    BY <2>3, <2>6
  <2>11. matches # 0 \/ alike = {} => found = candidate
    BY <2>4, <2>6
  <2>12. Counts(matches, candidate, read)
    BY <2>5, <2>6
  <2>13. Counts(now, found, read \cup rows)
    BY ZenonT(90), <2>2, <2>7, <2>8, <2>9, <2>10, <2>11, <2>12, CountOn
  <2>14. evidence' = read \cup rows
    BY <1>1, <2>6
  <2> QED
    BY <2>13, <2>14
<1>7. found \subseteq Object
  BY <1>1, <1>3, ScanOK
<1>8. seen \in Nat
  BY <1>1, <1>2, <1>3
<1>9. /\ next \in ScanRow /\ next.page = scan.page /\ next.total = reply.total /\ next.matches = now
      /\ next.candidate = found /\ next.done = FALSE
  <2>1. now \in 0 .. 2
    BY <1>6 DEF Counts
  <2> QED
    BY ZenonT(90), <1>1, <1>2, <1>3, <1>7, <1>8, <2>1 DEF ScanRow
<1>10. evidence' \subseteq Object
  BY <1>1, <1>2 DEF ScanInv, ScanTypeOK
<1>11. CASE ~Agrees
  <2>1. scan' = [scan EXCEPT !.done = TRUE] /\ result' = "UNKNOWN"
    BY <1>4, <1>11
  <2>2. scan' \in ScanRow /\ scan'.done = TRUE /\ scan'.page = scan.page
    BY <1>1, <2>1 DEF ScanRow
  <2>3. ScanTypeOK'
    BY <1>1, <1>10, <2>1, <2>2 DEF ScanInv, ScanTypeOK, ScanRow
  <2> QED
    BY <1>1, <2>1, <2>2, <2>3 DEF ScanInv, OneChangeIsNoticed
<1>12. CASE Agrees /\ scan.page < Pages(reply.total)
  <2>1. scan' = [next EXCEPT !.page = next.page + 1] /\ result' = "MORE"
    BY <1>4, <1>12
  <2>2. /\ scan' \in ScanRow /\ scan'.page = scan.page + 1 /\ scan'.total = reply.total
        /\ scan'.matches = now /\ scan'.candidate = found /\ scan'.done = FALSE
    BY <1>1, <1>9, <2>1 DEF ScanRow
  <2>3. ScanTypeOK'
    BY SMTT(90), <1>1, <1>10, <2>1, <2>2 DEF ScanInv, ScanTypeOK, ScanRow
  <2>4. Counted'
    BY <1>6, <2>2 DEF Counted
  <2>5. ASSUME changes <= 1 PROVE OneListing'
    <3>1. PICK before \in Rows :
            /\ changes = 0 => before = listing
            /\ before = listing \/ Len(before) # Len(listing)
            /\ \E rows \in {before, listing} :
                 /\ Listed(rows) /\ \A o \in steady : \E i \in 1 .. Len(rows) : rows[i] = o
                 /\ reply.total = Len(rows)
                 /\ \A o \in Object : o \in evidence \cup ToSet(reply.rows) <=> Above(rows, scan.page + 1, o)
      BY <1>1, <1>12, <2>5, PageAdds
    <3>2. PICK rows \in {before, listing} :
            /\ Listed(rows) /\ \A o \in steady : \E i \in 1 .. Len(rows) : rows[i] = o
            /\ reply.total = Len(rows)
            /\ \A o \in Object : o \in evidence \cup ToSet(reply.rows) <=> Above(rows, scan.page + 1, o)
      BY <3>1
    <3>3. ReadFrom(rows)'
      BY <1>1, <2>2, <3>2 DEF ReadFrom, Listed, Above
    <3> QED
      BY <1>1, <3>1, <3>3 DEF OneListing
  <2>6. scan'.page > 0 /\ scan'.page # 1
    BY <1>1, <2>2
  <2> QED
    BY <1>1, <2>1, <2>2, <2>3, <2>4, <2>5, <2>6 DEF ScanInv, OneChangeIsNoticed
<1>13. CASE Agrees /\ ~(scan.page < Pages(reply.total))
  <2>1. /\ scan' = [next EXCEPT !.done = TRUE]
        /\ result' = IF next.seen = reply.total /\ now = 1 THEN "COMPLETE" ELSE "UNKNOWN"
    BY <1>4, <1>13
  <2>2. scan' \in ScanRow /\ scan'.page = scan.page /\ scan'.candidate = found /\ scan'.done = TRUE
    BY <1>9, <2>1 DEF ScanRow
  <2>3. ScanTypeOK'
    BY <1>1, <1>10, <2>1, <2>2 DEF ScanInv, ScanTypeOK, ScanRow
  <2>4. ASSUME result' = "COMPLETE", changes' <= 1
        PROVE  steady' \subseteq evidence' /\ evidence' \cap Alike = scan'.candidate
    <3>1. now = 1 /\ changes <= 1
      BY <1>1, <2>1, <2>4
    <3>2. PICK before \in Rows :
            \E rows \in {before, listing} :
              /\ Listed(rows) /\ \A o \in steady : \E i \in 1 .. Len(rows) : rows[i] = o
              /\ reply.total = Len(rows)
              /\ \A o \in Object : o \in evidence \cup ToSet(reply.rows) <=> Above(rows, scan.page + 1, o)
      BY <1>1, <1>13, <3>1, PageAdds
    <3>3. PICK rows \in {before, listing} :
            /\ Listed(rows) /\ \A o \in steady : \E i \in 1 .. Len(rows) : rows[i] = o
            /\ reply.total = Len(rows)
            /\ \A o \in Object : o \in evidence \cup ToSet(reply.rows) <=> Above(rows, scan.page + 1, o)
      BY <3>2
    <3>4. Len(rows) \in Nat /\ Len(rows) <= scan.page * RowsPerPage
      BY <1>1, <1>2, <1>13, <3>3, LastPage
    <3>5. PICK page \in Nat, b \in Nat : page = scan.page /\ b = page * RowsPerPage /\ (page + 1 - 1) * RowsPerPage = b
      BY <1>1, PageBounds
    <3>6. \A i \in 1 .. Len(rows) : i <= b
      BY <3>4, <3>5
    <3>7. steady \subseteq Object
      BY DEF ScanInv, ScanTypeOK
    <3>8. steady \subseteq evidence \cup ToSet(reply.rows)
      <4>1. ASSUME NEW o \in steady PROVE o \in evidence \cup ToSet(reply.rows)
        <5>1. o \in Object /\ \E i \in 1 .. Len(rows) : rows[i] = o
          BY <3>3, <3>7
        <5>2. PICK i \in 1 .. Len(rows) : rows[i] = o
          BY <5>1
        <5>3. Above(rows, page + 1, o)
          BY <3>5, <3>6, <5>2 DEF Above
        <5>4. Above(rows, scan.page + 1, o)
          BY <3>5, <5>3
        <5> QED
          BY <3>3, <5>1, <5>4
      <4> QED
        BY <4>1
    <3> QED
      BY <1>1, <1>6, <2>2, <3>1, <3>8 DEF Counts
  <2>5. OneChangeIsNoticed'
    BY <2>4 DEF OneChangeIsNoticed
  <2> QED
    BY <1>1, <2>2, <2>3, <2>5 DEF ScanInv
<1> QED
  BY <1>11, <1>12, <1>13

LEMMA ScanInvNext == ScanInv /\ [ScanNext]_scanVars => ScanInv'
<1> SUFFICES ASSUME ScanInv, [ScanNext]_scanVars PROVE ScanInv'
  OBVIOUS
<1>1. CASE UNCHANGED scanVars
  <2>1. UNCHANGED <<listing, scan, result, evidence, reply, steady, changes>>
    BY <1>1 DEF scanVars
  <2>2. \A rows : (ReadFrom(rows) => ReadFrom(rows)') /\ (AnsweredFrom(rows) => AnsweredFrom(rows)')
    BY <2>1 DEF ReadFrom, AnsweredFrom, Listed, Above
  <2>3. OneListing => OneListing'
    BY <2>1, <2>2 DEF OneListing
  <2>4. ScanTypeOK' /\ OneChangeIsNoticed' /\ (Counted => Counted')
    BY <2>1 DEF ScanInv, ScanTypeOK, OneChangeIsNoticed, Counted, Counts
  <2> QED
    BY <2>1, <2>3, <2>4 DEF ScanInv
<1> QED
  BY <1>1, StartKeeps, ReadKeeps, FinishKeeps, GrowsKeeps, ShrinksKeeps DEF ScanNext

\* A scan that takes one object for the step's has read every object that was listed from
\* its beginning to its end, and the one is the only one of its name among those that it
\* read, if the listing changed once at most meanwhile: however many objects there are, and
\* however few of them are on a page.
THEOREM ScanIsSafe == ScanSpec => []ScanSafe
<1>1. ScanInv => ScanSafe
  BY DEF ScanInv, ScanSafe
<1> QED
  BY <1>1, ScanInvInit, ScanInvNext, PTL DEF ScanSpec

=============================================================================
