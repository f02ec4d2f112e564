--------------------------- MODULE ChargingProofs ---------------------------
(***************************************************************************)
(* The smart charging service, whatever profiles the server sends and for  *)
(* every value of the constants: its types, that a limit is never due      *)
(* again at the moment it was computed for, that RAM and flash agree, and  *)
(* with what the server was told where it can know, that no transaction    *)
(* begins with the profile of an earlier one that the service saw, and,    *)
(* for plain profiles, that the hardware has the limit of the moment and   *)
(* the composite schedule tells the limits to come.                        *)
(***************************************************************************)
EXTENDS SmartCharging, FiniteSetTheorems, FunctionTheorems, WellFoundedInduction, TLAPS

-----------------------------------------------------------------------------
(* Numbers *)

\* A set of natural numbers has a least one, and Least is it.
LEMMA LeastIn ==
    ASSUME NEW S, S \subseteq Nat, S # {}
    PROVE  Least(S) \in S /\ \A k \in S : Least(S) <= k
<1> DEFINE R == OpToRel(<, Nat)
<1>1. \E m \in S : \A k \in S : ~(<<k, m>> \in R)
  BY NatLessThanWellFounded, WFMin
<1>2. \A k, m \in S : <<k, m>> \in R <=> k < m
  BY DEF OpToRel
<1>3. \E m \in S : \A k \in S : ~(k < m)
  BY <1>1, <1>2, Zenon
<1>4. \A k, m \in S : ~(k < m) => m <= k
  OBVIOUS
<1>5. \E m \in S : \A k \in S : m <= k
  BY <1>3, <1>4, Zenon
<1> QED
  BY <1>5, Zenon DEF Least

\* The least of natural numbers that are all greater than t is greater than t.
LEMMA LeastLater ==
    ASSUME NEW S, S # {}, NEW t \in Nat, \A x \in S : x \in Nat /\ t < x
    PROVE  Least(S) \in Nat /\ t < Least(S)
BY LeastIn

\* A set of stack levels has a highest one, and Highest is it.
LEMMA HighestIn ==
    ASSUME NEW S, S \subseteq Level, S # {}
    PROVE  Highest(S) \in S /\ \A k \in S : k <= Highest(S)
<1> DEFINE D == {MaxLevel - l : l \in S}
<1>0. MaxLevel \in Nat /\ S \subseteq 0..MaxLevel
  BY LimitsAssumption DEF Level
<1>1. D \subseteq Nat /\ D # {}
  <2>1. \A l \in S : MaxLevel - l \in Nat
    BY <1>0
  <2> QED
    BY <2>1
<1>2. PICK d \in D : \A k \in D : d <= k
  BY <1>1, LeastIn
<1>3. PICK m \in S : d = MaxLevel - m
  BY <1>2
<1>4. \A k \in S : MaxLevel - k \in D
  OBVIOUS
<1>5. \A k \in S : k <= m
  BY <1>0, <1>2, <1>3, <1>4
<1> QED
  BY <1>5, Zenon DEF Highest

\* The remainder of the code is smaller than the divisor, and negative only for a negative number.
LEMMA RemainderType ==
    ASSUME NEW a \in Int, NEW b \in Nat \ {0}
    PROVE  /\ Remainder(a, b) \in Int
           /\ Remainder(a, b) < b /\ -b < Remainder(a, b)
           /\ a >= 0 => Remainder(a, b) <= a
           /\ a < 0 => a <= Remainder(a, b)
<1>1. \A x \in Nat : x % b \in 0..(b - 1) /\ x % b <= x
  OBVIOUS
<1>2. CASE a >= 0
  BY <1>1, <1>2 DEF Remainder
<1>3. CASE a < 0
  <2>1. -a \in Nat /\ ~(a >= 0)
    BY <1>3
  <2>2. (-a) % b \in 0..(b - 1) /\ (-a) % b <= -a
    BY <1>1, <2>1
  <2> QED
    BY <2>1, <2>2, <1>3 DEF Remainder
<1> QED
  BY <1>2, <1>3

-----------------------------------------------------------------------------
(* One profile *)

\* The point in time to which a schedule is relative is a number, and the cycle of a recurring
\* one that contains t, or that is the first to come, ends after t (calculateLimit).
LEMMA BasisType ==
    ASSUME NEW p \in Profile, NEW t \in Time, NEW begin \in Time
    PROVE  /\ Cycle(p) \in Nat \ {0}
           /\ Basis(p, t, begin) \in Int
           /\ Recurring(p) => t < Basis(p, t, begin) + Cycle(p)
<1>1. Cycle(p) \in Nat \ {0}
  BY LimitsAssumption DEF Cycle
<1>2. p.start \in Nat /\ t \in Nat /\ begin \in Nat
  BY DEF Profile, Time
<1>3. t - p.start \in Int
  BY <1>2
<1>4. /\ Remainder(t - p.start, Cycle(p)) \in Int
      /\ Remainder(t - p.start, Cycle(p)) < Cycle(p)
  BY <1>1, <1>3, RemainderType
<1> QED
  BY <1>1, <1>2, <1>4 DEF Basis

\* The periods to come are places in the list of periods.
LEMMA ComingType ==
    ASSUME NEW p \in Profile, NEW t \in Time, NEW begin \in Time
    PROVE  /\ p.periods \in Seq(Period)
           /\ Coming(p, t, begin) \subseteq 1..Len(p.periods)
           /\ \A i \in 1..Len(p.periods) : /\ p.periods[i] \in Period
                                           /\ p.periods[i].at \in Nat
                                           /\ p.periods[i].limit \in 0..Unlimited
           /\ Coming(p, t, begin) # {} => Least(Coming(p, t, begin)) \in Coming(p, t, begin)
<1>1. p.periods \in Seq(Period) /\ DOMAIN p.periods = 1..Len(p.periods)
  BY DEF Profile
<1>2. Coming(p, t, begin) \subseteq 1..Len(p.periods)
  BY <1>1 DEF Coming
<1>3. \A i \in 1..Len(p.periods) : p.periods[i] \in Period
  BY <1>1
<1>4. Coming(p, t, begin) \subseteq Nat
  BY <1>1, <1>2
<1> QED
  BY <1>1, <1>2, <1>3, <1>4, LeastIn DEF Period

\* A profile that defines a limit has a period in force, and its limit is a rate.
LEMMA LimitOfType ==
    ASSUME NEW p \in Profile, NEW t \in Time, NEW begin \in Time, Defined(p, t, begin)
    PROVE  LimitOf(p, t, begin) \in ChargeRate
<1> DEFINE i == InForce(p, t, begin)
<1>1. i \in 1..Len(p.periods)
  <2>1. Len(p.periods) \in Nat /\ i > 0
    BY ComingType DEF Defined
  <2>2. CASE Coming(p, t, begin) = {}
    BY <2>1, <2>2 DEF InForce
  <2>3. CASE Coming(p, t, begin) # {}
    <3>1. Least(Coming(p, t, begin)) \in 1..Len(p.periods)
      BY <2>3, ComingType
    <3>2. i = Least(Coming(p, t, begin)) - 1
      BY <2>3 DEF InForce
    <3> QED
      BY <2>1, <3>1, <3>2
  <2> QED
    BY <2>2, <2>3
<1>2. p.periods[i].limit \in 0..Unlimited /\ p.min \in (0..Unlimited) \cup {-1} /\ Unlimited \in Nat
  BY <1>1, ComingType, LimitsAssumption DEF Profile
<1>3. Larger(p.periods[i].limit, p.min) \in 0..Unlimited
  BY <1>2 DEF Larger
<1>4. Unlimited \in 0..Unlimited
  BY <1>2
<1> QED
  BY <1>3, <1>4 DEF LimitOf, ChargeRate

\* Every boundary by which a profile bounds the time of the next change is later than t.
LEMMA BoundariesLater ==
    ASSUME NEW p \in Profile, NEW t \in Time, NEW begin \in Time
    PROVE  \A x \in Caps(p, t, begin) \cup Restart(p, t, begin) : x \in Nat /\ t < x
<1>1. p.from \in Nat /\ p.start \in Nat /\ p.duration \in Nat /\ t \in Nat
  BY DEF Profile, Time
<1> DEFINE basis == Basis(p, t, begin)
<1>2. ASSUME NEW x \in Caps(p, t, begin) PROVE x \in Nat /\ t < x
  <2>1. CASE Early(p, t) /\ x = p.from
    BY <1>1, <2>1 DEF Early
  <2>2. CASE p.start > t /\ x = p.start
    BY <1>1, <2>2
  <2>3. CASE Recurring(p) /\ x = basis + Cycle(p)
    BY <1>1, <2>3, BasisType
  <2>4. CASE Running(p, t, begin) /\ p.duration > 0 /\ x = basis + p.duration
    <3>1. basis \in Int /\ t - basis < p.duration
      BY <2>4, BasisType DEF Running, Offset
    <3> QED
      BY <1>1, <2>4, <3>1
  <2> QED
    BY <2>1, <2>2, <2>3, <2>4 DEF Caps
<1>3. ASSUME NEW x \in Restart(p, t, begin) PROVE x \in Nat /\ t < x
  <2> DEFINE i == Least(Coming(p, t, begin))
  <2>1. Coming(p, t, begin) # {} /\ x = basis + p.periods[i].at
    BY DEF Restart
  <2>2. i \in Coming(p, t, begin) /\ p.periods[i].at \in Nat
    BY <2>1, ComingType
  <2>3. basis \in Int /\ p.periods[i].at > t - basis
    BY <2>2, BasisType DEF Coming, Offset
  <2> QED
    BY <1>1, <2>1, <2>2, <2>3
<1> QED
  BY <1>2, <1>3

-----------------------------------------------------------------------------
(* A stack of profiles *)

OneStack == [Level -> Profile \cup {NoProfile}]

\* The levels that are looked at hold profiles.
LEMMA LevelsType ==
    ASSUME NEW stack \in OneStack, NEW applicable, NEW t \in Time, NEW begin \in Time
    PROVE  /\ Levels(stack, applicable) \subseteq Level
           /\ \A l \in Levels(stack, applicable) : stack[l] \in Profile
           /\ Defining(stack, applicable, t, begin) \subseteq Levels(stack, applicable)
           /\ Examined(stack, applicable, t, begin) \subseteq Levels(stack, applicable)
BY DEF OneStack, Levels, Defining, Examined

\* What a stack limits is a rate.
LEMMA StackLimitType ==
    ASSUME NEW stack \in OneStack, NEW applicable, NEW t \in Time, NEW begin \in Time
    PROVE  StackLimit(stack, applicable, t, begin) \in ChargeRate
<1> DEFINE D == Defining(stack, applicable, t, begin)
<1>1. CASE D = {}
  <2>1. Unlimited \in 0..Unlimited
    BY LimitsAssumption
  <2> QED
    BY <1>1, <2>1 DEF StackLimit, StackDefines, NoLimit, ChargeRate
<1>2. CASE D # {}
  <2>1. D \subseteq Level
    BY LevelsType
  <2>2. Highest(D) \in D
    BY <1>2, <2>1, HighestIn
  <2>3. stack[Highest(D)] \in Profile /\ Defined(stack[Highest(D)], t, begin)
    BY <2>2, LevelsType DEF Defining
  <2>4. LimitOf(stack[Highest(D)], t, begin) \in ChargeRate
    BY <2>3, LimitOfType
  <2> QED
    BY <1>2, <2>4 DEF StackLimit, StackDefines
<1> QED
  BY <1>1, <1>2

\* A scan of a stack at time t never brings the time of the next change back to b, if b is not
\* later than t.
LEMMA StackLater ==
    ASSUME NEW stack \in OneStack, NEW applicable, NEW t \in Time, NEW begin \in Time,
           NEW n \in Nat, NEW b \in Nat, b <= t, b < n
    PROVE  /\ StackNext(stack, applicable, t, begin, n) \in Nat
           /\ b < StackNext(stack, applicable, t, begin, n)
<1> DEFINE E == Examined(stack, applicable, t, begin)
           R == {l \in E : Restart(stack[l], t, begin) # {}}
           CapsOf(L) == UNION {Caps(stack[l], t, begin) : l \in L}
<1>1. \A l \in E : stack[l] \in Profile
  BY LevelsType
<1>2. \A l \in E : \A x \in Caps(stack[l], t, begin) \cup Restart(stack[l], t, begin) :
          x \in Nat /\ b < x
  <2>1. \A x \in Nat : t < x => b < x
    BY DEF Time
  <2> QED
    BY <1>1, <2>1, BoundariesLater
<1>3. b \in Nat
  OBVIOUS
<1>4. CASE R = {}
  <2> DEFINE S == {n} \cup CapsOf(E)
  <2>1. S # {} /\ \A x \in S : x \in Nat /\ b < x
    BY <1>2
  <2>2. Least(S) \in Nat /\ b < Least(S)
    BY <1>3, <2>1, LeastLater
  <2> QED
    BY <1>4, <2>2 DEF StackNext
<1>5. CASE R # {}
  <2> DEFINE r == Least(R)
             S == Restart(stack[r], t, begin) \cup CapsOf({k \in E : k < r})
  <2>1. R \subseteq Nat
    <3>1. E \subseteq Level
      BY LevelsType
    <3> QED
      BY <3>1 DEF Level
  <2>2. r \in R
    BY <1>5, <2>1, LeastIn
  <2>3. S # {} /\ \A x \in S : x \in Nat /\ b < x
    BY <1>2, <2>2
  <2>4. Least(S) \in Nat /\ b < Least(S)
    BY <1>3, <2>3, LeastLater
  <2> QED
    BY <1>5, <2>4 DEF StackNext
<1> QED
  BY <1>4, <1>5

-----------------------------------------------------------------------------
(* The limits of the connectors *)

\* The times and stacks that a limit is computed from.
LimitState ==
    /\ profile \in [Place -> OneStack]
    /\ track \in [Connector -> Track]

\* The places that are searched for the limit of a transaction are stacks.
LEMMA PlacesType ==
    ASSUME NEW c \in Connector
    PROVE  /\ <<"max", 0>> \in Place
           /\ DOMAIN TxPlaces(c) \subseteq 1..3
           /\ \A i \in DOMAIN TxPlaces(c) : TxPlaces(c)[i] \in Place
<1>1. c \in 0..N /\ 0 \in 0..N
  BY ChargingAssumption DEF Connector
<1>2. <<"tx", c>> \in Place /\ <<"default", c>> \in Place /\ <<"default", 0>> \in Place
  BY <1>1 DEF Place
<1>3. CASE InSession(c)
  BY <1>2, <1>3 DEF TxPlaces, Place
<1>4. CASE ~InSession(c)
  BY <1>2, <1>4 DEF TxPlaces, Place
<1> QED
  BY <1>3, <1>4

\* The limit of a connector is a rate.
LEMMA LimitType ==
    ASSUME LimitState, NEW c \in 0..N, NEW t \in Time
    PROVE  Limit(c, t) \in ChargeRate
<1>1. <<"max", 0>> \in Place /\ MinTime \in Time
  BY DEF Place, MinTime, Time
<1>2. \A s \in Place, begin \in Time : Limits(s, t, begin) \in ChargeRate
  BY StackLimitType DEF LimitState, Limits
<1>3. CASE c = 0
  BY <1>1, <1>2, <1>3 DEF Limit
<1>4. CASE c # 0
  <2>1. c \in Connector
    BY <1>4, ChargingAssumption DEF Connector
  <2>2. track[c].start \in Time
    BY <2>1 DEF LimitState, Track
  <2> DEFINE Found == {i \in DOMAIN TxPlaces(c) : Answers(TxPlaces(c)[i], t, track[c].start)}
  <2>3. TxLimit(c, t) \in ChargeRate
    <3>1. CASE Found = {}
      <4>1. Unlimited \in 0..Unlimited
        BY LimitsAssumption
      <4> QED
        BY <3>1, <4>1 DEF TxLimit, NoLimit, ChargeRate
    <3>2. CASE Found # {}
      <4>1. Found \subseteq Nat
        BY <2>1, PlacesType
      <4>2. Least(Found) \in DOMAIN TxPlaces(c)
        BY <3>2, <4>1, LeastIn
      <4>3. TxPlaces(c)[Least(Found)] \in Place
        BY <2>1, <4>2, PlacesType
      <4> QED
        BY <1>2, <2>2, <3>2, <4>3 DEF TxLimit
    <3> QED
      BY <3>1, <3>2
  <2>4. Limits(<<"max", 0>>, t, track[c].start) \in ChargeRate
    BY <1>1, <1>2, <2>2
  <2>5. \A r, q \in ChargeRate : RateMin(r, q) \in ChargeRate
    BY DEF RateMin, ChargeRate, Smaller
  <2> QED
    BY <1>4, <2>3, <2>4, <2>5 DEF Limit
<1> QED
  BY <1>3, <1>4

\* The next change of a limit comes after each moment b up to the one it is asked for.
LEMMA NextAtAfter ==
    ASSUME LimitState, NEW c \in 0..N, NEW t \in Time, NEW b \in Nat, b <= t, b < MaxTime
    PROVE  NextAt(c, t) \in Time /\ b < NextAt(c, t)
<1>1. <<"max", 0>> \in Place /\ MinTime \in Time /\ MaxTime \in Nat
  BY LimitsAssumption DEF Place, MinTime, Time
<1>2. \A s \in Place, begin \in Time, n \in Nat :
          b < n => Through(s, t, begin, n) \in Nat /\ b < Through(s, t, begin, n)
  BY StackLater DEF LimitState, Through
<1>3. CASE c = 0
  BY <1>1, <1>2, <1>3 DEF NextAt, Time
<1>4. CASE c # 0
  <2>1. c \in Connector
    BY <1>4, ChargingAssumption DEF Connector
  <2> DEFINE begin == track[c].start
             step(i, n) == IF i \in DOMAIN TxPlaces(c) /\ Reached(c, t, i)
                           THEN Through(TxPlaces(c)[i], t, begin, n) ELSE n
  <2>2. begin \in Time
    BY <2>1 DEF LimitState, Track
  <2>3. \A i, n \in Nat : b < n => step(i, n) \in Nat /\ b < step(i, n)
    <3>1. \A i \in DOMAIN TxPlaces(c) : TxPlaces(c)[i] \in Place
      BY <2>1, PlacesType
    <3> QED
      BY <1>2, <2>2, <3>1
  <2> HIDE DEF step
  <2>4. step(1, MaxTime) \in Nat /\ b < step(1, MaxTime)
    BY <1>1, <2>3
  <2>5. step(2, step(1, MaxTime)) \in Nat /\ b < step(2, step(1, MaxTime))
    BY <2>3, <2>4
  <2>6. step(3, step(2, step(1, MaxTime))) \in Nat /\ b < step(3, step(2, step(1, MaxTime)))
    BY <2>3, <2>5
  <2>7. NextAt(c, t) = Through(<<"max", 0>>, t, begin, step(3, step(2, step(1, MaxTime))))
    BY <1>4 DEF NextAt, step
  <2> QED
    BY <1>1, <1>2, <2>2, <2>6, <2>7 DEF Time
<1> QED
  BY <1>3, <1>4

\* It comes after the moment it is asked for.
LEMMA NextAtLater ==
    ASSUME LimitState, NEW c \in 0..N, NEW t \in Time, t < MaxTime
    PROVE  NextAt(c, t) \in Time /\ t < NextAt(c, t)
BY NextAtAfter DEF Time

-----------------------------------------------------------------------------
(* The service *)

\* A handler that stores a profile has one to store.
StoresProfile ==
    pc = "store" => \A x \in work.slots : profile[x.place][x.level] \in Profile

NextLater == pc = "idle" => \A c \in 0..N : next[c] > clock

TypeInv == TypeOK /\ clock <= LastTime /\ StoresProfile /\ NextLater

\* What is left of the stacks if profiles are removed, and what they are with one more.
LEMMA StacksType ==
    ASSUME NEW stacks \in Stacks
    PROVE  /\ \A S : Without(stacks, S) \in Stacks
           /\ \A s \in Place, l \in Level, p \in Profile :
                  With(stacks, s, l, p) \in Stacks /\ With(stacks, s, l, p)[s][l] = p
           /\ EmptyStacks \in Stacks
<1>1. ASSUME NEW S PROVE Without(stacks, S) \in Stacks
  BY DEF Without, Stacks
<1>2. ASSUME NEW s \in Place, NEW l \in Level, NEW p \in Profile
      PROVE  With(stacks, s, l, p) \in Stacks /\ With(stacks, s, l, p)[s][l] = p
  BY DEF With, Stacks
<1>3. EmptyStacks \in Stacks
  BY DEF EmptyStacks, Stacks
<1> QED
  BY <1>1, <1>2, <1>3

\* The values a transaction or its image in the service starts from.
LEMMA InitialValues ==
    /\ NoTx \in Tx /\ NoTrack \in Track /\ NoWork \in Work /\ NoLimit \in ChargeRate
    /\ MinTime \in Time /\ 0 \in 0..N /\ Connector \subseteq 0..N
<1>1. NoTx \in Tx
  BY DEF NoTx, Tx, Phase, MinTime, Time
<1>2. NoTrack \in Track
  BY LimitsAssumption DEF NoTrack, Track, Time
<1>3. NoWork \in Work
  BY ChargingAssumption DEF NoWork, Work
<1>4. NoLimit \in ChargeRate
  BY LimitsAssumption DEF NoLimit, ChargeRate
<1> QED
  BY <1>1, <1>2, <1>3, <1>4, ChargingAssumption DEF MinTime, Time, Connector

LEMMA InitType == Init => TypeInv
<1> SUFFICES ASSUME Init PROVE TypeInv
  OBVIOUS
<1>1. profile \in Stacks /\ file \in Stacks /\ known \in [Place -> [Level -> Profile \cup {NoProfile, Unsure}]]
  BY DEF Init, EmptyStacks, Stacks
<1> QED
  BY <1>1, InitialValues, ChargingAssumption
     DEF Init, TypeInv, TypeOK, StoresProfile, NextLater, Time

Known == [Place -> [Level -> Profile \cup {NoProfile, Unsure}]]

\* The history keeps its type, whatever is removed, lost or accepted.
LEMMA KnownType ==
    ASSUME TypeInv
    PROVE  /\ known \in Known
           /\ \A S : Without(known, S) \in Known /\ Lost(S) \in Known
           /\ \A x \in Slot, p \in Profile :
                 /\ With(Without(known, KnownAs(p.id)), x.place, x.level, Loaded(p)) \in Known
                 /\ With(Lost(KnownAs(p.id)), x.place, x.level, Unsure) \in Known
<1>1. known \in Known
  BY DEF TypeInv, TypeOK, Known
<1>2. ASSUME NEW S PROVE Without(known, S) \in Known /\ Lost(S) \in Known
  BY <1>1 DEF Without, Lost, Known
<1>3. ASSUME NEW stacks \in Known, NEW x \in Slot, NEW p \in Profile \cup {Unsure}
      PROVE  With(stacks, x.place, x.level, p) \in Known
  BY DEF With, Known, Slot
<1>4. \A p \in Profile : Loaded(p) \in Profile
  BY DEF Loaded, Profile, NoProfile
<1> QED
  BY <1>1, <1>2, <1>3, <1>4

\* setChargingProfile, for whatever place.
LEMMA ReplaceType ==
    ASSUME TypeInv, NEW s \in Place, NEW p \in Profile, NEW c \in 0..N, Replace(s, p, c),
           UNCHANGED <<clock, tx, track, output, faults, orphaned>>
    PROVE  TypeInv'
<1> DEFINE cleared == Without(profile, SameId(p.id))
<1>1. profile \in Stacks /\ file \in Stacks /\ p.level \in Level /\ clock \in Time
  BY DEF TypeInv, TypeOK, Profile
<1>2. cleared \in Stacks /\ file' \in Stacks
  BY <1>1, StacksType DEF Replace
<1>3. known' \in Known
  BY KnownType DEF Replace
<1>4. next' \in [0..N -> Time]
  BY <1>1 DEF Replace, NotifyAll
<1>5. CASE InstalledCount(cleared) < MaxInstalled
  <2>1. /\ profile' = With(cleared, s, p.level, p)
        /\ pc' = "store"
        /\ work' = [slots |-> {[place |-> s, level |-> p.level]}, start |-> c]
    BY <1>5 DEF Replace
  <2>2. profile' \in Stacks /\ profile'[s][p.level] = p
    BY <1>1, <1>2, <2>1, StacksType
  <2>3. work' \in Work
    BY <1>1, <2>1 DEF Work, Slot
  <2>4. StoresProfile'
    BY <2>1, <2>2 DEF StoresProfile
  <2> QED
    BY <1>2, <1>3, <1>4, <2>1, <2>2, <2>3, <2>4 DEF TypeInv, TypeOK, NextLater, Known
<1>6. CASE ~(InstalledCount(cleared) < MaxInstalled)
  <2>1. profile' = cleared /\ pc' = "dirty" /\ work' = work
    BY <1>6 DEF Replace
  <2> QED
    BY <1>2, <1>3, <1>4, <2>1 DEF TypeInv, TypeOK, NextLater, StoresProfile, Known
<1> QED
  BY <1>5, <1>6

\* The handlers of SetChargingProfile, RemoteStartTransaction and ClearChargingProfile.
LEMMA ProfilesType ==
    ASSUME TypeInv,
           \/ \E p \in Catalogue : \/ \E s \in Place : SetChargingProfile(s, p)
                                   \/ \E c \in Connector : RemoteStart(c, p)
           \/ \E f \in Filters : Clear(f)
           \/ \E x \in work.slots : ClearNext(x)
           \/ ClearEnd
           \/ Store
           \/ StoreFails
    PROVE  TypeInv'
<1>1. ASSUME NEW p \in Catalogue, NEW s \in Place, SetChargingProfile(s, p) PROVE TypeInv'
  <2>1. p \in Profile /\ 0 \in 0..N
    BY ChargingAssumption
  <2> QED
    BY <1>1, <2>1, ReplaceType DEF SetChargingProfile
<1>2. ASSUME NEW p \in Catalogue, NEW c \in Connector, RemoteStart(c, p) PROVE TypeInv'
  <2>1. p \in Profile /\ <<"tx", c>> \in Place /\ c \in 0..N
    BY ChargingAssumption, InitialValues DEF Place
  <2> QED
    BY <1>2, <2>1, ReplaceType DEF RemoteStart
<1>3. ASSUME NEW f \in Filters, Clear(f) PROVE TypeInv'
  <2>1. Matching(f) \subseteq Slot
    BY DEF Matching
  <2>2. work' \in Work
    BY <1>3, <2>1, InitialValues DEF Clear, NoWork, Work
  <2> QED
    BY <1>3, <2>2 DEF Clear, hist, TypeInv, TypeOK, StoresProfile, NextLater
<1>4. ASSUME NEW x \in work.slots, ClearNext(x) PROVE TypeInv'
  <2>1. profile' \in Stacks /\ file' \in Stacks
    BY <1>4, StacksType DEF ClearNext, TypeInv, TypeOK
  <2>2. work' \in Work
    BY <1>4 DEF ClearNext, TypeInv, TypeOK, Work
  <2>3. known' \in Known
    BY <1>4, KnownType DEF ClearNext
  <2> QED
    BY <1>4, <2>1, <2>2, <2>3 DEF ClearNext, TypeInv, TypeOK, StoresProfile, NextLater, Known
<1>5. CASE ClearEnd
  BY <1>5 DEF ClearEnd, NotifyAll, hist, TypeInv, TypeOK, StoresProfile, NextLater
<1>6. CASE Store
  <2>1. PICK x \in work.slots :
           LET p == profile[x.place][x.level] IN
           /\ file' = With(file, x.place, x.level, p)
           /\ \/ Accept(x, p)
              \/ known' = With(Lost(KnownAs(p.id)), x.place, x.level, Unsure)
           /\ \/ /\ work.start # 0
                 /\ tx' = [tx EXCEPT ![work.start] = [NoTx EXCEPT !.phase = "begun", !.rmt = p.id]]
                 /\ UNCHANGED orphaned
              \/ /\ work.start # 0
                 /\ orphaned' = orphaned \cup {work.start}
                 /\ UNCHANGED tx
              \/ work.start = 0 /\ UNCHANGED <<tx, orphaned>>
    BY <1>6 DEF Store
  <2> DEFINE p == profile[x.place][x.level]
  <2>2. x \in Slot /\ p \in Profile /\ work \in Work
    BY <1>6, <2>1 DEF Store, TypeInv, TypeOK, StoresProfile, Work
  <2>3. file' \in Stacks
    BY <2>1, <2>2, StacksType DEF TypeInv, TypeOK, Slot
  <2>4. known' \in Known
    BY <2>1, <2>2, KnownType DEF Accept
  <2>5. work.start # 0 => work.start \in Connector
    BY <2>2, ChargingAssumption DEF Work, Connector
  <2>6. [NoTx EXCEPT !.phase = "begun", !.rmt = p.id] \in Tx
    BY <2>2, InitialValues DEF Tx, Phase, Profile
  <2>7. tx' \in [Connector -> Tx] /\ orphaned' \subseteq Connector
    BY <2>1, <2>5, <2>6 DEF TypeInv, TypeOK
  <2> QED
    BY <1>6, <2>3, <2>4, <2>7, InitialValues
       DEF Store, TypeInv, TypeOK, StoresProfile, NextLater, Known
<1>7. CASE StoreFails
  <2>1. profile' \in Stacks /\ file' \in Stacks
    BY <1>7, StacksType DEF StoreFails, TypeInv, TypeOK
  <2>2. known' \in Known
    BY <1>7, KnownType DEF StoreFails
  <2>3. /\ pc' = "dirty" /\ work' \in Work /\ faults' \in Nat
        /\ UNCHANGED <<clock, tx, track, next, output, orphaned>>
    BY <1>7, InitialValues DEF StoreFails, TypeInv, TypeOK
  <2> QED
    BY <2>1, <2>2, <2>3 DEF TypeInv, TypeOK, StoresProfile, NextLater, Known
<1> QED
  BY <1>1, <1>2, <1>3, <1>4, <1>5, <1>6, <1>7

\* What the transactions do.
LEMMA TransactionsType ==
    ASSUME TypeInv, NEW c \in Connector,
           \/ Begin(c) \/ StartTx(c) \/ (\E id \in TxIds : StartConf(c, id))
           \/ Abort(c) \/ StopTx(c) \/ StopConf(c) \/ FreeVend(c)
    PROVE  TypeInv'
<1>1. tx[c] \in Tx /\ clock \in Time
  BY DEF TypeInv, TypeOK
<1>2. /\ [NoTx EXCEPT !.phase = "begun"] \in Tx
      /\ [tx[c] EXCEPT !.phase = "running", !.start = clock] \in Tx
      /\ [tx[c] EXCEPT !.phase = "stopping"] \in Tx
      /\ \A id \in TxIds : [tx[c] EXCEPT !.txId = id] \in Tx
  BY <1>1, InitialValues, ChargingAssumption DEF Tx, Phase
<1>3. \A t \in Tx : SetTx(c, t) => tx' \in [Connector -> Tx]
  BY DEF SetTx, TypeInv, TypeOK
<1>4. CASE Begin(c)
  BY <1>2, <1>3, <1>4 DEF Begin, hist, TypeInv, TypeOK, StoresProfile, NextLater
<1>5. CASE StartTx(c)
  BY <1>2, <1>3, <1>5 DEF StartTx, hist, TypeInv, TypeOK, StoresProfile, NextLater
<1>6. CASE \E id \in TxIds : StartConf(c, id)
  BY <1>2, <1>3, <1>6 DEF StartConf, hist, TypeInv, TypeOK, StoresProfile, NextLater
<1>7. CASE Abort(c)
  BY <1>3, <1>7, InitialValues DEF Abort, TypeInv, TypeOK, StoresProfile, NextLater
<1>8. CASE StopTx(c)
  BY <1>2, <1>3, <1>8 DEF StopTx, hist, TypeInv, TypeOK, StoresProfile, NextLater
<1>9. CASE StopConf(c)
  BY <1>3, <1>9, InitialValues DEF StopConf, hist, TypeInv, TypeOK, StoresProfile, NextLater
<1>10. CASE FreeVend(c)
  BY <1>2, <1>3, <1>10 DEF FreeVend, TypeInv, TypeOK, StoresProfile, NextLater
<1> QED
  BY <1>4, <1>5, <1>6, <1>7, <1>8, <1>9, <1>10

\* The service's turn, the clock, and a reset.
LEMMA LoopType ==
    ASSUME TypeInv, TrackTransactions \/ UpdateLimits \/ Tick \/ PowerCut \/ Boot
    PROVE  TypeInv'
<1>0. profile \in Stacks /\ file \in Stacks /\ clock \in Time
  BY DEF TypeInv, TypeOK
<1>1. CASE TrackTransactions
  <2>1. profile' \in Stacks /\ file' \in Stacks
    BY <1>0, <1>1, StacksType DEF TrackTransactions
  <2>2. \A c \in Connector : Tracked(c) \in Track
    <3> TAKE c \in Connector
    <3>1. tx[c] \in Tx /\ track[c] \in Track
      BY DEF TypeInv, TypeOK
    <3> QED
      BY <3>1, InitialValues DEF Tracked, Tx, Track
  <2>3. next' \in [0..N -> Time]
    BY <1>0, <1>1 DEF TrackTransactions, NotifyTracked, TypeInv, TypeOK
  <2>4. known' \in Known
    BY <1>1, KnownType DEF TrackTransactions
  <2> QED
    BY <1>1, <2>1, <2>2, <2>3, <2>4
       DEF TrackTransactions, TypeInv, TypeOK, StoresProfile, NextLater, Known
<1>2. CASE UpdateLimits
  <2>1. LimitState /\ clock < MaxTime
    BY <1>0, ChargingAssumption, LimitsAssumption
       DEF LimitState, Stacks, OneStack, TypeInv, TypeOK, Time
  <2>2. \A c \in 0..N : /\ NextAt(c, clock) \in Time /\ clock < NextAt(c, clock)
                        /\ Limit(c, clock) \in ChargeRate
    BY <1>0, <2>1, NextAtLater, LimitType
  <2>3. next' \in [0..N -> Time] /\ output' \in [0..N -> ChargeRate]
    BY <1>2, <2>2 DEF UpdateLimits, TypeInv, TypeOK
  <2>4. \A c \in 0..N : next'[c] > clock
    <3> TAKE c \in 0..N
    <3>1. next[c] \in Time /\ clock \in Nat
      BY <1>0 DEF TypeInv, TypeOK, Time
    <3>2. CASE Due(c)
      BY <1>2, <2>2, <3>1, <3>2 DEF UpdateLimits, Time
    <3>3. CASE ~Due(c)
      BY <1>2, <3>1, <3>3 DEF UpdateLimits, Due, Time
    <3> QED
      BY <3>2, <3>3
  <2> QED
    BY <1>2, <2>3, <2>4 DEF UpdateLimits, hist, TypeInv, TypeOK, StoresProfile, NextLater
<1>3. CASE Tick
  BY <1>0, <1>3, ChargingAssumption
     DEF Tick, hist, TypeInv, TypeOK, StoresProfile, NextLater, Time
<1>4. CASE PowerCut
  <2>1. \A c \in Connector : [tx[c] EXCEPT !.rmt = -1] \in Tx
    BY DEF TypeInv, TypeOK, Tx
  <2>2. known' \in Known
    BY <1>4, KnownType DEF PowerCut
  <2> QED
    BY <1>0, <1>4, <2>1, <2>2, StacksType, InitialValues
       DEF PowerCut, TypeInv, TypeOK, StoresProfile, NextLater, Known
<1>5. CASE Boot
  <2>1. \A c \in Connector : [tx[c] EXCEPT !.phase = "back"] \in Tx
    BY DEF TypeInv, TypeOK, Tx, Phase
  <2>2. \A s \in Place, l \in Level : Loaded(file[s][l]) \in Profile \cup {NoProfile}
    <3>1. \A p \in Profile : [p EXCEPT !.min = -1] \in Profile
      BY DEF Profile
    <3>2. \A s \in Place, l \in Level : file[s][l] \in Profile \cup {NoProfile}
      BY <1>0 DEF Stacks
    <3> QED
      BY <3>1, <3>2 DEF Loaded
  <2>3. profile' \in Stacks /\ file' \in Stacks
    BY <1>0, <1>5, <2>2, StacksType DEF Boot, Stacks
  <2>4. known' \in Known
    BY <1>5, KnownType DEF Boot
  <2> QED
    BY <1>5, <2>1, <2>3, <2>4 DEF Boot, TypeInv, TypeOK, StoresProfile, NextLater, Known
<1> QED
  BY <1>1, <1>2, <1>3, <1>4, <1>5

LEMMA StepType == TypeInv /\ [Next]_vars => TypeInv'
<1> SUFFICES ASSUME TypeInv, [Next]_vars PROVE TypeInv'
  OBVIOUS
<1>1. CASE UNCHANGED vars
  BY <1>1 DEF vars, hist, TypeInv, TypeOK, StoresProfile, NextLater
<1>2. CASE Next
  BY <1>2, ProfilesType, TransactionsType, LoopType DEF Next
<1> QED
  BY <1>1, <1>2

LEMMA InvariantType == Spec => []TypeInv
BY InitType, StepType, PTL DEF Spec

\* The variables keep their types in every interleaving of messages, transactions, passes, time
\* and power cuts; in particular every output is a rate, the transaction of a profile that is
\* stored has an id, and no slot outside the stacks is written (SmartChargingService).
THEOREM TypeCorrect == Spec => []TypeOK
<1>1. TypeInv => TypeOK
  BY DEF TypeInv
<1> QED
  BY InvariantType, <1>1, PTL

\* Whatever profiles are installed, the next change of a limit is after the moment it is asked
\* for: the composite schedule makes progress with every period, and at rest no limit is due.
THEOREM AlwaysLater == Spec => []ChangesLater
<1>1. TypeInv => ChangesLater
  <2> SUFFICES ASSUME TypeInv PROVE ChangesLater
    OBVIOUS
  <2>1. LimitState /\ clock \in Nat /\ LastTime \in Nat /\ LastTime < MaxTime /\ MaxTime \in Nat
    BY ChargingAssumption, LimitsAssumption
       DEF LimitState, Stacks, OneStack, TypeInv, TypeOK, Time
  <2>2. \A c \in 0..N : \A t \in clock..LastTime : NextAt(c, t) > t
    <3> TAKE c \in 0..N
    <3> TAKE t \in clock..LastTime
    <3>1. t \in Time /\ t < MaxTime
      BY <2>1 DEF Time
    <3>2. NextAt(c, t) \in Time /\ t < NextAt(c, t)
      BY <2>1, <3>1, NextAtLater
    <3> QED
      BY <3>1, <3>2 DEF Time
  <2> QED
    BY <2>2 DEF ChangesLater, TypeInv, NextLater
<1> QED
  BY InvariantType, <1>1, PTL

-----------------------------------------------------------------------------
(* Profiles, their files and what the server knows *)

\* The slots whose profile is in RAM already and not yet in flash, and those whose profile was
\* removed for it, before the request is answered.
Storing == IF pc = "store" THEN work.slots ELSE {}
Removed == IF pc = "store" THEN Replaced ELSE {}

\* The files and the profiles in RAM are the same, but for files of the highest level that a boot
\* left behind and for the profile being stored; and both are what the server was told, except
\* where it cannot know, whatever handler is interrupted.
StoredInv ==
    /\ pc = "store" => \A x, y \in work.slots : x = y
    /\ pc # "off" =>
          \A x \in Slot \ Storing :
              x.level < MaxLevel \/ profile[x.place][x.level] # NoProfile
                  => Loaded(file[x.place][x.level]) = Loaded(profile[x.place][x.level])
    /\ \A x \in Slot \ Removed :
          x.level < MaxLevel \/ known[x.place][x.level] # NoProfile
              => known[x.place][x.level] \in {Unsure, Loaded(file[x.place][x.level])}
    /\ pc # "off" =>
          \A x \in Slot \ (Storing \cup Removed) :
              known[x.place][x.level] \in {Unsure, Loaded(profile[x.place][x.level])}
    /\ \A x \in Removed \ Storing : profile[x.place][x.level] = NoProfile
    /\ pc = "off" => \A x \in Slot : profile[x.place][x.level] = NoProfile

HasProfile(c) == \E l \in Level : Installed(<<"tx", c>>, l)

\* The service has seen every transaction that is running once it looked, and so it sees it end.
Seen ==
    /\ clock >= 1
    /\ \A c \in Connector :
          tx[c].phase \in {"running", "stopping", "back"} => tx[c].start \in 1..LastTime
    /\ pc \notin {"pass", "off"} =>
          \A c \in Connector : tx[c].phase \in {"running", "back"} => track[c] # NoTrack

\* A profile without a transaction is about to be dropped, belongs to a transaction that is about
\* to begin, or is orphaned; so will it be when it comes back from its file.
Ended ==
    \A c \in Connector :
        c \notin orphaned =>
            /\ pc \notin {"pass", "store", "off"} /\ HasProfile(c) => Held(c)
            /\ pc = "pass" /\ HasProfile(c) => Held(c) \/ track[c] # NoTrack
            /\ pc = "store" =>
                  \A l \in Level :
                      Installed(<<"tx", c>>, l) =>
                          \/ Held(c)
                          \/ work.start = c /\ [place |-> <<"tx", c>>, level |-> l] \in work.slots
            /\ pc = "off" /\ tx[c].phase = "none" =>
                  \A l \in Level : l < MaxLevel => file[<<"tx", c>>][l] = NoProfile

-----------------------------------------------------------------------------
(* Slot by slot *)

\* What removing profiles, adding one, and losing them do to each slot.
LEMMA SlotWise ==
    ASSUME NEW stacks, stacks \in Stacks \/ stacks \in Known
    PROVE  /\ \A x \in Slot : /\ x.place \in Place /\ x.level \in Level
                              /\ x = [place |-> x.place, level |-> x.level]
           /\ \A s \in Place, l \in Level : [place |-> s, level |-> l] \in Slot
           /\ \A S : \A x \in Slot :
                 Without(stacks, S)[x.place][x.level]
                    = IF x \in S THEN NoProfile ELSE stacks[x.place][x.level]
           /\ \A s \in Place, l \in Level : \A p : \A x \in Slot :
                 With(stacks, s, l, p)[x.place][x.level]
                    = IF x = [place |-> s, level |-> l] THEN p ELSE stacks[x.place][x.level]
<1>1. \A x \in Slot : /\ x.place \in Place /\ x.level \in Level
                      /\ x = [place |-> x.place, level |-> x.level]
  BY DEF Slot
<1>2. \A s \in Place, l \in Level : [place |-> s, level |-> l] \in Slot
  BY DEF Slot
<1>3. ASSUME NEW S, NEW x \in Slot
      PROVE  Without(stacks, S)[x.place][x.level]
                = IF x \in S THEN NoProfile ELSE stacks[x.place][x.level]
  BY <1>1 DEF Without
<1>4. ASSUME NEW s \in Place, NEW l \in Level, NEW p, NEW x \in Slot
      PROVE  With(stacks, s, l, p)[x.place][x.level]
                = IF x = [place |-> s, level |-> l] THEN p ELSE stacks[x.place][x.level]
  <2>1. /\ stacks[s] \in [Level -> Profile \cup {NoProfile, Unsure}]
        /\ DOMAIN stacks = Place
    BY DEF Stacks, Known
  <2>2. With(stacks, s, l, p) = [stacks EXCEPT ![s] = [@ EXCEPT ![l] = p]]
    BY DEF With
  <2>3. CASE x.place = s /\ x.level = l
    BY <1>1, <2>1, <2>2, <2>3
  <2>4. CASE x.place = s /\ x.level # l
    <3>1. x # [place |-> s, level |-> l]
      BY <2>4
    <3> QED
      BY <1>1, <2>1, <2>2, <2>4, <3>1
  <2>5. CASE x.place # s
    <3>1. x # [place |-> s, level |-> l]
      BY <2>5
    <3> QED
      BY <1>1, <2>1, <2>2, <2>5, <3>1
  <2> QED
    BY <2>3, <2>4, <2>5
<1> QED
  BY <1>1, <1>2, <1>3, <1>4

LEMMA LostAt ==
    \A S : \A x \in Slot :
        Lost(S)[x.place][x.level]
           = IF x \in S /\ known[x.place][x.level] # NoProfile THEN Unsure
             ELSE known[x.place][x.level]
BY DEF Lost, Slot

\* Profiles are restored as they were written, and a real one never as none.
LEMMA LoadedOf ==
    /\ \A p \in Profile : /\ p # NoProfile /\ Loaded(p) \in Profile /\ Loaded(Loaded(p)) = Loaded(p)
                          /\ Loaded(p).id = p.id /\ p.id \in Nat
    /\ Loaded(NoProfile) = NoProfile
    /\ NoProfile.id = -1 /\ Unsure.id = -2 /\ NoProfile # Unsure
<1>1. ASSUME NEW p \in Profile
      PROVE  /\ p # NoProfile /\ Loaded(p) \in Profile /\ Loaded(Loaded(p)) = Loaded(p)
             /\ Loaded(p).id = p.id /\ p.id \in Nat
  <2>1. \A q \in Profile : q # NoProfile
    BY DEF Profile, NoProfile
  <2>2. Loaded(p) = [p EXCEPT !.min = -1]
    BY <2>1 DEF Loaded
  <2>3. Loaded(p) \in Profile /\ Loaded(p).id = p.id
    BY <2>2 DEF Profile
  <2>4. Loaded(Loaded(p)) = [Loaded(p) EXCEPT !.min = -1]
    BY <2>1, <2>3 DEF Loaded
  <2>5. Loaded(Loaded(p)) = Loaded(p)
    BY <2>2, <2>4 DEF Profile
  <2>6. p.id \in Nat
    BY DEF Profile
  <2> QED
    BY <2>1, <2>3, <2>5, <2>6
<1>2. Loaded(NoProfile) = NoProfile
  BY DEF Loaded
<1>3. NoProfile.id = -1 /\ Unsure.id = -2
  BY DEF NoProfile, Unsure
<1> QED
  BY <1>1, <1>2, <1>3

\* What a slot holds, and what the server knows of it.
LEMMA SlotType ==
    ASSUME TypeInv
    PROVE  \A x \in Slot :
              /\ profile[x.place][x.level] \in Profile \cup {NoProfile}
              /\ file[x.place][x.level] \in Profile \cup {NoProfile}
              /\ known[x.place][x.level] \in Profile \cup {NoProfile, Unsure}
<1> SUFFICES ASSUME NEW x \in Slot
             PROVE  /\ profile[x.place][x.level] \in Profile \cup {NoProfile}
                    /\ file[x.place][x.level] \in Profile \cup {NoProfile}
                    /\ known[x.place][x.level] \in Profile \cup {NoProfile, Unsure}
  OBVIOUS
<1>1. x.place \in Place /\ x.level \in Level
  BY DEF Slot
<1>2. /\ profile \in Stacks /\ file \in Stacks
      /\ known \in [Place -> [Level -> Profile \cup {NoProfile, Unsure}]]
  BY DEF TypeInv, TypeOK
<1> QED
  BY <1>1, <1>2 DEF Stacks

-----------------------------------------------------------------------------
(* The steps of StoredInv *)

LEMMA InitStored == Init => StoredInv
<1> SUFFICES ASSUME Init PROVE StoredInv
  OBVIOUS
<1>1. /\ pc = "pass"
      /\ \A x \in Slot : /\ file[x.place][x.level] = NoProfile
                         /\ profile[x.place][x.level] = NoProfile
                         /\ known[x.place][x.level] = NoProfile
  BY DEF Init, EmptyStacks, Slot
<1> QED
  BY <1>1, LoadedOf DEF StoredInv, Storing, Removed

\* Steps that leave the profiles alone, between two messages.
LEMMA StoredKept ==
    ASSUME StoredInv, UNCHANGED <<profile, file, known>>,
           pc \notin {"store", "off"}, pc' \notin {"store", "off"}
    PROVE  StoredInv'
BY DEF StoredInv, Storing, Removed

\* Steps that remove the profiles of some slots in RAM and in flash, when nothing is being
\* stored; the server knows that they are gone, or it is unsure.
LEMMA StoredRemoved ==
    ASSUME TypeInv, StoredInv, pc \notin {"store", "off"}, pc' \notin {"store", "off"}, NEW S,
           file' = Without(file, S), profile' = Without(profile, S),
           \A x \in Slot :
              \/ known'[x.place][x.level] = known[x.place][x.level]
                 /\ (x \in S => known[x.place][x.level] \in {Unsure, NoProfile})
              \/ known'[x.place][x.level] = Unsure
              \/ known'[x.place][x.level] = NoProfile
                 /\ (x \in S \/ profile[x.place][x.level] = NoProfile)
    PROVE  StoredInv'
<1>1. \A x \in Slot : /\ file'[x.place][x.level]
                            = IF x \in S THEN NoProfile ELSE file[x.place][x.level]
                      /\ profile'[x.place][x.level]
                            = IF x \in S THEN NoProfile ELSE profile[x.place][x.level]
  <2>1. file \in Stacks /\ profile \in Stacks
    BY DEF TypeInv, TypeOK
  <2> QED
    BY <2>1, SlotWise
<1>2. Storing = {} /\ Removed = {} /\ Storing' = {} /\ Removed' = {}
  BY DEF Storing, Removed
<1>3. ASSUME NEW x \in Slot
      PROVE  /\ x.level < MaxLevel \/ profile'[x.place][x.level] # NoProfile
                   => Loaded(file'[x.place][x.level]) = Loaded(profile'[x.place][x.level])
             /\ x.level < MaxLevel \/ known'[x.place][x.level] # NoProfile
                   => known'[x.place][x.level] \in {Unsure, Loaded(file'[x.place][x.level])}
             /\ known'[x.place][x.level] \in {Unsure, Loaded(profile'[x.place][x.level])}
  <2>1. /\ x.level < MaxLevel \/ profile[x.place][x.level] # NoProfile
              => Loaded(file[x.place][x.level]) = Loaded(profile[x.place][x.level])
        /\ x.level < MaxLevel \/ known[x.place][x.level] # NoProfile
              => known[x.place][x.level] \in {Unsure, Loaded(file[x.place][x.level])}
        /\ known[x.place][x.level] \in {Unsure, Loaded(profile[x.place][x.level])}
    BY <1>2 DEF StoredInv
  <2>2. CASE x \in S
    BY <1>1, <2>2, LoadedOf
  <2>3. CASE x \notin S
    BY <1>1, <2>1, <2>3, LoadedOf
  <2> QED
    BY <2>2, <2>3
<1> QED
  BY <1>2, <1>3 DEF StoredInv

\* Installing: the profile with the same id goes, and the new one is being stored.
LEMMA ReplaceStored ==
    ASSUME TypeInv, StoredInv, Open, NEW s \in Place, NEW p \in Profile, NEW c, Replace(s, p, c)
    PROVE  StoredInv'
<1> DEFINE S == SameId(p.id)
           K == KnownAs(p.id)
           cleared == Without(profile, S)
           slot == [place |-> s, level |-> p.level]
<1>1. /\ profile \in Stacks /\ cleared \in Stacks /\ file \in Stacks /\ p.level \in Level
      /\ Storing = {} /\ Removed = {} /\ pc \notin {"store", "off"}
  BY StacksType DEF TypeInv, TypeOK, Profile, Open, Storing, Removed
<1>2. \A x \in Slot : /\ cleared[x.place][x.level]
                            = IF x \in S THEN NoProfile ELSE profile[x.place][x.level]
                      /\ file'[x.place][x.level]
                            = IF x \in S THEN NoProfile ELSE file[x.place][x.level]
  BY <1>1, SlotWise DEF Replace
<1>3. ASSUME NEW x \in Slot
      PROVE  /\ x \in K => x \in S
             /\ x \in S /\ x \notin K => known[x.place][x.level] = Unsure
  <2>1. /\ known[x.place][x.level] \in {Unsure, Loaded(profile[x.place][x.level])}
        /\ profile[x.place][x.level] \in Profile \cup {NoProfile} /\ p.id \in Nat
    BY <1>1, SlotType, LoadedOf DEF StoredInv
  <2>2. x \in K <=> known[x.place][x.level].id = p.id
    BY DEF KnownAs
  <2>3. x \in S <=> /\ profile[x.place][x.level] # NoProfile
                    /\ profile[x.place][x.level].id = p.id
    BY <2>1 DEF SameId, Matching, ById
  <2> HIDE DEF S, K
  <2>4. known[x.place][x.level] = Unsure => x \notin K
    BY <2>1, <2>2, LoadedOf
  <2>5. ASSUME known[x.place][x.level] = Loaded(profile[x.place][x.level])
        PROVE  x \in K <=> x \in S
    BY <2>1, <2>2, <2>3, <2>5, LoadedOf
  <2> QED
    BY <2>1, <2>4, <2>5
<1>4. CASE InstalledCount(cleared) < MaxInstalled
  <2>1. /\ profile' = With(cleared, s, p.level, p) /\ pc' = "store" /\ work'.slots = {slot}
        /\ known' = known
    BY <1>4 DEF Replace
  <2>2. \A x \in Slot : profile'[x.place][x.level]
                           = IF x = slot THEN p ELSE cleared[x.place][x.level]
    <3> HIDE DEF cleared
    <3> QED
      BY <1>1, <2>1, SlotWise
  <2>3. Storing' = {slot}
    BY <2>1 DEF Storing
  <2>4. Removed' = K
    <3>1. slot \in Slot /\ slot.place = s /\ slot.level = p.level
      BY <1>1 DEF Slot
    <3>2. profile'[s][p.level] = p
      <4> HIDE DEF slot
      <4> QED
        BY <2>2, <3>1
    <3>3. \A z : z \in Replaced' <=>
                   \E x \in work'.slots : /\ z \in Slot
                                         /\ known'[z.place][z.level].id = profile'[x.place][x.level].id
      BY DEF Replaced, KnownAs
    <3>4. \A z : z \in K <=> z \in Slot /\ known[z.place][z.level].id = p.id
      BY DEF KnownAs
    <3> HIDE DEF K, slot, cleared
    <3>5. \A z : z \in Replaced' <=> z \in Slot /\ known'[z.place][z.level].id = p.id
      BY <2>1, <3>1, <3>2, <3>3
    <3>6. \A z : z \in Replaced' <=> z \in K
      BY <2>1, <3>4, <3>5
    <3>7. Replaced' = K
      <4> PICK R : R = Replaced'
        OBVIOUS
      <4>1. \A z : z \in R <=> z \in K
        BY <3>6
      <4> QED
        BY <4>1
    <3> QED
      BY <2>1, <3>7 DEF Removed
  <2> HIDE DEF S, K, cleared, slot
  <2>5. ASSUME NEW x \in Slot
        PROVE  /\ x # slot /\ (x.level < MaxLevel \/ profile'[x.place][x.level] # NoProfile)
                     => Loaded(file'[x.place][x.level]) = Loaded(profile'[x.place][x.level])
               /\ x \notin K /\ (x.level < MaxLevel \/ known'[x.place][x.level] # NoProfile)
                     => known'[x.place][x.level] \in {Unsure, Loaded(file'[x.place][x.level])}
               /\ x \notin {slot} \cup K
                     => known'[x.place][x.level] \in {Unsure, Loaded(profile'[x.place][x.level])}
               /\ x \in K \ {slot} => profile'[x.place][x.level] = NoProfile
    <3>1. /\ x.level < MaxLevel \/ profile[x.place][x.level] # NoProfile
                => Loaded(file[x.place][x.level]) = Loaded(profile[x.place][x.level])
          /\ x.level < MaxLevel \/ known[x.place][x.level] # NoProfile
                => known[x.place][x.level] \in {Unsure, Loaded(file[x.place][x.level])}
          /\ known[x.place][x.level] \in {Unsure, Loaded(profile[x.place][x.level])}
      BY <1>1 DEF StoredInv
    <3>2. CASE x \in S
      BY <1>2, <1>3, <2>1, <2>2, <3>2
    <3>3. CASE x \notin S
      BY <1>2, <1>3, <2>1, <2>2, <3>1, <3>3
    <3> QED
      BY <3>2, <3>3
  <2>6. \A x \in K : x \in Slot
    BY DEF K, KnownAs
  <2> QED
    BY <2>1, <2>3, <2>4, <2>5, <2>6 DEF StoredInv
<1>5. CASE ~(InstalledCount(cleared) < MaxInstalled)
  <2>1. /\ profile' = Without(profile, S) /\ file' = Without(file, S) /\ pc' = "dirty"
        /\ known' = Lost(K)
    BY <1>5 DEF Replace
  <2> HIDE DEF S, K, cleared
  <2>2. ASSUME NEW x \in Slot
        PROVE  \/ known'[x.place][x.level] = known[x.place][x.level]
                  /\ (x \in S => known[x.place][x.level] \in {Unsure, NoProfile})
               \/ known'[x.place][x.level] = Unsure
    BY <1>3, <2>1, LostAt
  <2> QED
    BY <1>1, <2>1, <2>2, StoredRemoved
<1> QED
  BY <1>4, <1>5

\* The file is written: flash catches up with RAM, and the server is answered.
LEMMA StoreStored ==
    ASSUME TypeInv, StoredInv, Store
    PROVE  StoredInv'
<1>1. pc = "store" /\ pc' = "dirty" /\ profile' = profile
  BY DEF Store
<1>2. PICK x \in work.slots :
         LET p == profile[x.place][x.level] IN
         /\ file' = With(file, x.place, x.level, p)
         /\ \/ known' = With(Without(known, KnownAs(p.id)), x.place, x.level, Loaded(p))
            \/ known' = With(Lost(KnownAs(p.id)), x.place, x.level, Unsure)
  BY DEF Store, Accept
<1> DEFINE p == profile[x.place][x.level]
           K == KnownAs(p.id)
<1>3. work.slots = {x} /\ Storing = {x} /\ Storing' = {} /\ Removed' = {}
  BY <1>1, <1>2 DEF StoredInv, Storing, Removed
<1>4. x \in Slot /\ p \in Profile /\ file \in Stacks
  BY <1>1 DEF TypeInv, TypeOK, StoresProfile, Work
<1>5. Removed = K
  BY <1>1, <1>3 DEF Removed, Replaced
<1>6. \A y \in Slot : file'[y.place][y.level] = IF y = x THEN p ELSE file[y.place][y.level]
  BY <1>2, <1>4, SlotWise
<1>7. \A y \in Slot :
         IF y = x THEN known'[y.place][y.level] \in {Unsure, Loaded(p)}
         ELSE IF y \in K THEN known'[y.place][y.level] \in {Unsure, NoProfile}
         ELSE known'[y.place][y.level] = known[y.place][y.level]
  <2>1. known \in Known /\ Without(known, K) \in Known /\ Lost(K) \in Known
    BY KnownType
  <2>2. x = [place |-> x.place, level |-> x.level] /\ x.place \in Place /\ x.level \in Level
    BY <1>4, SlotWise, <2>1
  <2> HIDE DEF K
  <2>3. \A y \in Slot : /\ Without(known, K)[y.place][y.level]
                              = IF y \in K THEN NoProfile ELSE known[y.place][y.level]
                        /\ y \in K => Lost(K)[y.place][y.level] \in {Unsure, NoProfile}
                        /\ y \notin K => Lost(K)[y.place][y.level] = known[y.place][y.level]
    BY <2>1, SlotWise, LostAt
  <2>4. CASE known' = With(Without(known, K), x.place, x.level, Loaded(p))
    <3> DEFINE h == Without(known, K)
    <3>0. known' = With(h, x.place, x.level, Loaded(p)) /\ h \in Known
      BY <2>1, <2>4
    <3>h. \A y \in Slot : h[y.place][y.level]
                             = IF y \in K THEN NoProfile ELSE known[y.place][y.level]
      BY <2>3
    <3> HIDE DEF p, h
    <3>1. \A y \in Slot : known'[y.place][y.level]
                             = IF y = x THEN Loaded(p) ELSE h[y.place][y.level]
      BY <2>2, <3>0, SlotWise
    <3> QED
      BY <3>1, <3>h
  <2>5. CASE known' = With(Lost(K), x.place, x.level, Unsure)
    <3> DEFINE h == Lost(K)
    <3>0. known' = With(h, x.place, x.level, Unsure) /\ h \in Known
      BY <2>1, <2>5
    <3>h. \A y \in Slot : /\ y \in K => h[y.place][y.level] \in {Unsure, NoProfile}
                          /\ y \notin K => h[y.place][y.level] = known[y.place][y.level]
      BY <2>3
    <3> HIDE DEF p, h
    <3>1. \A y \in Slot : known'[y.place][y.level] = IF y = x THEN Unsure ELSE h[y.place][y.level]
      BY <2>2, <3>0, SlotWise
    <3> QED
      BY <3>1, <3>h
  <2> QED
    BY <1>2, <2>4, <2>5 DEF K
<1> HIDE DEF p, K
<1>8. ASSUME NEW y \in Slot
      PROVE  /\ y.level < MaxLevel \/ profile'[y.place][y.level] # NoProfile
                   => Loaded(file'[y.place][y.level]) = Loaded(profile'[y.place][y.level])
             /\ y.level < MaxLevel \/ known'[y.place][y.level] # NoProfile
                   => known'[y.place][y.level] \in {Unsure, Loaded(file'[y.place][y.level])}
             /\ known'[y.place][y.level] \in {Unsure, Loaded(profile'[y.place][y.level])}
  <2>1. CASE y = x
    BY <1>1, <1>6, <1>7, <2>1 DEF p
  <2>2. CASE y # x /\ y \in K
    <3>1. profile[y.place][y.level] = NoProfile
      BY <1>3, <1>5, <2>2 DEF StoredInv
    <3>2. y.level < MaxLevel => Loaded(file[y.place][y.level]) = NoProfile
      BY <1>1, <1>3, <2>2, <3>1, LoadedOf DEF StoredInv
    <3> QED
      BY <1>1, <1>6, <1>7, <2>2, <3>1, <3>2, LoadedOf
  <2>3. CASE y # x /\ y \notin K
    <3>1. /\ y.level < MaxLevel \/ profile[y.place][y.level] # NoProfile
                => Loaded(file[y.place][y.level]) = Loaded(profile[y.place][y.level])
          /\ y.level < MaxLevel \/ known[y.place][y.level] # NoProfile
                => known[y.place][y.level] \in {Unsure, Loaded(file[y.place][y.level])}
          /\ known[y.place][y.level] \in {Unsure, Loaded(profile[y.place][y.level])}
      BY <1>1, <1>3, <1>5, <2>3 DEF StoredInv
    <3> QED
      BY <1>1, <1>6, <1>7, <2>3, <3>1
  <2> QED
    BY <2>1, <2>2, <2>3
<1> QED
  BY <1>1, <1>3, <1>8 DEF StoredInv

\* The file cannot be written: the slot is empty in RAM and in flash.
LEMMA StoreFailsStored ==
    ASSUME TypeInv, StoredInv, StoreFails
    PROVE  StoredInv'
<1> DEFINE S == work.slots
<1>1. /\ pc = "store" /\ pc' = "dirty" /\ profile' = Without(profile, S)
      /\ file' = Without(file, S) /\ known' = Lost(S \cup Replaced)
      /\ Storing = S /\ Removed = Replaced /\ Storing' = {} /\ Removed' = {}
      /\ profile \in Stacks /\ file \in Stacks
  BY DEF StoreFails, Storing, Removed, TypeInv, TypeOK
<1> HIDE DEF S
<1>2. \A x \in Slot :
         /\ file'[x.place][x.level] = IF x \in S THEN NoProfile ELSE file[x.place][x.level]
         /\ profile'[x.place][x.level] = IF x \in S THEN NoProfile ELSE profile[x.place][x.level]
         /\ x \in S \cup Removed => known'[x.place][x.level] \in {Unsure, NoProfile}
         /\ x \notin S \cup Removed => known'[x.place][x.level] = known[x.place][x.level]
  <2>1. \A x \in Slot :
         /\ file'[x.place][x.level] = IF x \in S THEN NoProfile ELSE file[x.place][x.level]
         /\ profile'[x.place][x.level] = IF x \in S THEN NoProfile ELSE profile[x.place][x.level]
    BY <1>1, SlotWise
  <2> QED
    BY <1>1, <2>1, LostAt
<1>3. ASSUME NEW x \in Slot
      PROVE  /\ x.level < MaxLevel \/ profile'[x.place][x.level] # NoProfile
                   => Loaded(file'[x.place][x.level]) = Loaded(profile'[x.place][x.level])
             /\ x.level < MaxLevel \/ known'[x.place][x.level] # NoProfile
                   => known'[x.place][x.level] \in {Unsure, Loaded(file'[x.place][x.level])}
             /\ known'[x.place][x.level] \in {Unsure, Loaded(profile'[x.place][x.level])}
  <2>1. CASE x \in S
    BY <1>2, <2>1, LoadedOf
  <2>2. CASE x \notin S /\ x \in Removed
    <3>1. profile[x.place][x.level] = NoProfile
      BY <1>1, <2>2 DEF StoredInv
    <3>2. x.level < MaxLevel => Loaded(file[x.place][x.level]) = NoProfile
      BY <1>1, <2>2, <3>1, LoadedOf DEF StoredInv
    <3> QED
      BY <1>2, <2>2, <3>1, <3>2, LoadedOf
  <2>3. CASE x \notin S /\ x \notin Removed
    <3>1. /\ x.level < MaxLevel \/ profile[x.place][x.level] # NoProfile
                => Loaded(file[x.place][x.level]) = Loaded(profile[x.place][x.level])
          /\ x.level < MaxLevel \/ known[x.place][x.level] # NoProfile
                => known[x.place][x.level] \in {Unsure, Loaded(file[x.place][x.level])}
          /\ known[x.place][x.level] \in {Unsure, Loaded(profile[x.place][x.level])}
      BY <1>1, <2>3 DEF StoredInv
    <3> QED
      BY <1>2, <2>3, <3>1
  <2> QED
    BY <2>1, <2>2, <2>3
<1> QED
  BY <1>1, <1>3 DEF StoredInv

\* A power cut in the middle of an update: the server is not answered.
LEMMA CutStored ==
    ASSUME TypeInv, StoredInv, PowerCut
    PROVE  StoredInv'
<1>1. /\ file' = file /\ pc' = "off" /\ Storing' = {} /\ Removed' = {}
      /\ \A x \in Slot : profile'[x.place][x.level] = NoProfile
  BY DEF PowerCut, Storing, Removed, EmptyStacks, Slot
<1>2. ASSUME NEW x \in Slot, x.level < MaxLevel \/ known'[x.place][x.level] # NoProfile
      PROVE  known'[x.place][x.level] \in {Unsure, Loaded(file[x.place][x.level])}
  <2>1. CASE pc = "store"
    <3>1. known' = Lost(Removed)
      BY <2>1 DEF PowerCut, Removed
    <3>2. known'[x.place][x.level]
             = IF x \in Removed /\ known[x.place][x.level] # NoProfile THEN Unsure
               ELSE known[x.place][x.level]
      BY <3>1, LostAt
    <3>3. CASE x \in Removed
      <4>1. CASE known[x.place][x.level] # NoProfile
        BY <3>2, <3>3, <4>1
      <4>2. CASE known[x.place][x.level] = NoProfile
        <5>1. PICK y \in work.slots : x \in KnownAs(profile[y.place][y.level].id)
          BY <2>1, <3>3 DEF Removed, Replaced
        <5>2. profile[y.place][y.level].id \in Nat
          BY <2>1, LoadedOf DEF TypeInv, StoresProfile
        <5> QED
          BY <4>2, <5>1, <5>2, LoadedOf DEF KnownAs
      <4> QED
        BY <4>1, <4>2
    <3>4. CASE x \notin Removed
      BY <1>2, <3>2, <3>4 DEF StoredInv
    <3> QED
      BY <3>3, <3>4
  <2>2. CASE pc # "store"
    BY <1>2, <2>2 DEF PowerCut, StoredInv, Removed
  <2> QED
    BY <2>1, <2>2
<1> QED
  BY <1>1, <1>2 DEF StoredInv

\* A boot reads the files back.
LEMMA BootStored ==
    ASSUME TypeInv, StoredInv, Boot
    PROVE  StoredInv'
<1>1. /\ pc = "off" /\ pc' = "pass" /\ file \in Stacks /\ MaxLevel \in Nat
      /\ known' = Lost(Skipped \cup Refused) /\ file' = Without(file, Refused)
      /\ Removed = {} /\ Storing' = {} /\ Removed' = {}
  BY LimitsAssumption DEF Boot, TypeInv, TypeOK, Storing, Removed
<1>2. \A x \in Slot :
         /\ known'[x.place][x.level]
               = IF x \in Skipped \cup Refused /\ known[x.place][x.level] # NoProfile THEN Unsure
                 ELSE known[x.place][x.level]
         /\ file'[x.place][x.level] = IF x \in Refused THEN NoProfile ELSE file[x.place][x.level]
         /\ profile'[x.place][x.level]
               = IF Loadable(x.place, x.level) /\ ~TooMany(x.place, x.level)
                 THEN Loaded(file[x.place][x.level]) ELSE NoProfile
         /\ x.level \in 0..MaxLevel
  <2>1. \A x \in Slot : /\ x.place \in Place /\ x.level \in Level
                        /\ file'[x.place][x.level]
                              = IF x \in Refused THEN NoProfile ELSE file[x.place][x.level]
    BY <1>1, SlotWise
  <2>2. \A x \in Slot :
         profile'[x.place][x.level]
               = IF Loadable(x.place, x.level) /\ ~TooMany(x.place, x.level)
                 THEN Loaded(file[x.place][x.level]) ELSE NoProfile
    BY <2>1 DEF Boot
  <2> QED
    BY <1>1, <2>1, <2>2, LostAt DEF Level
<1>3. ASSUME NEW x \in Slot
      PROVE  /\ x.level < MaxLevel \/ profile'[x.place][x.level] # NoProfile
                   => Loaded(file'[x.place][x.level]) = Loaded(profile'[x.place][x.level])
             /\ x.level < MaxLevel \/ known'[x.place][x.level] # NoProfile
                   => known'[x.place][x.level] \in {Unsure, Loaded(file'[x.place][x.level])}
             /\ known'[x.place][x.level] \in {Unsure, Loaded(profile'[x.place][x.level])}
  <2> DEFINE f == file[x.place][x.level]
             k == known[x.place][x.level]
  <2>1. /\ f \in Profile \cup {NoProfile}
        /\ x.level < MaxLevel \/ k # NoProfile => k \in {Unsure, Loaded(f)}
        /\ Loaded(Loaded(f)) = Loaded(f) /\ Loaded(NoProfile) = NoProfile
        /\ Loaded(f) = NoProfile => f = NoProfile
    BY <1>1, SlotType, LoadedOf DEF StoredInv
  <2>2. /\ Loadable(x.place, x.level) <=> x.level < MaxLevel /\ f # NoProfile
        /\ x \in Skipped <=> x.level = MaxLevel /\ f # NoProfile
        /\ x \in Refused <=> Loadable(x.place, x.level) /\ TooMany(x.place, x.level)
        /\ x.level < MaxLevel \/ x.level = MaxLevel
        /\ ~(x.level < MaxLevel /\ x.level = MaxLevel)
    <3>1. x.level \in 0..MaxLevel /\ MaxLevel \in Nat
      BY <1>1, <1>2
    <3> QED
      BY <3>1 DEF Loadable, Skipped, Refused
  <2>3. /\ known'[x.place][x.level] = IF x \in Skipped \cup Refused /\ k # NoProfile THEN Unsure
                                      ELSE k
        /\ file'[x.place][x.level] = IF x \in Refused THEN NoProfile ELSE f
        /\ profile'[x.place][x.level]
               = IF Loadable(x.place, x.level) /\ ~TooMany(x.place, x.level)
                 THEN Loaded(f) ELSE NoProfile
    BY <1>2
  <2> HIDE DEF f, k
  <2>4. CASE f = NoProfile
    BY <2>1, <2>2, <2>3, <2>4
  <2>5. CASE x \in Skipped \cup Refused
    BY <2>1, <2>2, <2>3, <2>5
  <2>6. CASE f # NoProfile /\ x \notin Skipped \cup Refused
    BY <2>1, <2>2, <2>3, <2>6
  <2> QED
    BY <2>4, <2>5, <2>6
<1> QED
  BY <1>1, <1>3 DEF StoredInv

\* The profiles of a transaction that ended are dropped.
LEMMA TrackStored ==
    ASSUME TypeInv, StoredInv, TrackTransactions
    PROVE  StoredInv'
<1> DEFINE ended == OfTx({c \in Connector : Gone(c)})
<1>1. PICK S : /\ S = {x \in ended : Installed(x.place, x.level)}
               /\ file' = Without(file, S) /\ profile' = Without(profile, S)
               /\ known' = Without(known, ended)
               /\ pc \notin {"store", "off"} /\ pc' \notin {"store", "off"}
  BY DEF TrackTransactions
<1> HIDE DEF ended
<1>2. \A x \in Slot : /\ x \in S => x \in ended
                      /\ x \in ended => x \in S \/ profile[x.place][x.level] = NoProfile
  BY <1>1 DEF Installed
<1>3. \A x \in Slot : known'[x.place][x.level]
                         = IF x \in ended THEN NoProfile ELSE known[x.place][x.level]
  BY <1>1, KnownType, SlotWise
<1>4. \A x \in Slot :
              \/ known'[x.place][x.level] = known[x.place][x.level]
                 /\ (x \in S => known[x.place][x.level] \in {Unsure, NoProfile})
              \/ known'[x.place][x.level] = Unsure
              \/ known'[x.place][x.level] = NoProfile
                 /\ (x \in S \/ profile[x.place][x.level] = NoProfile)
  BY <1>2, <1>3
<1> QED
  BY <1>1, <1>4, StoredRemoved

LEMMA StepStored == TypeInv /\ StoredInv /\ [Next]_vars => StoredInv'
<1> SUFFICES ASSUME TypeInv, StoredInv, [Next]_vars PROVE StoredInv'
  OBVIOUS
<1>1. ASSUME NEW p \in Catalogue,
             \/ \E s \in Place : SetChargingProfile(s, p)
             \/ \E c \in Connector : RemoteStart(c, p)
      PROVE  StoredInv'
  <2>1. p \in Profile /\ \A c \in Connector : <<"tx", c>> \in Place
    BY ChargingAssumption DEF Place
  <2> QED
    BY <1>1, <2>1, ReplaceStored DEF SetChargingProfile, RemoteStart
<1>2. ASSUME NEW x \in work.slots, ClearNext(x)
      PROVE  StoredInv'
  <2>1. PICK S : /\ S = {x} /\ known' = Without(known, S)
                 /\ file' = Without(file, S) /\ profile' = Without(profile, S)
                 /\ pc \notin {"store", "off"} /\ pc' \notin {"store", "off"}
    BY <1>2 DEF ClearNext
  <2>2. \A y \in Slot : known'[y.place][y.level]
                           = IF y \in S THEN NoProfile ELSE known[y.place][y.level]
    <3>1. known \in Known /\ known' = Without(known, S)
      BY <2>1, KnownType
    <3>2. \A y \in Slot : Without(known, S)[y.place][y.level]
                             = IF y \in S THEN NoProfile ELSE known[y.place][y.level]
      BY <3>1, SlotWise
    <3> QED
      BY <3>1, <3>2
  <2> QED
    BY <2>1, <2>2, StoredRemoved
<1>3. CASE Store
  BY <1>3, StoreStored
<1>4. CASE StoreFails
  BY <1>4, StoreFailsStored
<1>5. CASE TrackTransactions
  BY <1>5, TrackStored
<1>6. CASE PowerCut
  BY <1>6, CutStored
<1>7. CASE Boot
  BY <1>7, BootStored
<1>8. CASE (\E f \in Filters : Clear(f)) \/ ClearEnd \/ UpdateLimits \/ Tick
  BY <1>8, StoredKept DEF Clear, ClearEnd, UpdateLimits, Tick, Open, hist
<1>9. CASE \E c \in Connector :
             \/ Begin(c) \/ StartTx(c) \/ (\E id \in TxIds : StartConf(c, id))
             \/ Abort(c) \/ StopTx(c) \/ StopConf(c) \/ FreeVend(c)
  BY <1>9, StoredKept DEF Begin, StartTx, StartConf, Abort, StopTx, StopConf, FreeVend, Open, hist
<1>10. CASE UNCHANGED vars
  BY <1>10 DEF StoredInv, Storing, Removed, Replaced, KnownAs, vars, hist
<1> QED
  BY <1>1, <1>2, <1>3, <1>4, <1>5, <1>6, <1>7, <1>8, <1>9, <1>10 DEF Next

LEMMA InvariantStored == Spec => [](TypeInv /\ StoredInv)
<1>1. Init => TypeInv /\ StoredInv
  BY InitType, InitStored
<1>2. TypeInv /\ StoredInv /\ [Next]_vars => (TypeInv /\ StoredInv)'
  BY StepType, StepStored
<1> QED
  BY <1>1, <1>2, PTL DEF Spec

\* Whenever the service rests, each slot holds what the server was told it holds, or the server
\* was left unsure by an update that was not accepted or by a boot: over replacements, clears,
\* failed writes, ends of transactions and power cuts at whatever point of a handler, nothing
\* else makes the two differ.
THEOREM AcceptedInstalled == Spec => []AsAccepted
<1>1. TypeInv /\ StoredInv => AsAccepted
  <2> SUFFICES ASSUME StoredInv, pc = "idle", NEW s \in Place, NEW l \in Level
               PROVE  known[s][l] \in {Unsure, Loaded(profile[s][l])}
    BY DEF AsAccepted
  <2> DEFINE x == [place |-> s, level |-> l]
  <2>1. x \in Slot /\ x.place = s /\ x.level = l
    BY DEF Slot
  <2> HIDE DEF x
  <2> QED
    BY <2>1 DEF StoredInv, Storing, Removed
<1> QED
  BY <1>1, InvariantStored, PTL

\* A reset brings back what is installed whenever the service rests, but for the minimum rates
\* and the highest level: no handler leaves RAM and flash apart.
THEOREM FlashInStep == Spec => []FlashAgrees
<1>1. TypeInv /\ StoredInv => FlashAgrees
  <2> SUFFICES ASSUME StoredInv, pc = "idle", NEW s \in Place, NEW l \in Level,
                      l < MaxLevel \/ Installed(s, l)
               PROVE  Loaded(file[s][l]) = Loaded(profile[s][l])
    BY DEF FlashAgrees
  <2> DEFINE x == [place |-> s, level |-> l]
  <2>1. x \in Slot /\ x.place = s /\ x.level = l
    BY DEF Slot
  <2> HIDE DEF x
  <2> QED
    BY <2>1 DEF StoredInv, Storing, Installed
<1> QED
  BY <1>1, InvariantStored, PTL

-----------------------------------------------------------------------------
(* A transaction and its profiles *)

LEMMA InitEnded == Init => Seen /\ Ended
<1> SUFFICES ASSUME Init PROVE Seen /\ Ended
  OBVIOUS
<1>1. /\ clock = 1 /\ pc = "pass"
      /\ \A c \in Connector : tx[c].phase = "none" /\ ~HasProfile(c)
  BY DEF Init, NoTx, EmptyStacks, HasProfile, Installed, Place
<1> QED
  BY <1>1 DEF Seen, Ended

\* The steps of one connector's transaction.
TxStep(c) ==
    \/ Begin(c) \/ StartTx(c) \/ (\E id \in TxIds : StartConf(c, id))
    \/ Abort(c) \/ StopTx(c) \/ StopConf(c)

\* What they do: one connector changes, and if its transaction begins to run or ends for a
\* reason the service has to see, the service's turn comes next.
LEMMA TxSteps ==
    ASSUME TypeInv, Seen, NEW c \in Connector, TxStep(c)
    PROVE  /\ pc \in {"idle", "dirty"} /\ pc' \in {"dirty", "pass"}
           /\ UNCHANGED <<clock, profile, file, track, work, known>>
           /\ \A d \in Connector : d # c => tx'[d] = tx[d]
           /\ orphaned \subseteq orphaned'
           /\ tx'[c].phase \in {"running", "stopping", "back"} => tx'[c].start \in 1..LastTime
           /\ tx'[c].phase \in {"running", "back"} /\ pc' # "pass" => track[c] # NoTrack
           /\ Held(c) /\ ~Held(c)' /\ c \notin orphaned' => pc' = "pass" /\ track[c] # NoTrack
<1>1. /\ tx[c] \in Tx /\ tx \in [Connector -> Tx] /\ clock \in 1..LastTime
      /\ tx[c].phase \in {"running", "stopping", "back"} => tx[c].start \in 1..LastTime
  BY ChargingAssumption DEF TypeInv, TypeOK, Seen, Time
<1>2. CASE Begin(c)
  <2>1. tx'[c].phase = "begun" /\ \A d \in Connector : d # c => tx'[d] = tx[d]
    BY <1>1, <1>2 DEF Begin, SetTx, NoTx
  <2> QED
    BY <1>2, <2>1 DEF Begin, Open, hist, Held
<1>3. CASE StartTx(c)
  <2>1. /\ tx'[c].phase = "running" /\ tx'[c].start = clock
        /\ \A d \in Connector : d # c => tx'[d] = tx[d]
    BY <1>1, <1>3 DEF StartTx, SetTx, Tx
  <2> QED
    BY <1>1, <1>3, <2>1 DEF StartTx, Open, hist, Held
<1>4. CASE \E id \in TxIds : StartConf(c, id)
  <2>1. /\ tx'[c].phase = tx[c].phase /\ tx'[c].start = tx[c].start
        /\ \A d \in Connector : d # c => tx'[d] = tx[d]
    BY <1>1, <1>4 DEF StartConf, SetTx, Tx
  <2>2. /\ pc \in {"idle", "dirty"} /\ pc' = "dirty"
        /\ UNCHANGED <<clock, profile, file, track, work, hist>>
    BY <1>4 DEF StartConf, Open
  <2> QED
    BY <1>1, <2>1, <2>2 DEF hist, Held, Seen
<1>5. CASE Abort(c)
  <2>1. tx'[c] = NoTx /\ \A d \in Connector : d # c => tx'[d] = tx[d]
    BY <1>1, <1>5 DEF Abort, SetTx
  <2>2. tx'[c].phase = "none"
    BY <2>1 DEF NoTx
  <2> QED
    BY <1>5, <2>1, <2>2 DEF Abort, Open
<1>6. CASE StopTx(c)
  <2>1. /\ tx'[c].phase = "stopping" /\ tx'[c].start = tx[c].start
        /\ \A d \in Connector : d # c => tx'[d] = tx[d]
    BY <1>1, <1>6 DEF StopTx, SetTx, Tx
  <2>2. /\ pc \in {"idle", "dirty"} /\ pc' = "pass" /\ tx[c].phase = "running"
        /\ UNCHANGED <<clock, profile, file, track, work, hist>>
    BY <1>6 DEF StopTx, Open
  <2>3. track[c] # NoTrack
    BY <2>2 DEF Seen
  <2> QED
    BY <1>1, <2>1, <2>2, <2>3 DEF hist
<1>7. CASE StopConf(c)
  <2>1. tx'[c] = NoTx /\ \A d \in Connector : d # c => tx'[d] = tx[d]
    BY <1>1, <1>7 DEF StopConf, SetTx
  <2>2. tx'[c].phase = "none"
    BY <2>1 DEF NoTx
  <2>3. /\ pc \in {"idle", "dirty"} /\ tx[c].phase \in {"stopping", "back"}
        /\ pc' = IF tx[c].phase = "back" THEN "pass" ELSE "dirty"
        /\ UNCHANGED <<clock, profile, file, track, work, hist>>
    BY <1>7 DEF StopConf, Open
  <2>4. tx[c].phase = "back" => track[c] # NoTrack
    BY <2>3 DEF Seen
  <2> QED
    BY <2>1, <2>2, <2>3, <2>4 DEF hist, Held
<1> QED
  BY <1>2, <1>3, <1>4, <1>5, <1>6, <1>7 DEF TxStep

\* A free vend begins a transaction as well, also in a pass.
LEMMA FreeVendStep ==
    ASSUME TypeInv, NEW c \in Connector, FreeVend(c)
    PROVE  /\ pc \in {"idle", "dirty", "pass"} /\ pc' = "pass"
           /\ UNCHANGED <<clock, profile, file, track, work, known>>
           /\ tx'[c].phase = "begun" /\ \A d \in Connector : d # c => tx'[d] = tx[d]
           /\ orphaned \subseteq orphaned' /\ (track[c] # NoTrack => c \in orphaned')
<1>1. tx \in [Connector -> Tx]
  BY DEF TypeInv, TypeOK
<1>2. tx'[c].phase = "begun" /\ \A d \in Connector : d # c => tx'[d] = tx[d]
  BY <1>1 DEF FreeVend, SetTx, NoTx
<1> QED
  BY <1>2 DEF FreeVend

\* The service sees a transaction that runs.
LEMMA TrackedRuns ==
    ASSUME TypeInv, Seen, NEW c \in Connector, tx[c].phase \in {"running", "back"}
    PROVE  Tracked(c) # NoTrack
<1>1. tx[c].start \in 1..LastTime /\ LastTime \in Nat /\ LastTime < MaxTime /\ MaxTime \in Nat
  BY ChargingAssumption, LimitsAssumption DEF Seen
<1>2. tx[c].start # 0 /\ tx[c].start # MaxTime
  BY <1>1
<1>3. Tracked(c).start = tx[c].start
  BY <1>2 DEF Tracked, Held, MinTime
<1> QED
  BY <1>2, <1>3 DEF NoTrack

LEMMA StepSeen == TypeInv /\ Seen /\ [Next]_vars => Seen'
<1> SUFFICES ASSUME TypeInv, Seen, [Next]_vars PROVE Seen'
  OBVIOUS
<1>1. CASE \E c \in Connector : TxStep(c)
  <2>1. PICK c \in Connector : TxStep(c)
    BY <1>1
  <2> QED
    BY <2>1, TxSteps DEF Seen
<1>2. CASE Store
  <2>1. pc = "store" /\ UNCHANGED <<clock, track>>
    BY <1>2 DEF Store
  <2>2. \A d \in Connector : tx'[d] = tx[d] \/ tx'[d].phase = "begun"
    <3>1. \A p : [NoTx EXCEPT !.phase = "begun", !.rmt = p].phase = "begun"
      BY DEF NoTx
    <3>2. \/ tx' = tx
          \/ \E p : tx' = [tx EXCEPT ![work.start] = [NoTx EXCEPT !.phase = "begun", !.rmt = p]]
      BY <1>2 DEF Store
    <3>3. \A d \in Connector : d \in DOMAIN tx
      BY DEF TypeInv, TypeOK
    <3> QED
      BY <3>1, <3>2, <3>3
  <2> QED
    BY <2>1, <2>2 DEF Seen
<1>3. CASE TrackTransactions
  <2>1. UNCHANGED <<clock, tx>> /\ \A c \in Connector : track'[c] = Tracked(c)
    BY <1>3 DEF TrackTransactions
  <2> QED
    BY <2>1, TrackedRuns DEF Seen
<1>4. CASE Tick
  <2>1. UNCHANGED tx /\ pc' = "pass" /\ clock' = clock + 1 /\ clock \in Nat
    BY <1>4 DEF Tick, TypeInv, TypeOK, Time
  <2> QED
    BY <2>1 DEF Seen
<1>5. CASE PowerCut \/ Boot
  <2>1. /\ pc' \in {"pass", "off"} /\ clock' = clock
        /\ \A c \in Connector :
              /\ tx'[c].start = tx[c].start
              /\ tx'[c].phase = tx[c].phase
                 \/ (tx[c].phase = "stopping" /\ tx'[c].phase = "back")
    BY <1>5 DEF PowerCut, Boot, TypeInv, TypeOK, Tx
  <2> QED
    BY <2>1 DEF Seen
<1>6. CASE \/ \E p \in Catalogue : \/ \E s \in Place : SetChargingProfile(s, p)
                                   \/ \E c \in Connector : RemoteStart(c, p)
           \/ \E f \in Filters : Clear(f)
           \/ \E x \in work.slots : ClearNext(x)
           \/ ClearEnd
           \/ StoreFails
           \/ UpdateLimits
           \/ UNCHANGED vars
  <2>1. UNCHANGED <<clock, tx, track>> /\ (pc' \in {"pass", "off"} \/ pc \notin {"pass", "off"})
    BY <1>6 DEF SetChargingProfile, RemoteStart, Replace, Clear, ClearNext, ClearEnd, StoreFails,
          UpdateLimits, Open, vars
  <2> QED
    BY <2>1 DEF Seen
<1>7. CASE \E c \in Connector : FreeVend(c)
  BY <1>7, FreeVendStep DEF Seen
<1> QED
  BY <1>1, <1>2, <1>3, <1>4, <1>5, <1>6, <1>7 DEF Next, TxStep

\* The slots of the profiles of a transaction.
LEMMA TxSlot ==
    ASSUME NEW c \in Connector, NEW l \in Level
    PROVE  /\ [place |-> <<"tx", c>>, level |-> l] \in Slot
           /\ <<"tx", c>> \in Place
           /\ \A S, stacks : stacks \in Stacks =>
                 Without(stacks, S)[<<"tx", c>>][l]
                    = IF [place |-> <<"tx", c>>, level |-> l] \in S THEN NoProfile
                      ELSE stacks[<<"tx", c>>][l]
<1>1. <<"tx", c>> \in Place
  BY DEF Place
<1> QED
  BY <1>1 DEF Slot, Without

\* A step after which no transaction has a profile that it had not, or was forgotten.
LEMMA EndedKept ==
    ASSUME Ended, UNCHANGED <<tx, track, orphaned>>,
           pc \notin {"pass", "store", "off"}, pc' \notin {"store", "off"},
           \A c \in Connector : HasProfile(c)' => HasProfile(c)
    PROVE  Ended'
<1> SUFFICES ASSUME NEW c \in Connector, c \notin orphaned, HasProfile(c)'
             PROVE  Held(c)'
  BY DEF Ended
<1>1. HasProfile(c)
  OBVIOUS
<1> QED
  BY <1>1 DEF Ended, Held

\* A profile that is being installed goes to a transaction that runs, or that is about to begin.
LEMMA ReplaceEnded ==
    ASSUME TypeInv, Ended, Open, NEW s \in Place, NEW p \in Profile, NEW start \in 0..N,
           Replace(s, p, start), UNCHANGED <<tx, track, orphaned>>,
           \A c \in Connector : s = <<"tx", c>> => Held(c) \/ start = c
    PROVE  Ended'
<1> DEFINE S == SameId(p.id)
           cleared == Without(profile, S)
<1>1. profile \in Stacks /\ cleared \in Stacks /\ p.level \in Level
  BY StacksType DEF TypeInv, TypeOK, Profile
<1>2. ASSUME NEW c \in Connector, NEW l \in Level, cleared[<<"tx", c>>][l] # NoProfile
      PROVE  HasProfile(c)
  <2> HIDE DEF S
  <2>1. Without(profile, S)[<<"tx", c>>][l]
           = IF [place |-> <<"tx", c>>, level |-> l] \in S THEN NoProfile
             ELSE profile[<<"tx", c>>][l]
    BY <1>1, TxSlot
  <2>2. profile[<<"tx", c>>][l] # NoProfile
    BY <1>2, <2>1
  <2> QED
    BY <2>2 DEF HasProfile, Installed
<1>3. CASE InstalledCount(cleared) < MaxInstalled
  <2>1. /\ profile' = With(cleared, s, p.level, p) /\ pc' = "store"
        /\ work' = [slots |-> {[place |-> s, level |-> p.level]}, start |-> start]
    BY <1>3 DEF Replace
  <2>2. ASSUME NEW c \in Connector, c \notin orphaned, NEW l \in Level, Installed(<<"tx", c>>, l)'
        PROVE  \/ Held(c)'
               \/ work'.start = c /\ [place |-> <<"tx", c>>, level |-> l] \in work'.slots
    <3> DEFINE x == [place |-> <<"tx", c>>, level |-> l]
    <3>1. x \in Slot /\ x.place = <<"tx", c>> /\ x.level = l
      BY TxSlot
    <3>2. CASE x = [place |-> s, level |-> p.level]
      <4>1. s = <<"tx", c>>
        BY <3>1, <3>2
      <4>2. x \in work'.slots /\ work'.start = start
        BY <2>1, <3>2
      <4> QED
        BY <4>1, <4>2 DEF Held
    <3>3. CASE x # [place |-> s, level |-> p.level]
      <4> HIDE DEF x, cleared
      <4>1. profile'[<<"tx", c>>][l] = cleared[<<"tx", c>>][l]
        BY <1>1, <2>1, <3>1, <3>3, SlotWise
      <4>2. HasProfile(c)
        BY <1>2, <2>2, <4>1 DEF Installed
      <4> QED
        BY <2>2, <4>2 DEF Ended, Open, Held
    <3> QED
      BY <3>2, <3>3
  <2> QED
    BY <2>1, <2>2 DEF Ended
<1>4. CASE ~(InstalledCount(cleared) < MaxInstalled)
  <2>1. profile' = cleared /\ pc' = "dirty"
    BY <1>4 DEF Replace
  <2>2. \A c \in Connector : HasProfile(c)' => HasProfile(c)
    BY <1>2, <2>1 DEF HasProfile, Installed
  <2> QED
    BY <2>1, <2>2, EndedKept DEF Open
<1> QED
  BY <1>3, <1>4

LEMMA StoreEnded ==
    ASSUME TypeInv, Ended, Store \/ StoreFails
    PROVE  Ended'
<1>1. /\ pc = "store" /\ pc' = "dirty" /\ orphaned \subseteq orphaned'
      /\ profile \in Stacks /\ tx \in [Connector -> Tx]
  BY DEF Store, StoreFails, TypeInv, TypeOK
<1> SUFFICES ASSUME NEW c \in Connector, c \notin orphaned',
                    NEW l \in Level, Installed(<<"tx", c>>, l)'
             PROVE  Held(c)'
  BY <1>1 DEF Ended, HasProfile
<1>2. CASE Store
  <2>1. Installed(<<"tx", c>>, l)
    BY <1>2 DEF Store, Installed
  <2>2. Held(c) \/ work.start = c
    BY <1>1, <2>1 DEF Ended
  <2>3. c # 0
    BY ChargingAssumption DEF Connector
  <2>4. \A p : [NoTx EXCEPT !.phase = "begun", !.rmt = p].phase = "begun"
    BY DEF NoTx
  <2>5. /\ tx'[c] = tx[c] \/ tx'[c].phase = "begun"
        /\ work.start = c => tx'[c].phase = "begun"
    <3>1. PICK p : \/ /\ work.start # 0
                      /\ tx' = [tx EXCEPT ![work.start] =
                                    [NoTx EXCEPT !.phase = "begun", !.rmt = p]]
                   \/ orphaned' = orphaned \cup {work.start} /\ UNCHANGED tx
                   \/ work.start = 0 /\ UNCHANGED tx
      BY <1>2 DEF Store
    <3> DEFINE begun == [NoTx EXCEPT !.phase = "begun", !.rmt = p]
    <3>2. begun.phase = "begun"
      BY <2>4
    <3>3. CASE tx' = [tx EXCEPT ![work.start] = begun]
      <4> HIDE DEF begun
      <4> QED
        BY <1>1, <3>2, <3>3
    <3>4. CASE orphaned' = orphaned \cup {work.start} /\ UNCHANGED tx
      BY <3>4
    <3>5. CASE work.start = 0 /\ UNCHANGED tx
      BY <2>3, <3>5
    <3> QED
      BY <3>1, <3>3, <3>4, <3>5
  <2> QED
    BY <2>2, <2>5 DEF Held
<1>3. CASE StoreFails
  <2>1. profile' = Without(profile, work.slots) /\ tx' = tx
    BY <1>3 DEF StoreFails
  <2>2. /\ Installed(<<"tx", c>>, l)
        /\ [place |-> <<"tx", c>>, level |-> l] \notin work.slots
    BY <1>1, <2>1, TxSlot DEF Installed
  <2>3. Held(c)
    BY <1>1, <2>2 DEF Ended
  <2> QED
    BY <2>1, <2>3 DEF Held
<1> QED
  BY <1>2, <1>3

\* The profiles of a transaction that has just ended are dropped.
LEMMA TrackEnded ==
    ASSUME TypeInv, Ended, TrackTransactions
    PROVE  Ended'
<1> DEFINE dropped == {x \in OfTx({c \in Connector : Gone(c)}) : Installed(x.place, x.level)}
<1>1. /\ pc \in {"idle", "dirty", "pass"} /\ pc' = "limits" /\ tx' = tx
      /\ profile' = Without(profile, dropped) /\ profile \in Stacks
      /\ orphaned' = orphaned \ {c \in Connector : Gone(c)}
  BY DEF TrackTransactions, TypeInv, TypeOK
<1> SUFFICES ASSUME NEW c \in Connector, c \notin orphaned',
                    NEW l \in Level, Installed(<<"tx", c>>, l)'
             PROVE  Held(c)'
  BY <1>1 DEF Ended, HasProfile
<1> DEFINE x == [place |-> <<"tx", c>>, level |-> l]
<1>2. Installed(<<"tx", c>>, l) /\ x \notin dropped
  <2> HIDE DEF dropped
  <2> QED
    BY <1>1, TxSlot DEF Installed
<1>3. ~Gone(c)
  <2>1. x \in Slot /\ x.place = <<"tx", c>> /\ x.place[1] = "tx" /\ x.place[2] = c /\ x.level = l
    BY TxSlot
  <2> HIDE DEF x
  <2> QED
    BY <1>2, <2>1 DEF OfTx, x
<1>4. c \notin orphaned /\ HasProfile(c)
  BY <1>1, <1>2, <1>3 DEF HasProfile
<1>5. Held(c)
  BY <1>1, <1>3, <1>4 DEF Ended, Gone
<1> QED
  BY <1>1, <1>5 DEF Held

\* What a power cut leaves in flash was in RAM, and what a boot reads back belongs to a
\* transaction that the connector has again.
LEMMA ResetEnded ==
    ASSUME TypeInv, StoredInv, Ended, PowerCut \/ Boot
    PROVE  Ended'
<1>1. CASE PowerCut
  <2>1. /\ pc \in Cuts /\ pc \in {"idle", "dirty", "pass", "store", "clear"} /\ pc' = "off"
        /\ file' = file /\ file \in Stacks /\ profile \in Stacks /\ tx \in [Connector -> Tx]
        /\ orphaned' = orphaned \cup
                       {c \in Connector : tx[c].phase = "none" /\ pc \in {"store", "pass"}}
    BY <1>1, ChargingAssumption DEF PowerCut, TypeInv, TypeOK
  <2> SUFFICES ASSUME NEW c \in Connector, c \notin orphaned', tx'[c].phase = "none",
                      NEW l \in Level, l < MaxLevel
               PROVE  file'[<<"tx", c>>][l] = NoProfile
    BY <2>1 DEF Ended
  <2>2. tx[c].phase = "none"
    BY <1>1, <2>1 DEF PowerCut, Tx
  <2>3. c \notin orphaned /\ pc \notin {"pass", "store", "off"}
    BY <2>1, <2>2
  <2>4. ~Installed(<<"tx", c>>, l)
    BY <2>2, <2>3 DEF Ended, HasProfile, Held
  <2> DEFINE x == [place |-> <<"tx", c>>, level |-> l]
  <2>5. x \in Slot \ Storing /\ x.place = <<"tx", c>> /\ x.level = l
    BY <2>3, TxSlot DEF Storing
  <2> HIDE DEF x
  <2>6. profile[<<"tx", c>>][l] = NoProfile
    BY <2>4 DEF Installed
  <2>7. Loaded(file[<<"tx", c>>][l]) = NoProfile
    BY <2>3, <2>5, <2>6, LoadedOf DEF StoredInv
  <2>8. file[<<"tx", c>>][l] \in Profile \cup {NoProfile}
    BY <2>5, SlotType
  <2> QED
    BY <2>1, <2>7, <2>8, LoadedOf
<1>2. CASE Boot
  <2>1. /\ pc = "off" /\ pc' = "pass" /\ UNCHANGED orphaned /\ tx \in [Connector -> Tx]
    BY <1>2 DEF Boot, TypeInv, TypeOK
  <2> SUFFICES ASSUME NEW c \in Connector, c \notin orphaned,
                      NEW l \in Level, Installed(<<"tx", c>>, l)'
               PROVE  Held(c)'
    BY <2>1 DEF Ended, HasProfile
  <2>2. Loadable(<<"tx", c>>, l)
    BY <1>2, TxSlot DEF Boot, Installed
  <2>3. tx[c].phase # "none" /\ tx[c].phase \in Phase
    BY <2>1, <2>2 DEF Ended, Loadable, Tx
  <2>4. tx'[c].phase = IF tx[c].phase = "stopping" THEN "back" ELSE tx[c].phase
    BY <1>2, <2>1 DEF Boot, Tx
  <2> QED
    BY <2>3, <2>4 DEF Held, Phase
<1> QED
  BY <1>1, <1>2

LEMMA StepEnded == TypeInv /\ StoredInv /\ Seen /\ Ended /\ [Next]_vars => Ended'
<1> SUFFICES ASSUME TypeInv, StoredInv, Seen, Ended, [Next]_vars PROVE Ended'
  OBVIOUS
<1>0. profile \in Stacks
  BY DEF TypeInv, TypeOK
<1>1. CASE \E c \in Connector : TxStep(c)
  <2>1. PICK d \in Connector : TxStep(d)
    BY <1>1
  <2>2. /\ pc \in {"idle", "dirty"} /\ pc' \in {"dirty", "pass"}
        /\ UNCHANGED <<profile, track>> /\ orphaned \subseteq orphaned'
        /\ \A c \in Connector : c # d => tx'[c] = tx[c]
        /\ Held(d) /\ ~Held(d)' /\ d \notin orphaned' => pc' = "pass" /\ track[d] # NoTrack
    BY <2>1, TxSteps
  <2> SUFFICES ASSUME NEW c \in Connector, c \notin orphaned', HasProfile(c)', ~Held(c)'
               PROVE  pc' = "pass" /\ track'[c] # NoTrack
    BY <2>2 DEF Ended
  <2>3. HasProfile(c)
    BY <2>2 DEF HasProfile, Installed
  <2>4. Held(c)
    BY <2>2, <2>3 DEF Ended
  <2>5. c = d
    BY <2>2, <2>4 DEF Held
  <2> QED
    BY <2>2, <2>4, <2>5
<1>2. ASSUME NEW p \in Catalogue, NEW s \in Place, SetChargingProfile(s, p) PROVE Ended'
  <2>1. p \in Profile /\ 0 \in 0..N /\ Replace(s, p, 0) /\ Open /\ UNCHANGED <<tx, track, orphaned>>
    BY <1>2, ChargingAssumption DEF SetChargingProfile
  <2>2. ASSUME NEW c \in Connector, s = <<"tx", c>> PROVE Held(c)
    BY <1>2, <2>2 DEF SetChargingProfile, Held
  <2> QED
    BY <2>1, <2>2, ReplaceEnded
<1>3. ASSUME NEW p \in Catalogue, NEW d \in Connector, RemoteStart(d, p) PROVE Ended'
  <2>1. /\ p \in Profile /\ d \in 0..N /\ <<"tx", d>> \in Place
        /\ Replace(<<"tx", d>>, p, d) /\ Open /\ UNCHANGED <<tx, track, orphaned>>
    BY <1>3, ChargingAssumption, InitialValues DEF RemoteStart, Place
  <2>2. \A c : <<"tx", d>> = <<"tx", c>> => d = c
    OBVIOUS
  <2> QED
    BY <2>1, <2>2, ReplaceEnded
<1>4. CASE Store \/ StoreFails
  BY <1>4, StoreEnded
<1>5. CASE (\E f \in Filters : Clear(f)) \/ (\E x \in work.slots : ClearNext(x)) \/ ClearEnd
  <2>1. /\ pc \notin {"pass", "store", "off"} /\ pc' \notin {"store", "off"}
        /\ UNCHANGED <<tx, track, orphaned>>
        /\ \E S : profile' = profile \/ profile' = Without(profile, S)
    BY <1>5 DEF Clear, ClearNext, ClearEnd, Open, hist
  <2>2. ASSUME NEW c \in Connector, NEW l \in Level, Installed(<<"tx", c>>, l)'
        PROVE  Installed(<<"tx", c>>, l)
    <3>1. PICK S : profile' = profile \/ profile' = Without(profile, S)
      BY <2>1
    <3>2. CASE profile' = profile
      BY <2>2, <3>2 DEF Installed
    <3>3. CASE profile' = Without(profile, S)
      <4>1. Without(profile, S)[<<"tx", c>>][l]
               = IF [place |-> <<"tx", c>>, level |-> l] \in S THEN NoProfile
                 ELSE profile[<<"tx", c>>][l]
        BY <1>0, TxSlot
      <4>2. Without(profile, S)[<<"tx", c>>][l] # NoProfile
        BY <2>2, <3>3 DEF Installed
      <4> QED
        BY <4>1, <4>2 DEF Installed
    <3> QED
      BY <3>1, <3>2, <3>3
  <2>3. \A c \in Connector : HasProfile(c)' => HasProfile(c)
    BY <2>2 DEF HasProfile
  <2> QED
    BY <2>1, <2>3, EndedKept
<1>6. CASE TrackTransactions
  BY <1>6, TrackEnded
<1>7. CASE UpdateLimits \/ Tick
  <2>1. /\ pc \notin {"pass", "store", "off"} /\ pc' \notin {"store", "off"}
        /\ UNCHANGED <<tx, track, orphaned, profile>>
    BY <1>7 DEF UpdateLimits, Tick, hist
  <2> QED
    BY <2>1, EndedKept DEF HasProfile, Installed
<1>8. CASE PowerCut \/ Boot
  BY <1>8, ResetEnded
<1>9. CASE UNCHANGED vars
  BY <1>9 DEF vars, hist, Ended, HasProfile, Installed, Held
<1>10. CASE \E c \in Connector : FreeVend(c)
  <2>1. PICK d \in Connector : FreeVend(d)
    BY <1>10
  <2>2. /\ pc \in {"idle", "dirty", "pass"} /\ pc' = "pass"
        /\ UNCHANGED <<profile, track>> /\ orphaned \subseteq orphaned'
        /\ tx'[d].phase = "begun" /\ \A c \in Connector : c # d => tx'[c] = tx[c]
    BY <2>1, FreeVendStep
  <2> SUFFICES ASSUME NEW c \in Connector, c \notin orphaned', HasProfile(c)', ~Held(c)'
               PROVE  track'[c] # NoTrack
    BY <2>2 DEF Ended
  <2>3. HasProfile(c) /\ c # d
    BY <2>2 DEF HasProfile, Installed, Held
  <2>4. ~Held(c)
    BY <2>2, <2>3 DEF Held
  <2> QED
    BY <2>2, <2>3, <2>4 DEF Ended
<1> QED
  BY <1>1, <1>2, <1>3, <1>4, <1>5, <1>6, <1>7, <1>8, <1>9, <1>10 DEF Next, TxStep

\* The steps that begin a transaction.
LEMMA Beginning ==
    ASSUME TypeInv, StoredInv, Ended, [Next]_vars, NEW c \in Connector, ~Held(c), Held(c)',
           NEW l \in Level, Installed(<<"tx", c>>, l), c \notin orphaned'
    PROVE  [place |-> <<"tx", c>>, level |-> l] \in work.slots
<1>0. HasProfile(c) /\ tx \in [Connector -> Tx]
  BY DEF HasProfile, TypeInv, TypeOK
<1>1. CASE Store
  <2>1. pc = "store" /\ orphaned \subseteq orphaned'
    BY <1>1 DEF Store
  <2> QED
    BY <2>1 DEF Ended
<1>2. CASE \E d \in Connector : Begin(d)
  <2>1. pc \notin {"pass", "store", "off"} /\ orphaned' = orphaned
    BY <1>2 DEF Begin, Open, hist
  <2> QED
    BY <1>0, <2>1 DEF Ended
<1>3. CASE \E d \in Connector : FreeVend(d)
  <2>1. PICK d \in Connector : FreeVend(d)
    BY <1>3
  <2>2. c = d
    BY <2>1, FreeVendStep DEF Held
  <2>3. c \notin orphaned /\ track[c] = NoTrack /\ pc \in {"idle", "dirty", "pass"}
    BY <2>1, <2>2, FreeVendStep
  <2> QED
    BY <1>0, <2>3 DEF Ended
<1>4. CASE Boot
  <2>1. pc = "off" /\ [place |-> <<"tx", c>>, level |-> l] \in Slot
    BY <1>4, TxSlot DEF Boot
  <2>2. profile[<<"tx", c>>][l] = NoProfile
    BY <2>1 DEF StoredInv
  <2> QED
    BY <2>2 DEF Installed
<1>5. ASSUME NEW d \in Connector,
             \/ StartTx(d) \/ (\E id \in TxIds : StartConf(d, id))
             \/ Abort(d) \/ StopTx(d) \/ StopConf(d)
      PROVE  Held(d)' => Held(d)
  <2>1. tx[d] \in Tx
    BY <1>0
  <2>2. CASE StartTx(d)
    BY <2>2 DEF StartTx, Held
  <2>3. CASE \E id \in TxIds : StartConf(d, id)
    BY <1>0, <2>1, <2>3 DEF StartConf, SetTx, Held, Tx
  <2>4. CASE Abort(d) \/ StopConf(d)
    BY <1>0, <2>4 DEF Abort, StopConf, SetTx, Held, NoTx
  <2>5. CASE StopTx(d)
    BY <2>5 DEF StopTx, Held
  <2> QED
    BY <1>5, <2>2, <2>3, <2>4, <2>5
<1>6. ASSUME NEW d \in Connector,
             \/ StartTx(d) \/ (\E id \in TxIds : StartConf(d, id))
             \/ Abort(d) \/ StopTx(d) \/ StopConf(d)
      PROVE  FALSE
  <2>1. d # c => tx'[c] = tx[c]
    BY <1>0, <1>6 DEF StartTx, StartConf, Abort, StopTx, StopConf, SetTx
  <2> QED
    BY <1>5, <1>6, <2>1 DEF Held
<1>7. CASE PowerCut
  <2>1. tx'[c].phase = tx[c].phase
    BY <1>0, <1>7 DEF PowerCut, Tx
  <2> QED
    BY <2>1 DEF Held
<1>8. CASE \/ \E p \in Catalogue : \/ \E s \in Place : SetChargingProfile(s, p)
                                   \/ \E d \in Connector : RemoteStart(d, p)
           \/ \E f \in Filters : Clear(f)
           \/ \E x \in work.slots : ClearNext(x)
           \/ ClearEnd
           \/ StoreFails
           \/ TrackTransactions
           \/ UpdateLimits
           \/ Tick
           \/ UNCHANGED vars
  <2>1. tx' = tx
    BY <1>8 DEF SetChargingProfile, RemoteStart, Clear, ClearNext, ClearEnd, StoreFails,
          TrackTransactions, UpdateLimits, Tick, vars
  <2> QED
    BY <2>1 DEF Held
<1> QED
  BY <1>1, <1>2, <1>3, <1>4, <1>6, <1>7, <1>8 DEF Next

\* No transaction begins with the TxProfile of an earlier one, unless the service did not look in
\* between or never saw that one: whatever messages, failed writes and power cuts come between
\* the end of the one and the begin of the other.  Removing a profile's file always succeeds.
THEOREM NoneOutlives == Spec => EndsWithTx
<1>1. Init => TypeInv /\ StoredInv /\ Seen /\ Ended
  BY InitType, InitStored, InitEnded
<1>2. TypeInv /\ StoredInv /\ Seen /\ Ended /\ [Next]_vars
          => (TypeInv /\ StoredInv /\ Seen /\ Ended)'
  BY StepType, StepStored, StepSeen, StepEnded
<1> DEFINE Right == \A c \in Connector, l \in Level :
                       ~Held(c) /\ Held(c)' /\ Installed(<<"tx", c>>, l)
                           => [place |-> <<"tx", c>>, level |-> l] \in work.slots \/ c \in orphaned'
<1>3. TypeInv /\ StoredInv /\ Seen /\ Ended /\ [Next]_vars => [Right]_vars
  BY Beginning
<1>4. EndsWithTx <=> [][Right]_vars
  BY DEF EndsWithTx
<1> HIDE DEF Right
<1> QED
  BY <1>1, <1>2, <1>3, <1>4, PTL DEF Spec

-----------------------------------------------------------------------------
(* Between two changes of a limit *)

\* The remainder grows with the number until it reaches the divisor.
LEMMA RemainderGrows ==
    ASSUME NEW a \in Nat, NEW d \in Nat, NEW m \in Nat \ {0}, (a % m) + d < m
    PROVE  (a + d) % m = (a % m) + d
<1>0. m \in Nat /\ m > 0
  OBVIOUS
<1> DEFINE q == a \div m
           r == a % m
           e == (a + d) \div m - q
<1>1. a = m * q + r /\ q \in Int /\ r \in 0..(m - 1)
  OBVIOUS
<1>2. a + d = m * ((a + d) \div m) + ((a + d) % m) /\ (a + d) \div m \in Int /\ (a + d) % m \in 0..(m - 1)
  OBVIOUS
<1> HIDE DEF q, r
<1>3. m * ((a + d) \div m) = m * q + m * e /\ e \in Int
  BY <1>1, <1>2
<1>4. m * e + ((a + d) % m) = r + d
  BY <1>1, <1>2, <1>3
<1>5. r + d \in 0..(m - 1)
  BY <1>1 DEF r
<1> HIDE DEF e
<1>6. e = 0
  <2>1. CASE e >= 1
    <3>1. m * e >= m
      <4>1. m * (e - 1) >= 0 /\ m * e = m + m * (e - 1)
        BY <1>0, <1>3, <2>1
      <4> QED
        BY <1>0, <1>3, <4>1
    <3>2. \A x \in Int, s \in Nat, w \in 0..(m - 1) : x >= m => x + s # w
      BY <1>0
    <3> QED
      BY <1>0, <1>2, <1>3, <1>4, <1>5, <3>1, <3>2
  <2>2. CASE e <= -1
    <3>1. m * e <= -m
      <4>1. m * (-1 - e) >= 0 /\ m * e = -m - m * (-1 - e)
        BY <1>0, <1>3, <2>2
      <4> QED
        BY <1>0, <1>3, <4>1
    <3>2. \A x \in Int, s \in 0..(m - 1), w \in Nat : x <= -m => x + s # w
      BY <1>0
    <3> QED
      BY <1>0, <1>2, <1>3, <1>4, <1>5, <3>1, <3>2
  <2> QED
    BY <1>3, <2>1, <2>2
<1> QED
  BY <1>2, <1>4, <1>6 DEF r

\* A period of a recurring schedule whose validity has begun: its basis stays until the cycle ends.
LEMMA BasisSteady ==
    ASSUME NEW p \in Profile, Bounded(p), NEW t \in Time, NEW u \in Time, t <= u, NEW begin \in Time,
           ~Early(p, t), Recurring(p) => u < Basis(p, t, begin) + Cycle(p)
    PROVE  /\ Basis(p, u, begin) = Basis(p, t, begin)
           /\ Recurring(p) => Basis(p, t, begin) <= t
<1>1. p.start \in Nat /\ p.from \in Nat /\ t \in Nat /\ u \in Nat
  BY DEF Profile, Time
<1>2. Cycle(p) \in Nat \ {0}
  BY BasisType
<1>3. CASE Recurring(p)
  <2> DEFINE a == t - p.start
             d == u - t
  <2>1. a \in Nat /\ d \in Nat /\ u - p.start = a + d /\ a >= 0 /\ a + d >= 0
    BY <1>1, <1>3 DEF Bounded, Early
  <2>2. Basis(p, t, begin) = t - (a % Cycle(p)) /\ Basis(p, u, begin) = u - ((a + d) % Cycle(p))
    BY <1>3, <2>1 DEF Basis, Remainder
  <2>3. a % Cycle(p) \in Nat
    BY <1>2, <2>1
  <2>4. (a % Cycle(p)) + d < Cycle(p)
    BY <1>1, <1>2, <1>3, <2>2, <2>3
  <2>5. (a + d) % Cycle(p) = (a % Cycle(p)) + d
    BY <1>2, <2>1, <2>4, RemainderGrows
  <2> HIDE DEF a
  <2> QED
    BY <1>1, <2>2, <2>3, <2>5
<1>4. CASE ~Recurring(p)
  BY <1>4 DEF Basis
<1> QED
  BY <1>3, <1>4

\* As long as a profile defines a limit, the first period that is yet to come stays the same
\* until it begins.
LEMMA InForceSteady ==
    ASSUME NEW p \in Profile, NEW t \in Time, NEW u \in Time, t <= u, NEW begin \in Time,
           Basis(p, u, begin) = Basis(p, t, begin),
           Coming(p, t, begin) # {} =>
               u < Basis(p, t, begin) + p.periods[Least(Coming(p, t, begin))].at
    PROVE  InForce(p, u, begin) = InForce(p, t, begin)
<1> DEFINE C == Coming(p, t, begin)
           D == Coming(p, u, begin)
<1>1. t \in Nat /\ u \in Nat /\ Basis(p, t, begin) \in Int
  BY BasisType DEF Time
<1>2. \A i \in 1..Len(p.periods) : p.periods[i].at \in Nat
  BY ComingType
<1>3. C \subseteq 1..Len(p.periods) /\ D \subseteq 1..Len(p.periods)
  BY ComingType
<1>4. D \subseteq C
  BY <1>1, <1>2, <1>3 DEF Coming, Offset
<1>5. CASE C = {}
  <2>1. D = {}
    BY <1>4, <1>5
  <2> QED
    BY <1>5, <2>1 DEF InForce
<1>6. CASE C # {}
  <2>1. Least(C) \in C /\ \A k \in C : Least(C) <= k
    BY <1>3, <1>6, LeastIn
  <2>2. Least(C) \in D
    <3>1. Least(C) \in DOMAIN p.periods /\ p.periods[Least(C)].at \in Nat
      BY <1>2, <1>3, <2>1 DEF Coming
    <3>2. p.periods[Least(C)].at > u - Basis(p, t, begin)
      BY <1>1, <1>6, <3>1
    <3> QED
      BY <3>1, <3>2 DEF Coming, Offset
  <2>3. Least(D) \in D /\ \A k \in D : Least(D) <= k
    BY <1>3, <2>2, LeastIn
  <2>4. Least(D) = Least(C)
    <3>1. Least(C) \in Nat /\ Least(D) \in Nat
      BY <1>3, <2>1, <2>3
    <3> QED
      BY <1>4, <2>1, <2>2, <2>3, <3>1
  <2> QED
    BY <1>6, <2>2, <2>4 DEF InForce
<1> QED
  BY <1>5, <1>6

\* What a profile says does not change before the next of its boundaries.
Steady(p, t, u, begin) ==
    /\ Defined(p, u, begin) <=> Defined(p, t, begin)
    /\ Defined(p, t, begin) => LimitOf(p, u, begin) = LimitOf(p, t, begin)

\* A bounded profile is steady up to the next boundary that the code looks at, whether it has not
\* begun, is over or under way (calculateLimit).
LEMMA ProfileSteady ==
    ASSUME NEW p \in Profile, Bounded(p), NEW t \in Time, NEW u \in Time, t <= u,
           NEW begin \in Time, begin <= t \/ u < begin,
           \A x \in Caps(p, t, begin) \cup Restart(p, t, begin) : u < x
    PROVE  Steady(p, t, u, begin)
<1>1. /\ p.start \in Nat /\ p.from \in Nat /\ p.duration \in Nat /\ t \in Nat /\ u \in Nat
      /\ begin \in Nat /\ p.kind \in Kind
  BY DEF Profile, Time
<1>2. ~Expired(p, t) /\ ~Expired(p, u)
  BY DEF Expired, Bounded, MinTime
<1>3. CASE Early(p, t)
  <2>1. u < p.from
    BY <1>2, <1>3 DEF Caps
  <2>2. ~Running(p, t, begin) /\ ~Running(p, u, begin)
    BY <1>3, <2>1 DEF Running, Early
  <2> QED
    BY <2>2 DEF Steady, Defined
<1>4. CASE ~Early(p, t)
  <2>1. ~Early(p, u)
    BY <1>1, <1>4 DEF Early
  <2> DEFINE b == Basis(p, t, begin)
  <2>2. /\ p.kind = "Absolute" /\ p.start > t => u < p.start
        /\ Recurring(p) => u < b + Cycle(p)
        /\ Running(p, t, begin) /\ p.duration > 0 => u < b + p.duration
    BY <1>2, <1>4 DEF Caps
  <2>3. b \in Int /\ Basis(p, u, begin) = b /\ (Recurring(p) => b <= t)
    BY <1>4, <2>2, BasisSteady, BasisType
  <2>4. p.kind = "Absolute" => p.start > MinTime /\ b = p.start
    BY <1>1 DEF Bounded, MinTime, Basis, Recurring
  <2>5. ~Recurring(p) /\ p.kind # "Absolute" => b = begin
    BY DEF Basis
  <2>6. b <= t <=> b <= u
    BY <1>1, <2>2, <2>3, <2>4, <2>5
  <2>7. HasBasis(p, t, begin) <=> b <= t
    BY <2>4 DEF HasBasis, MinTime
  <2>8. HasBasis(p, u, begin) <=> b <= u
    BY <2>3, <2>4 DEF HasBasis, MinTime
  <2> HIDE DEF b
  <2>9. Offset(p, t, begin) = t - b /\ Offset(p, u, begin) = u - b
    BY <2>3 DEF Offset, b
  <2>10. Running(p, t, begin) <=> b <= t /\ (p.duration > 0 => t - b < p.duration)
    BY <1>2, <1>4, <2>7, <2>9 DEF Running
  <2>11. Running(p, u, begin) <=> b <= u /\ (p.duration > 0 => u - b < p.duration)
    BY <1>2, <2>1, <2>8, <2>9 DEF Running
  <2>12. Running(p, u, begin) <=> Running(p, t, begin)
    <3>1. ASSUME Running(p, t, begin) PROVE Running(p, u, begin)
      BY <1>1, <2>2, <2>3, <2>6, <2>10, <2>11, <3>1
    <3>2. ASSUME Running(p, u, begin) PROVE Running(p, t, begin)
      BY <1>1, <2>3, <2>6, <2>10, <2>11, <3>2
    <3> QED
      BY <3>1, <3>2
  <2>13. CASE ~Running(p, t, begin)
    BY <2>12, <2>13 DEF Steady, Defined
  <2>14. CASE Running(p, t, begin)
    <3>1. Coming(p, t, begin) # {} => u < b + p.periods[Least(Coming(p, t, begin))].at
      BY <2>14 DEF Restart, b
    <3>2. InForce(p, u, begin) = InForce(p, t, begin)
      BY <2>3, <3>1, InForceSteady DEF b
    <3> QED
      BY <2>12, <3>2 DEF Steady, Defined, LimitOf
  <2> QED
    BY <2>13, <2>14
<1> QED
  BY <1>3, <1>4

\* A stack is steady as long as the profiles are that its scan has looked at: those below the
\* level that defines the limit do not matter.
LEMMA StackSteady ==
    ASSUME NEW stack \in OneStack, NEW applicable, NEW t \in Time, NEW u \in Time, NEW begin \in Time,
           \A l \in Examined(stack, applicable, t, begin) : Steady(stack[l], t, u, begin)
    PROVE  /\ StackDefines(stack, applicable, u, begin) <=> StackDefines(stack, applicable, t, begin)
           /\ StackLimit(stack, applicable, u, begin) = StackLimit(stack, applicable, t, begin)
<1> DEFINE D == Defining(stack, applicable, t, begin)
           F == Defining(stack, applicable, u, begin)
           L == Levels(stack, applicable)
           E == Examined(stack, applicable, t, begin)
<1>1. D \subseteq L /\ F \subseteq L /\ L \subseteq Level /\ Level \subseteq Int
  BY LevelsType DEF Level
<1>2. \A l \in E : l \in D <=> l \in F
  BY DEF Steady, Examined, Defining
<1>3. CASE D = {}
  <2>1. E = L
    BY <1>3 DEF Examined
  <2>2. F = {}
    BY <1>1, <1>2, <1>3, <2>1
  <2> QED
    BY <1>3, <2>2 DEF StackDefines, StackLimit
<1>4. CASE D # {}
  <2>1. Highest(D) \in D /\ \A k \in D : k <= Highest(D)
    <3>1. D \subseteq Level
      BY <1>1
    <3> QED
      BY <1>4, <3>1, HighestIn
  <2>2. \A l \in L : l \in E <=> l >= Highest(D)
    BY <1>4 DEF Examined
  <2>3. Highest(D) \in E /\ Highest(D) \in F
    <3>1. Highest(D) \in Int /\ Highest(D) \in L
      BY <1>1, <2>1
    <3> QED
      BY <1>2, <2>1, <2>2, <3>1
  <2>4. Highest(F) \in F /\ \A k \in F : k <= Highest(F)
    <3>1. F \subseteq Level /\ F # {}
      BY <1>1, <2>3
    <3> QED
      BY <3>1, HighestIn
  <2>5. Highest(F) = Highest(D)
    <3>1. Highest(F) \in Int /\ Highest(D) \in Int /\ Highest(F) \in L
      BY <1>1, <2>1, <2>4
    <3>2. Highest(D) <= Highest(F)
      BY <2>3, <2>4
    <3>3. Highest(F) \in D
      BY <1>2, <2>2, <2>4, <3>1, <3>2
    <3> QED
      BY <2>1, <3>1, <3>2, <3>3
  <2>6. LimitOf(stack[Highest(D)], u, begin) = LimitOf(stack[Highest(D)], t, begin)
    BY <2>1, <2>3 DEF Steady, Defining
  <2>7. F # {}
    BY <2>3
  <2> QED
    BY <1>4, <2>5, <2>6, <2>7 DEF StackDefines, StackLimit
<1> QED
  BY <1>3, <1>4

\* u comes before every boundary of the profile that is known at t.
Ahead(p, t, begin, u) == \A x \in Caps(p, t, begin) \cup Restart(p, t, begin) : u < x

\* Before n come no boundaries of the profiles in S.
Covers(n, S, t, begin) == \A u \in Time : u < n => \A p \in S : Ahead(p, t, begin, u)

\* The beginning of a period comes before every other boundary of a bounded profile.
LEMMA RestartFirst ==
    ASSUME NEW p \in Profile, Bounded(p), NEW t \in Time, NEW begin \in Time
    PROVE  \A x \in Restart(p, t, begin), y \in Caps(p, t, begin) : x <= y
<1> SUFFICES ASSUME NEW x \in Restart(p, t, begin), NEW y \in Caps(p, t, begin) PROVE x <= y
  OBVIOUS
<1> DEFINE i == Least(Coming(p, t, begin))
           b == Basis(p, t, begin)
<1>1. Running(p, t, begin) /\ Coming(p, t, begin) # {} /\ x = b + p.periods[i].at
  BY DEF Restart
<1>2. i \in DOMAIN p.periods /\ p.periods[i].at \in Nat
  BY <1>1, ComingType
<1>3. /\ p.duration > 0 => p.periods[i].at < p.duration
      /\ Recurring(p) => p.periods[i].at < Cycle(p)
  BY <1>2 DEF Bounded
<1>4. b \in Int /\ Cycle(p) \in Nat /\ p.duration \in Nat /\ p.start \in Nat /\ t \in Nat
  BY BasisType DEF Profile, Time
<1>5. ~Expired(p, t) /\ ~Early(p, t) /\ b <= t
  BY <1>1 DEF Running, HasBasis
<1>6. p.kind = "Absolute" => b = p.start
  BY <1>4 DEF Basis, Recurring, Bounded, MinTime
<1>7. \/ p.kind = "Absolute" /\ p.start > t /\ y = p.start
      \/ Recurring(p) /\ y = b + Cycle(p)
      \/ p.duration > 0 /\ y = b + p.duration
  BY <1>5 DEF Caps
<1> HIDE DEF i, b
<1> QED
  BY <1>1, <1>2, <1>3, <1>4, <1>5, <1>6, <1>7

\* A scan of a stack finds the next of the boundaries of the profiles it looks at and of those
\* looked at before, if none of them has periods to come, or if they are all the same one.
LEMMA StackCovers ==
    ASSUME NEW stack \in OneStack, NEW applicable, NEW t \in Time, NEW begin \in Time, NEW n \in Nat,
           NEW S, NEW T, Covers(n, S, t, begin),
           T = S \cup {stack[l] : l \in Examined(stack, applicable, t, begin)},
           \A p \in T : p \in Profile /\ Bounded(p),
           (\A p \in T : Restart(p, t, begin) = {}) \/ (\A p, q \in T : p = q)
    PROVE  Covers(StackNext(stack, applicable, t, begin, n), T, t, begin)
<1> DEFINE E == Examined(stack, applicable, t, begin)
           R == {l \in E : Restart(stack[l], t, begin) # {}}
           CapsOf(L) == UNION {Caps(stack[l], t, begin) : l \in L}
           m == StackNext(stack, applicable, t, begin, n)
<1>1. \A l \in E : stack[l] \in T
  OBVIOUS
<1>2. \A l \in E : \A x \in Caps(stack[l], t, begin) \cup Restart(stack[l], t, begin) : x \in Nat
  BY <1>1, BoundariesLater
<1> SUFFICES ASSUME NEW u \in Time, u < m, NEW p \in T PROVE Ahead(p, t, begin, u)
  BY DEF Covers
<1>3. u \in Nat
  BY DEF Time
<1>4. CASE R = {}
  <2> DEFINE X == {n} \cup CapsOf(E)
  <2>1. X \subseteq Nat /\ X # {}
    BY <1>2
  <2>2. m = Least(X)
    BY <1>4 DEF StackNext
  <2>3. m \in Nat /\ \A x \in X : m <= x
    BY <2>1, <2>2, LeastIn
  <2> HIDE DEF m
  <2>4. \A x \in X : u < x
    <3> SUFFICES ASSUME NEW x \in X PROVE u < x
      OBVIOUS
    <3>1. x \in Nat /\ m <= x
      BY <2>1, <2>3
    <3> QED
      BY <1>3, <2>3, <3>1
  <2>5. CASE p \in S
    BY <2>4, <2>5 DEF Covers
  <2>6. ASSUME NEW l \in E, p = stack[l] PROVE Ahead(p, t, begin, u)
    <3>1. Restart(p, t, begin) = {} /\ Caps(p, t, begin) \subseteq X
      BY <1>4, <2>6
    <3> QED
      BY <2>4, <3>1 DEF Ahead
  <2> QED
    BY <2>5, <2>6
<1>5. CASE R # {}
  <2>1. R \subseteq Nat
    <3>1. E \subseteq Level
      BY LevelsType
    <3> QED
      BY <3>1 DEF Level
  <2>2. Least(R) \in R
    BY <1>5, <2>1, LeastIn
  <2> DEFINE q == stack[Least(R)]
             X == Restart(q, t, begin) \cup CapsOf({k \in E : k < Least(R)})
  <2>3. q \in T /\ Restart(q, t, begin) # {}
    BY <1>1, <2>2
  <2>4. p = q
    BY <2>3
  <2>5. X \subseteq Nat /\ X # {}
    BY <1>2, <2>2, <2>3
  <2>6. m = Least(X)
    BY <1>5 DEF StackNext
  <2>7. m \in Nat /\ \A x \in X : m <= x
    <3> HIDE DEF X, m
    <3> QED
      BY <2>5, <2>6, LeastIn
  <2> HIDE DEF m
  <2>8. \A x \in Restart(q, t, begin) : x \in Nat /\ u < x
    <3> SUFFICES ASSUME NEW x \in Restart(q, t, begin) PROVE x \in Nat /\ u < x
      OBVIOUS
    <3>1. x \in Nat /\ m <= x
      BY <2>5, <2>7
    <3> QED
      BY <1>3, <2>7, <3>1
  <2>9. \A y \in Caps(q, t, begin) : u < y
    <3> SUFFICES ASSUME NEW y \in Caps(q, t, begin) PROVE u < y
      OBVIOUS
    <3>1. PICK x \in Restart(q, t, begin) : TRUE
      BY <2>3
    <3>2. x <= y /\ y \in Nat
      BY <1>2, <2>2, <2>3, RestartFirst
    <3> QED
      BY <1>3, <2>8, <3>2
  <2> QED
    BY <2>4, <2>8, <2>9 DEF Ahead
<1> QED
  BY <1>4, <1>5

\* The profiles that the scan of place s looks at.
Looked(s, t, begin) == {profile[s][l] : l \in Examined(profile[s], LevelsOf(s), t, begin)}

\* A place whose scan covers what it looks at is steady up to the next change.
LEMMA PlaceSteady ==
    ASSUME LimitState, NEW s \in Place, NEW t \in Time, NEW u \in Time, t <= u, NEW begin \in Time,
           begin <= t \/ u < begin,
           \A p \in Looked(s, t, begin) : p \in Profile /\ Bounded(p) /\ Ahead(p, t, begin, u)
    PROVE  /\ Answers(s, u, begin) <=> Answers(s, t, begin)
           /\ Limits(s, u, begin) = Limits(s, t, begin)
<1>1. profile[s] \in OneStack
  BY DEF LimitState
<1>2. ASSUME NEW l \in Examined(profile[s], LevelsOf(s), t, begin)
      PROVE  Steady(profile[s][l], t, u, begin)
  <2>1. profile[s][l] \in Looked(s, t, begin)
    BY DEF Looked
  <2> QED
    BY <2>1, ProfileSteady DEF Ahead
<1> QED
  BY <1>1, <1>2, StackSteady DEF Answers, Limits

LEMMA PlaceCovers ==
    ASSUME LimitState, NEW s \in Place, NEW t \in Time, NEW begin \in Time, NEW n \in Nat,
           NEW S, NEW T, Covers(n, S, t, begin), T = S \cup Looked(s, t, begin),
           \A p \in T : p \in Profile /\ Bounded(p),
           (\A p \in T : Restart(p, t, begin) = {}) \/ (\A p, q \in T : p = q)
    PROVE  Covers(Through(s, t, begin, n), T, t, begin)
<1>1. profile[s] \in OneStack
  BY DEF LimitState
<1> QED
  BY <1>1, StackCovers DEF Looked, Through

\* Profiles that are plain: none has periods to come, or there is only one.
LEMMA PlainProfiles ==
    ASSUME LimitState, NEW c \in 0..N, Plain(c), NEW t \in Time, NEW begin \in Time
    PROVE  /\ \A p \in Relevant(c) : p \in Profile /\ Bounded(p)
           /\ \/ \A p \in Relevant(c) : Restart(p, t, begin) = {}
              \/ \A p, q \in Relevant(c) : p = q
<1> DEFINE places == IF c = 0 THEN {<<"max", 0>>}
                     ELSE {<<"max", 0>>, <<"default", 0>>, <<"default", c>>, <<"tx", c>>}
           at == [x \in places \X Level |-> profile[x[1]][x[2]]]
<1>1. places \subseteq Place
  BY ChargingAssumption DEF Place, Connector
<1>2. \A p \in Relevant(c) : p \in Profile /\ Bounded(p)
  <2>1. \A s \in places, l \in Level : profile[s][l] \in Profile \cup {NoProfile}
    BY <1>1 DEF LimitState, OneStack
  <2>2. Relevant(c) \subseteq Profile
    BY <2>1 DEF Relevant
  <2> QED
    BY <2>2 DEF Plain
<1>3. CASE \A p \in Relevant(c) : Len(p.periods) = 1 /\ p.periods[1].at = 0
  <2>1. ASSUME NEW p \in Relevant(c) PROVE Restart(p, t, begin) = {}
    <3> SUFFICES ASSUME Running(p, t, begin), Coming(p, t, begin) # {} PROVE FALSE
      BY DEF Restart
    <3>1. PICK i \in Coming(p, t, begin) : TRUE
      OBVIOUS
    <3>2. p \in Profile
      BY <1>2
    <3>3. Basis(p, t, begin) \in Int /\ Basis(p, t, begin) <= t /\ t \in Nat
      BY <3>2, BasisType DEF Running, HasBasis, Time
    <3>4. i \in 1..Len(p.periods)
      BY <3>1, <3>2, ComingType
    <3>5. i = 1
      <4>1. Len(p.periods) = 1
        BY <1>3
      <4> QED
        BY <3>4, <4>1
    <3>6. p.periods[i].at > t - Basis(p, t, begin)
      BY <3>1 DEF Coming, Offset
    <3> QED
      BY <1>3, <3>3, <3>5, <3>6
  <2> QED
    BY <1>2, <2>1
<1>4. CASE Cardinality(Relevant(c)) = 1
  <2>1. IsFiniteSet(places)
    <3>1. IsFiniteSet({}) /\ \A S, x : IsFiniteSet(S) => IsFiniteSet(S \cup {x})
      BY FS_EmptySet, FS_AddElement
    <3>2. IsFiniteSet({} \cup {<<"max", 0>>})
      BY <3>1
    <3>3. IsFiniteSet({} \cup {<<"max", 0>>} \cup {<<"default", 0>>} \cup {<<"default", c>>} \cup {<<"tx", c>>})
      BY <3>1, <3>2
    <3> QED
      BY <3>2, <3>3
  <2>2. IsFiniteSet(Level)
    BY FS_Interval, LimitsAssumption DEF Level
  <2>3. IsFiniteSet(places \X Level)
    BY <2>1, <2>2, FS_Product
  <2>4. IsFiniteSet({at[x] : x \in places \X Level})
    <3> DEFINE T == {at[x] : x \in places \X Level}
    <3>1. at \in Surjection(places \X Level, T)
      BY DEF Surjection
    <3> HIDE DEF at, T, places
    <3>2. IsFiniteSet(T)
      BY <2>3, <3>1, FS_Surjection
    <3> QED
      BY <3>2 DEF T
  <2>5. Relevant(c) \subseteq {at[x] : x \in places \X Level}
    <3>1. ASSUME NEW p \in Relevant(c) PROVE \E x \in places \X Level : p = at[x]
      <4>1. PICK s \in places, l \in Level : p = profile[s][l]
        BY DEF Relevant
      <4>2. <<s, l>> \in places \X Level /\ p = at[<<s, l>>]
        BY <4>1
      <4> QED
        BY <4>2
    <3> QED
      BY <3>1
  <2>6. IsFiniteSet(Relevant(c))
    BY <2>4, <2>5, FS_Subset
  <2>7. \E p : Relevant(c) = {p}
    BY <1>4, <2>6, FS_Singleton
  <2> QED
    BY <1>2, <2>7
<1> QED
  BY <1>3, <1>4 DEF Plain

\* Up to the next change of a connector's limit, no profile that its computation looked at comes
\* to a boundary.
LEMMA LookedAhead ==
    ASSUME LimitState, NEW c \in Connector, Plain(c), NEW t \in Time, t < MaxTime,
           NEW u \in Time, u < MaxTime, u < NextAt(c, t)
    PROVE  /\ \A i \in DOMAIN TxPlaces(c) :
                  Reached(c, t, i) =>
                      \A p \in Looked(TxPlaces(c)[i], t, track[c].start) :
                          p \in Profile /\ Bounded(p) /\ Ahead(p, t, track[c].start, u)
           /\ \A p \in Looked(<<"max", 0>>, t, track[c].start) :
                  p \in Profile /\ Bounded(p) /\ Ahead(p, t, track[c].start, u)
<1> DEFINE begin == track[c].start
           step(i, n) == IF i \in DOMAIN TxPlaces(c) /\ Reached(c, t, i)
                         THEN Through(TxPlaces(c)[i], t, begin, n) ELSE n
           By(i) == IF i \in DOMAIN TxPlaces(c) /\ Reached(c, t, i)
                    THEN Looked(TxPlaces(c)[i], t, begin) ELSE {}
           Max == Looked(<<"max", 0>>, t, begin)
<1>1. begin \in Time /\ t \in Nat /\ MaxTime \in Nat /\ c \in 0..N /\ c # 0
  BY ChargingAssumption, LimitsAssumption DEF LimitState, Track, Connector, Time
<1>2. /\ <<"max", 0>> \in Place /\ DOMAIN TxPlaces(c) \subseteq 1..3
      /\ \A i \in DOMAIN TxPlaces(c) : TxPlaces(c)[i] \in Place
  BY PlacesType
<1>3. \A i \in DOMAIN TxPlaces(c) : TxPlaces(c)[i] \in {<<"default", 0>>, <<"default", c>>, <<"tx", c>>}
  BY DEF TxPlaces
<1>4. \A s \in {<<"max", 0>>, <<"default", 0>>, <<"default", c>>, <<"tx", c>>} :
          s \in Place => Looked(s, t, begin) \subseteq Relevant(c)
  <2> SUFFICES ASSUME NEW s \in {<<"max", 0>>, <<"default", 0>>, <<"default", c>>, <<"tx", c>>},
                      s \in Place, NEW l \in Examined(profile[s], LevelsOf(s), t, begin)
               PROVE  profile[s][l] \in Relevant(c)
    BY DEF Looked
  <2>1. profile[s] \in OneStack
    BY DEF LimitState
  <2>2. l \in Levels(profile[s], LevelsOf(s))
    BY <1>1, <2>1, LevelsType
  <2> QED
    BY <1>1, <2>2 DEF Levels, Relevant
<1>5. Max \subseteq Relevant(c) /\ \A i : By(i) \subseteq Relevant(c)
  BY <1>2, <1>3, <1>4
<1>6. /\ \A p \in Relevant(c) : p \in Profile /\ Bounded(p)
      /\ (\A p \in Relevant(c) : Restart(p, t, begin) = {}) \/ (\A p, q \in Relevant(c) : p = q)
  BY <1>1, PlainProfiles
<1>7. ASSUME NEW i \in Nat, NEW n \in Nat, t < n, NEW S, S \subseteq Relevant(c), Covers(n, S, t, begin)
      PROVE  step(i, n) \in Nat /\ t < step(i, n) /\ Covers(step(i, n), S \cup By(i), t, begin)
  <2>1. CASE i \in DOMAIN TxPlaces(c) /\ Reached(c, t, i)
    <3> DEFINE s == TxPlaces(c)[i]
               T == S \cup Looked(s, t, begin)
    <3>1. s \in Place /\ profile[s] \in OneStack
      BY <1>2, <2>1 DEF LimitState
    <3>2. T \subseteq Relevant(c)
      BY <1>5, <1>7, <2>1
    <3>3. Covers(Through(s, t, begin, n), T, t, begin)
      <4> HIDE DEF s
      <4>1. /\ \A p \in T : p \in Profile /\ Bounded(p)
            /\ (\A p \in T : Restart(p, t, begin) = {}) \/ (\A p, q \in T : p = q)
        BY <1>6, <3>2
      <4> HIDE DEF begin
      <4> QED
        BY <1>1, <1>7, <3>1, <4>1, PlaceCovers
    <3>4. Through(s, t, begin, n) \in Nat /\ t < Through(s, t, begin, n)
      <4>1. t <= t
        BY <1>1
      <4> HIDE DEF s, begin
      <4> QED
        BY <1>1, <1>7, <3>1, <4>1, StackLater DEF Through
    <3> QED
      BY <2>1, <3>3, <3>4
  <2>2. CASE ~(i \in DOMAIN TxPlaces(c) /\ Reached(c, t, i))
    BY <1>7, <2>2
  <2> QED
    BY <2>1, <2>2
<1>8. NextAt(c, t) = Through(<<"max", 0>>, t, begin, step(3, step(2, step(1, MaxTime))))
  BY <1>1 DEF NextAt
<1>9. Covers(MaxTime, {}, t, begin)
  BY DEF Covers
<1> HIDE DEF step, By, Max, begin
<1> DEFINE n1 == step(1, MaxTime)
           n2 == step(2, n1)
           n3 == step(3, n2)
           S3 == {} \cup By(1) \cup By(2) \cup By(3)
<1>10. n1 \in Nat /\ t < n1 /\ Covers(n1, {} \cup By(1), t, begin)
  BY <1>1, <1>7, <1>9
<1>11. n2 \in Nat /\ t < n2 /\ Covers(n2, {} \cup By(1) \cup By(2), t, begin)
  <2> HIDE DEF n1
  <2>1. {} \cup By(1) \subseteq Relevant(c)
    BY <1>5
  <2> QED
    BY <1>7, <1>10, <2>1
<1>12. n3 \in Nat /\ t < n3 /\ Covers(n3, S3, t, begin)
  <2> HIDE DEF n2
  <2>1. {} \cup By(1) \cup By(2) \subseteq Relevant(c)
    BY <1>5
  <2> QED
    BY <1>7, <1>11, <2>1
<1>13. Covers(Through(<<"max", 0>>, t, begin, n3), S3 \cup Max, t, begin)
  <2> DEFINE T == S3 \cup Max
  <2>1. T \subseteq Relevant(c)
    BY <1>5
  <2>2. /\ \A p \in T : p \in Profile /\ Bounded(p)
        /\ (\A p \in T : Restart(p, t, begin) = {}) \/ (\A p, q \in T : p = q)
    BY <1>6, <2>1
  <2>3. T = S3 \cup Looked(<<"max", 0>>, t, begin)
    BY DEF Max
  <2> HIDE DEF T, S3, n3
  <2>4. Covers(Through(<<"max", 0>>, t, begin, n3), T, t, begin)
    BY <1>1, <1>2, <1>12, <2>2, <2>3, PlaceCovers
  <2> QED
    BY <2>4 DEF T
<1>14. \A p \in S3 \cup Max : p \in Profile /\ Bounded(p) /\ Ahead(p, t, begin, u)
  <2>1. S3 \cup Max \subseteq Relevant(c)
    BY <1>5
  <2>2. u < Through(<<"max", 0>>, t, begin, n3)
    BY <1>8
  <2> QED
    BY <1>6, <1>13, <2>1, <2>2 DEF Covers
<1>15. ASSUME NEW i \in DOMAIN TxPlaces(c), Reached(c, t, i), NEW p \in Looked(TxPlaces(c)[i], t, begin)
       PROVE  p \in S3
  <2>1. i \in {1, 2, 3} /\ p \in By(i)
    BY <1>2, <1>15 DEF By
  <2> QED
    BY <2>1
<1> QED
  BY <1>14, <1>15 DEF begin, Max

\* The same for the charge point as a whole.
LEMMA LookedAheadMax ==
    ASSUME LimitState, Plain(0), NEW t \in Time, t < MaxTime, NEW u \in Time, u < NextAt(0, t), u < MaxTime
    PROVE  \A p \in Looked(<<"max", 0>>, t, MinTime) :
               p \in Profile /\ Bounded(p) /\ Ahead(p, t, MinTime, u)
<1> DEFINE s == <<"max", 0>>
           T == {} \cup Looked(s, t, MinTime)
<1>1. s \in Place /\ MinTime \in Time /\ MaxTime \in Nat /\ 0 \in 0..N
  BY InitialValues, LimitsAssumption DEF Place
<1>2. T \subseteq Relevant(0)
  <2> SUFFICES ASSUME NEW l \in Examined(profile[s], LevelsOf(s), t, MinTime)
               PROVE  profile[s][l] \in Relevant(0)
    BY DEF Looked
  <2>1. profile[s] \in OneStack
    BY <1>1 DEF LimitState
  <2>2. l \in Levels(profile[s], LevelsOf(s))
    BY <1>1, <2>1, LevelsType
  <2> QED
    BY <2>2 DEF Levels, Relevant
<1>3. /\ \A p \in Relevant(0) : p \in Profile /\ Bounded(p)
      /\ (\A p \in Relevant(0) : Restart(p, t, MinTime) = {}) \/ (\A p, q \in Relevant(0) : p = q)
  BY <1>1, PlainProfiles
<1>4. Covers(MaxTime, {}, t, MinTime)
  BY DEF Covers
<1>5. Covers(Through(s, t, MinTime, MaxTime), T, t, MinTime)
  <2>1. /\ \A p \in T : p \in Profile /\ Bounded(p)
        /\ (\A p \in T : Restart(p, t, MinTime) = {}) \/ (\A p, q \in T : p = q)
    BY <1>2, <1>3
  <2>2. T = {} \cup Looked(s, t, MinTime)
    OBVIOUS
  <2> HIDE DEF s, T
  <2> QED
    BY <1>1, <1>4, <2>1, <2>2, PlaceCovers
<1>6. u < Through(s, t, MinTime, MaxTime)
  BY DEF NextAt
<1> QED
  BY <1>2, <1>3, <1>5, <1>6 DEF Covers

\* The limit of a connector with plain profiles holds from the moment it is computed for up to
\* the next change (calculateLimit).
LEMMA LimitSteady ==
    ASSUME LimitState, NEW c \in 0..N, Plain(c), NEW t \in Time, t < MaxTime,
           NEW u \in Time, u < MaxTime, t <= u, u < NextAt(c, t),
           c # 0 => track[c].start <= t \/ u < track[c].start
    PROVE  Limit(c, u) = Limit(c, t)
<1>0. t \in Nat /\ MinTime \in Time /\ MinTime <= t /\ <<"max", 0>> \in Place
  BY InitialValues DEF Place, MinTime, Time
<1>1. CASE c = 0
  <2>1. \A p \in Looked(<<"max", 0>>, t, MinTime) :
            p \in Profile /\ Bounded(p) /\ Ahead(p, t, MinTime, u)
    BY <1>1, LookedAheadMax
  <2>2. Limits(<<"max", 0>>, u, MinTime) = Limits(<<"max", 0>>, t, MinTime)
    BY <1>0, <2>1, PlaceSteady
  <2> QED
    BY <1>1, <2>2 DEF Limit
<1>2. CASE c # 0
  <2> DEFINE begin == track[c].start
             P == TxPlaces(c)
             F(x) == {i \in DOMAIN P : Answers(P[i], x, begin)}
  <2>1. c \in Connector
    BY <1>2, ChargingAssumption DEF Connector
  <2>2. begin \in Time
    BY <2>1 DEF LimitState, Track
  <2>3. /\ \A i \in DOMAIN P :
               Reached(c, t, i) =>
                   \A p \in Looked(P[i], t, begin) : p \in Profile /\ Bounded(p) /\ Ahead(p, t, begin, u)
        /\ \A p \in Looked(<<"max", 0>>, t, begin) : p \in Profile /\ Bounded(p) /\ Ahead(p, t, begin, u)
    BY <2>1, LookedAhead
  <2>4. DOMAIN P \subseteq 1..3 /\ \A i \in DOMAIN P : P[i] \in Place
    BY <2>1, PlacesType
  <2>5. Limits(<<"max", 0>>, u, begin) = Limits(<<"max", 0>>, t, begin)
    BY <1>0, <1>2, <2>2, <2>3, PlaceSteady
  <2>6. \A i \in DOMAIN P :
            Reached(c, t, i) => /\ Answers(P[i], u, begin) <=> Answers(P[i], t, begin)
                                /\ Limits(P[i], u, begin) = Limits(P[i], t, begin)
    BY <1>2, <2>2, <2>3, <2>4, PlaceSteady
  <2>7. \A i \in DOMAIN P : \A j \in 1..(i - 1) : j \in DOMAIN P
    <3>1. CASE InSession(c)
      <4>1. DOMAIN P = 1..3
        BY <3>1 DEF TxPlaces
      <4> QED
        BY <4>1
    <3>2. CASE ~InSession(c)
      <4>1. DOMAIN P = 1..1
        BY <3>2 DEF TxPlaces
      <4> QED
        BY <4>1
    <3> QED
      BY <3>1, <3>2
  <2>8. \A x \in {t, u} : F(x) \subseteq Nat /\ F(x) \subseteq DOMAIN P
    BY <2>4
  <2>9. ASSUME NEW i \in DOMAIN P
        PROVE  Reached(c, t, i) <=> \A j \in F(t) : i <= j
    <3>1. ASSUME Reached(c, t, i), NEW j \in F(t) PROVE i <= j
      <4>1. j \in Nat /\ i \in Nat /\ (j < i => j \in 1..(i - 1))
        BY <2>4
      <4> QED
        BY <3>1, <4>1 DEF Reached
    <3>2. ASSUME \A j \in F(t) : i <= j, NEW j \in 1..(i - 1) PROVE ~Answers(P[j], t, begin)
      <4>1. j \in DOMAIN P /\ i \in Nat /\ ~(i <= j)
        BY <2>4, <2>7
      <4> QED
        BY <3>2, <4>1
    <3> QED
      BY <3>1, <3>2 DEF Reached
  <2>10. TxLimit(c, u) = TxLimit(c, t)
    <3>1. CASE F(t) = {}
      <4>1. F(u) = {}
        BY <2>6, <2>9, <3>1
      <4> QED
        BY <3>1, <4>1 DEF TxLimit
    <3>2. CASE F(t) # {}
      <4> DEFINE m == Least(F(t))
      <4>1. m \in F(t) /\ \A j \in F(t) : m <= j
        BY <2>8, <3>2, LeastIn
      <4>2. m \in F(u) /\ Limits(P[m], u, begin) = Limits(P[m], t, begin)
        BY <2>6, <2>9, <4>1
      <4>3. \A j \in F(u) : m <= j
        <5> SUFFICES ASSUME NEW j \in F(u), j < m PROVE FALSE
          BY <2>8, <4>1
        <5>1. \A k \in F(t) : j <= k
          <6> TAKE k \in F(t)
          <6>1. m <= k /\ m \in Nat /\ k \in Nat /\ j \in Nat
            BY <2>8, <4>1
          <6> QED
            BY <6>1
        <5>2. j \in F(t)
          BY <2>6, <2>9, <5>1
        <5> QED
          BY <2>8, <4>1, <5>2
      <4>4. Least(F(u)) \in F(u) /\ \A j \in F(u) : Least(F(u)) <= j
        BY <2>8, <4>2, LeastIn
      <4>5. Least(F(u)) = m
        <5>1. Least(F(u)) \in Nat /\ m \in Nat
          BY <2>8, <4>1, <4>4
        <5>2. Least(F(u)) <= m /\ m <= Least(F(u))
          BY <4>2, <4>3, <4>4
        <5> QED
          BY <5>1, <5>2
      <4>6. F(u) # {}
        BY <4>2
      <4> QED
        BY <3>2, <4>2, <4>5, <4>6 DEF TxLimit
    <3> QED
      BY <3>1, <3>2
  <2> QED
    BY <1>2, <2>5, <2>10 DEF Limit
<1> QED
  BY <1>1, <1>2

-----------------------------------------------------------------------------
(* The limit of the moment *)

\* A transaction that the service knows has begun; the time of none is the end of time.
Begun ==
    \A c \in Connector : /\ tx[c].start <= clock
                         /\ track[c].start <= clock \/ track[c].start = MaxTime

\* The output is the limit from now on, as long as it is not due to be computed again.
HoldsOn(c) ==
    Plain(c) => \A u \in Time : clock <= u /\ u <= LastTime /\ u < next[c] => output[c] = Limit(c, u)

\* Wherever profiles have changed, limits are due, but for the time in which a filter clears them.
ForceInv ==
    /\ Begun
    /\ pc \in {"store", "off"} => \A c \in 0..N : next[c] <= clock
    /\ pc # "clear" => \A c \in 0..N : HoldsOn(c)

PlacesOf(c) == IF c = 0 THEN {<<"max", 0>>}
               ELSE {<<"max", 0>>, <<"default", 0>>, <<"default", c>>, <<"tx", c>>}

\* A limit depends on the profiles of its places and on the image of its transaction only.
LEMMA LimitSame ==
    ASSUME NEW c \in 0..N, \A s \in PlacesOf(c) : profile'[s] = profile[s],
           c # 0 => track'[c] = track[c]
    PROVE  /\ Plain(c)' <=> Plain(c)
           /\ \A u : Limit(c, u)' = Limit(c, u)
<1>1. <<"max", 0>> \in PlacesOf(c)
  BY DEF PlacesOf
<1>2. Plain(c)' <=> Plain(c)
  <2> DEFINE places == IF c = 0 THEN {<<"max", 0>>}
                       ELSE {<<"max", 0>>, <<"default", 0>>, <<"default", c>>, <<"tx", c>>}
  <2>1. places = PlacesOf(c)
    BY DEF PlacesOf
  <2>2. Relevant(c)' = Relevant(c)
    <3>1. Relevant(c) = {profile[s][l] : s \in places, l \in Level} \ {NoProfile}
      BY DEF Relevant
    <3>2. Relevant(c)' = {profile'[s][l] : s \in places, l \in Level} \ {NoProfile}
      BY DEF Relevant
    <3> HIDE DEF places
    <3> QED
      BY <2>1, <3>1, <3>2
  <2> QED
    BY <2>2 DEF Plain
<1>3. CASE c = 0
  <2>1. \A u : Limits(<<"max", 0>>, u, MinTime)' = Limits(<<"max", 0>>, u, MinTime)
    BY <1>1 DEF Limits, LevelsOf
  <2> QED
    BY <1>2, <1>3, <2>1 DEF Limit
<1>4. CASE c # 0
  <2>1. /\ profile'[<<"max", 0>>] = profile[<<"max", 0>>]
        /\ profile'[<<"default", 0>>] = profile[<<"default", 0>>]
        /\ profile'[<<"default", c>>] = profile[<<"default", c>>]
        /\ profile'[<<"tx", c>>] = profile[<<"tx", c>>]
    BY <1>4 DEF PlacesOf
  <2>2. Applicable(c)' = Applicable(c)
    BY <1>4, <2>1 DEF Applicable
  <2>3. TxPlaces(c)' = TxPlaces(c)
    BY <1>4 DEF TxPlaces, InSession
  <2>4. ASSUME NEW s \in PlacesOf(c)
        PROVE  LevelsOf(s)' = LevelsOf(s)
    BY <1>4, <2>2, <2>4 DEF LevelsOf, PlacesOf
  <2>5. ASSUME NEW s \in PlacesOf(c), NEW u, NEW begin
        PROVE  Answers(s, u, begin)' = Answers(s, u, begin) /\ Limits(s, u, begin)' = Limits(s, u, begin)
    BY <2>4 DEF Answers, Limits
  <2>6. \A i \in DOMAIN TxPlaces(c) : TxPlaces(c)[i] \in PlacesOf(c)
    BY <1>4 DEF TxPlaces, PlacesOf
  <2>7. ASSUME NEW u PROVE Limit(c, u)' = Limit(c, u)
    <3> DEFINE F == {i \in DOMAIN TxPlaces(c) : Answers(TxPlaces(c)[i], u, track[c].start)}
    <3>1. \A i \in DOMAIN TxPlaces(c) :
              /\ Answers(TxPlaces(c)[i], u, track[c].start)' = Answers(TxPlaces(c)[i], u, track[c].start)
              /\ Limits(TxPlaces(c)[i], u, track[c].start)' = Limits(TxPlaces(c)[i], u, track[c].start)
      BY <1>4, <2>3, <2>5, <2>6
    <3>2. F' = F
      BY <2>3, <3>1
    <3>3. TxLimit(c, u)' = TxLimit(c, u)
      <4>1. CASE F = {}
        BY <3>2, <4>1 DEF TxLimit
      <4>2. CASE F # {}
        <5>1. F \subseteq Nat
          <6>1. DOMAIN TxPlaces(c) \subseteq Nat
            BY DEF TxPlaces
          <6> QED
            BY <6>1
        <5>2. Least(F) \in DOMAIN TxPlaces(c)
          BY <4>2, <5>1, LeastIn
        <5> HIDE DEF F
        <5>3. Limits(TxPlaces(c)[Least(F)], u, track[c].start)' = Limits(TxPlaces(c)[Least(F)], u, track[c].start)
          <6>1. TxPlaces(c)[Least(F)] \in PlacesOf(c) /\ TxPlaces(c)'[Least(F)'] = TxPlaces(c)[Least(F)]
            BY <2>3, <2>6, <3>2, <5>2
          <6> QED
            BY <1>4, <2>5, <6>1
        <5> QED
          BY <3>2, <4>2, <5>3 DEF TxLimit, F
      <4> QED
        BY <4>1, <4>2
    <3> QED
      BY <1>1, <1>4, <2>5, <3>3 DEF Limit
  <2> QED
    BY <1>2, <2>7
<1> QED
  BY <1>3, <1>4

\* What holds on stays, if nothing changes but the time, and if a limit is due nothing is said.
LEMMA HoldsOnKept ==
    ASSUME TypeInv, TypeInv', NEW c \in 0..N
    PROVE  /\ /\ HoldsOn(c) /\ clock <= clock'
              /\ \A s \in PlacesOf(c) : profile'[s] = profile[s]
              /\ c # 0 => track'[c] = track[c]
              /\ next'[c] = next[c] /\ output'[c] = output[c]
              => HoldsOn(c)'
           /\ next'[c] <= clock' => HoldsOn(c)'
<1>1. clock \in Nat /\ clock' \in Nat /\ next'[c] \in Nat
  BY DEF TypeInv, TypeOK, Time
<1>2. ASSUME HoldsOn(c), clock <= clock', \A s \in PlacesOf(c) : profile'[s] = profile[s],
             c # 0 => track'[c] = track[c], next'[c] = next[c], output'[c] = output[c]
      PROVE  HoldsOn(c)'
  <2>1. (Plain(c)' <=> Plain(c)) /\ \A u : Limit(c, u)' = Limit(c, u)
    BY <1>2, LimitSame
  <2>2. SUFFICES ASSUME Plain(c)', NEW u \in Time, clock' <= u, u <= LastTime, u < next'[c]
                 PROVE  output'[c] = Limit(c, u)'
    BY DEF HoldsOn, Time
  <2>3. clock <= u
    BY <1>1, <1>2, <2>2 DEF Time
  <2> QED
    BY <1>2, <2>1, <2>2, <2>3 DEF HoldsOn
<1>3. ASSUME next'[c] <= clock' PROVE HoldsOn(c)'
  <2>1. \A u \in Time : ~(clock' <= u /\ u < next'[c])
    BY <1>1, <1>3 DEF Time
  <2> QED
    BY <2>1 DEF HoldsOn, Time
<1> QED
  BY <1>2, <1>3

LEMMA InitForce == Init => ForceInv
<1> SUFFICES ASSUME Init PROVE ForceInv
  OBVIOUS
<1>1. Begun
  BY DEF Init, Begun, NoTx, NoTrack, MinTime
<1>2. \A c \in 0..N : HoldsOn(c)
  BY DEF Init, HoldsOn, MinTime, Time
<1> QED
  BY <1>1, <1>2 DEF Init, ForceInv

\* Messages that install or clear profiles have every limit computed again.
LEMMA ProfilesForce ==
    ASSUME TypeInv, TypeInv', ForceInv,
           \/ \E p \in Catalogue : \/ \E s \in Place : SetChargingProfile(s, p)
                                   \/ \E c \in Connector : RemoteStart(c, p)
           \/ \E f \in Filters : Clear(f)
           \/ \E x \in work.slots : ClearNext(x)
           \/ ClearEnd \/ Store \/ StoreFails
    PROVE  ForceInv'
<1>0. /\ clock \in Nat /\ next \in [0..N -> Nat] /\ tx \in [Connector -> Tx] /\ Connector \subseteq 0..N
      /\ \A c \in Connector : tx[c].start \in Nat
  BY InitialValues DEF TypeInv, TypeOK, Time, Tx
<1>1. ASSUME UNCHANGED <<clock, tx, track>> PROVE Begun'
  BY <1>1 DEF ForceInv, Begun
<1>2. ASSUME NotifyAll, clock' = clock
      PROVE  \A c \in 0..N : next'[c] <= clock' /\ HoldsOn(c)'
  <2>1. \A c \in 0..N : next'[c] <= clock'
    BY <1>0, <1>2 DEF NotifyAll
  <2> QED
    BY <2>1, HoldsOnKept
<1>3. ASSUME NEW p, NEW s, NEW start, Replace(s, p, start) PROVE NotifyAll
  BY <1>3 DEF Replace
<1>4. CASE \E p \in Catalogue, s \in Place : SetChargingProfile(s, p)
  <2>1. UNCHANGED <<clock, tx, track>> /\ NotifyAll
    BY <1>3, <1>4 DEF SetChargingProfile
  <2> QED
    BY <1>1, <1>2, <2>1 DEF ForceInv
<1>5. CASE \E p \in Catalogue, c \in Connector : RemoteStart(c, p)
  <2>1. UNCHANGED <<clock, tx, track>> /\ NotifyAll
    BY <1>3, <1>5 DEF RemoteStart
  <2> QED
    BY <1>1, <1>2, <2>1 DEF ForceInv
<1>6. CASE \E f \in Filters : Clear(f)
  BY <1>1, <1>6 DEF Clear, ForceInv
<1>7. CASE \E x \in work.slots : ClearNext(x)
  BY <1>1, <1>7 DEF ClearNext, ForceInv
<1>8. CASE ClearEnd
  BY <1>1, <1>2, <1>8 DEF ClearEnd, ForceInv
<1>9. CASE Store
  <2>1. \A c \in 0..N : next'[c] <= clock'
    BY <1>9 DEF Store, ForceInv
  <2>2. UNCHANGED <<clock, track>> /\ pc' = "dirty"
    BY <1>9 DEF Store
  <2>3. Begun'
    <3> SUFFICES ASSUME NEW c \in Connector PROVE tx'[c].start <= clock
      BY <2>2 DEF ForceInv, Begun
    <3>1. tx'[c].start = tx[c].start \/ tx'[c].start = MinTime
      BY <1>0, <1>9 DEF Store, NoTx, MinTime
    <3> QED
      BY <1>0, <3>1 DEF ForceInv, Begun, MinTime
  <2> QED
    BY <2>1, <2>2, <2>3, HoldsOnKept DEF ForceInv
<1>10. CASE StoreFails
  <2>1. \A c \in 0..N : next'[c] <= clock'
    BY <1>10 DEF StoreFails, ForceInv
  <2> QED
    BY <1>1, <1>10, <2>1, HoldsOnKept DEF StoreFails, ForceInv
<1> QED
  BY <1>4, <1>5, <1>6, <1>7, <1>8, <1>9, <1>10

\* Transactions that begin, start and end are not looked at before the service's turn.
LEMMA TransactionsForce ==
    ASSUME TypeInv, TypeInv', ForceInv, NEW c \in Connector,
           \/ Begin(c) \/ StartTx(c) \/ (\E id \in TxIds : StartConf(c, id))
           \/ Abort(c) \/ StopTx(c) \/ StopConf(c) \/ FreeVend(c)
    PROVE  ForceInv'
<1>0. clock \in Nat /\ tx \in [Connector -> Tx] /\ \A d \in Connector : tx[d].start \in Nat
  BY DEF TypeInv, TypeOK, Time, Tx
<1>1. UNCHANGED <<clock, profile, track, next, output>> /\ pc \in {"idle", "dirty", "pass"} /\ pc' \in {"dirty", "pass"}
  BY DEF Begin, StartTx, StartConf, Abort, StopTx, StopConf, FreeVend, Open
<1>2. \A d \in Connector : tx'[d].start \in {tx[d].start, clock, MinTime}
  <2> TAKE d \in Connector
  <2>1. tx[d].start \in Nat /\ tx[d] \in Tx /\ tx[c] \in Tx
    BY <1>0
  <2>2. PICK t : /\ tx' = [tx EXCEPT ![c] = t]
                 /\ t \in {[NoTx EXCEPT !.phase = "begun"], NoTx,
                           [tx[c] EXCEPT !.phase = "running", !.start = clock],
                           [tx[c] EXCEPT !.phase = "stopping"]}
                       \cup {[tx[c] EXCEPT !.txId = id] : id \in TxIds}
    BY DEF Begin, StartTx, StartConf, Abort, StopTx, StopConf, FreeVend, SetTx
  <2>3. t.start \in {tx[c].start, clock, MinTime}
    <3>1. CASE \E id \in TxIds : t = [tx[c] EXCEPT !.txId = id]
      BY <2>1, <3>1 DEF Tx
    <3>2. CASE t \in {[NoTx EXCEPT !.phase = "begun"], NoTx}
      BY <3>2 DEF NoTx
    <3>3. CASE t = [tx[c] EXCEPT !.phase = "running", !.start = clock]
      BY <2>1, <3>3 DEF Tx
    <3>4. CASE t = [tx[c] EXCEPT !.phase = "stopping"]
      BY <2>1, <3>4 DEF Tx
    <3> QED
      BY <2>2, <3>1, <3>2, <3>3, <3>4
  <2> QED
    BY <1>0, <2>2, <2>3
<1>3. Begun'
  BY <1>0, <1>1, <1>2 DEF ForceInv, Begun, MinTime
<1>4. \A d \in 0..N : HoldsOn(d)'
  BY <1>0, <1>1, HoldsOnKept DEF ForceInv
<1> QED
  BY <1>1, <1>3, <1>4 DEF ForceInv

\* The service's turn, the clock, and a reset.
LEMMA LoopForce ==
    ASSUME TypeInv, TypeInv', ForceInv, TrackTransactions \/ UpdateLimits \/ Tick \/ PowerCut \/ Boot
    PROVE  ForceInv'
<1>0. /\ clock \in Nat /\ next \in [0..N -> Nat] /\ tx \in [Connector -> Tx] /\ Connector \subseteq 0..N
      /\ track \in [Connector -> Track] /\ profile \in Stacks
      /\ \A c \in Connector : tx[c].start \in Nat /\ track[c].start \in Nat
  BY InitialValues DEF TypeInv, TypeOK, Time, Tx, Track
<1>1. CASE TrackTransactions
  <2>1. clock' = clock /\ tx' = tx /\ output' = output /\ pc \notin {"clear", "store", "off"} /\ pc' = "limits"
    BY <1>1 DEF TrackTransactions
  <2>2. Begun'
    <3> SUFFICES ASSUME NEW c \in Connector PROVE track'[c].start <= clock \/ track'[c].start = MaxTime
      BY <2>1 DEF ForceInv, Begun
    <3>1. track'[c].start \in {tx[c].start, track[c].start, MaxTime}
      BY <1>1 DEF TrackTransactions, Tracked, NoTrack
    <3> QED
      BY <3>1 DEF ForceInv, Begun
  <2>3. ASSUME NEW c \in 0..N PROVE HoldsOn(c)'
    <3>1. CASE c # 0 /\ Tracked(c) # track[c]
      <4>1. next'[c] = clock
        BY <1>1, <3>1 DEF TrackTransactions, NotifyTracked
      <4> QED
        BY <1>0, <2>1, <4>1, HoldsOnKept
    <3>2. CASE ~(c # 0 /\ Tracked(c) # track[c])
      <4>1. next'[c] = next[c]
        BY <1>1, <3>2 DEF TrackTransactions, NotifyTracked
      <4>2. c # 0 => c \in Connector /\ track'[c] = track[c] /\ ~Gone(c)
        <5> SUFFICES ASSUME c # 0 PROVE c \in Connector /\ track'[c] = track[c] /\ ~Gone(c)
          OBVIOUS
        <5>1. c \in Connector
          BY ChargingAssumption DEF Connector
        <5>2. track'[c] = Tracked(c) /\ Tracked(c) = track[c]
          BY <1>1, <3>2, <5>1 DEF TrackTransactions
        <5> QED
          BY <5>1, <5>2 DEF Gone, Tracked
      <4>3. ASSUME NEW s \in PlacesOf(c) PROVE profile'[s] = profile[s]
        <5> DEFINE dropped == {x \in OfTx({d \in Connector : Gone(d)}) :
                                 Installed(x.place, x.level)}
        <5>1. s \in Place
          BY <4>2, InitialValues, ChargingAssumption DEF PlacesOf, Place
        <5>2. \A l \in Level : [place |-> s, level |-> l] \notin dropped
          BY <4>2 DEF OfTx, PlacesOf
        <5>3. profile' = Without(profile, dropped)
          BY <1>1 DEF TrackTransactions
        <5>4. profile[s] \in [Level -> Profile \cup {NoProfile}]
          BY <1>0, <5>1 DEF Stacks
        <5> HIDE DEF dropped
        <5>5. profile'[s] = [l \in Level |-> profile[s][l]]
          BY <5>1, <5>2, <5>3 DEF Without
        <5> QED
          BY <5>4, <5>5
      <4> QED
        BY <1>0, <2>1, <4>1, <4>2, <4>3, HoldsOnKept DEF ForceInv
    <3> QED
      BY <3>1, <3>2
  <2> QED
    BY <2>1, <2>2, <2>3 DEF ForceInv
<1>2. CASE UpdateLimits
  <2>1. /\ UNCHANGED <<clock, profile, tx, track>> /\ pc = "limits" /\ pc' = "idle"
        /\ \A c \in 0..N : /\ Due(c) => next'[c] = NextAt(c, clock) /\ output'[c] = Limit(c, clock)
                           /\ ~Due(c) => next'[c] = next[c] /\ output'[c] = output[c]
    BY <1>2 DEF UpdateLimits
  <2>2. Begun'
    BY <2>1 DEF ForceInv, Begun
  <2>3. ASSUME NEW c \in 0..N PROVE HoldsOn(c)'
    <3>1. CASE Due(c)
      <4>1. (Plain(c)' <=> Plain(c)) /\ \A u : Limit(c, u)' = Limit(c, u)
        BY <2>1, LimitSame
      <4>2. SUFFICES ASSUME Plain(c), NEW u \in Time, clock <= u, u <= LastTime, u < NextAt(c, clock)
                     PROVE  Limit(c, clock) = Limit(c, u)
        BY <2>1, <3>1, <4>1 DEF HoldsOn
      <4>3. LimitState /\ clock \in Time /\ clock < MaxTime /\ u < MaxTime /\ MaxTime \in Nat
        BY <4>2, ChargingAssumption, LimitsAssumption
           DEF LimitState, Stacks, OneStack, TypeInv, TypeOK, Time
      <4>4. c # 0 => track[c].start <= clock \/ u < track[c].start
        <5> SUFFICES ASSUME c # 0 PROVE track[c].start <= clock \/ u < track[c].start
          OBVIOUS
        <5>1. c \in Connector
          BY ChargingAssumption DEF Connector
        <5> QED
          BY <4>3, <5>1 DEF ForceInv, Begun
      <4> QED
        BY <4>2, <4>3, <4>4, LimitSteady
    <3>2. CASE ~Due(c)
      BY <1>0, <2>1, <3>2, HoldsOnKept DEF ForceInv
    <3> QED
      BY <3>1, <3>2
  <2> QED
    BY <2>1, <2>2, <2>3 DEF ForceInv
<1>3. CASE Tick
  <2>1. /\ UNCHANGED <<profile, tx, track, next, output>> /\ pc = "idle" /\ pc' = "pass"
        /\ clock' = clock + 1
    BY <1>3 DEF Tick
  <2>2. Begun'
    <3> SUFFICES ASSUME NEW c \in Connector
                 PROVE  tx[c].start <= clock + 1 /\ (track[c].start <= clock + 1 \/ track[c].start = MaxTime)
      BY <2>1 DEF Begun
    <3>1. tx[c].start <= clock /\ (track[c].start <= clock \/ track[c].start = MaxTime)
      BY DEF ForceInv, Begun
    <3> QED
      BY <1>0, <3>1
  <2>3. \A c \in 0..N : HoldsOn(c)'
    BY <1>0, <2>1, HoldsOnKept DEF ForceInv
  <2> QED
    BY <2>1, <2>2, <2>3 DEF ForceInv
<1>4. CASE PowerCut
  <2>1. /\ clock' = clock /\ pc' = "off"
        /\ \A c \in 0..N : next'[c] = 0
        /\ \A c \in Connector : track'[c].start = MaxTime /\ tx'[c].start = tx[c].start
    <3>1. \A c \in Connector : [tx[c] EXCEPT !.rmt = -1].start = tx[c].start
      BY <1>0 DEF Tx
    <3> QED
      BY <1>0, <1>4, <3>1 DEF PowerCut, NoTrack, MinTime
  <2>2. Begun'
    BY <2>1 DEF ForceInv, Begun
  <2>3. \A c \in 0..N : next'[c] <= clock' /\ HoldsOn(c)'
    BY <1>0, <2>1, HoldsOnKept
  <2> QED
    BY <2>2, <2>3 DEF ForceInv
<1>5. CASE Boot
  <2>1. /\ clock' = clock /\ pc' = "pass" /\ pc = "off" /\ next' = next /\ track' = track
        /\ \A c \in Connector : tx'[c].start = tx[c].start
    <3>1. \A c \in Connector : [tx[c] EXCEPT !.phase = "back"].start = tx[c].start
      BY <1>0 DEF Tx
    <3> QED
      BY <1>0, <1>5, <3>1 DEF Boot
  <2>2. Begun'
    BY <2>1 DEF ForceInv, Begun
  <2>3. \A c \in 0..N : next'[c] <= clock'
    BY <2>1 DEF ForceInv
  <2> QED
    BY <2>1, <2>2, <2>3, HoldsOnKept DEF ForceInv
<1> QED
  BY <1>1, <1>2, <1>3, <1>4, <1>5

LEMMA StepForce == TypeInv /\ TypeInv' /\ ForceInv /\ [Next]_vars => ForceInv'
<1> SUFFICES ASSUME TypeInv, TypeInv', ForceInv, [Next]_vars PROVE ForceInv'
  OBVIOUS
<1>1. CASE UNCHANGED vars
  <2>1. UNCHANGED <<clock, profile, tx, track, next, output, pc>>
    BY <1>1 DEF vars
  <2>2. clock \in Nat
    BY DEF TypeInv, TypeOK, Time
  <2>3. pc # "clear" => \A c \in 0..N : HoldsOn(c)'
    BY <2>1, <2>2, HoldsOnKept DEF ForceInv
  <2> QED
    BY <2>1, <2>3 DEF ForceInv, Begun
<1>2. CASE Next
  BY <1>2, ProfilesForce, TransactionsForce, LoopForce DEF Next
<1> QED
  BY <1>1, <1>2

LEMMA InvariantForce == Spec => []ForceInv
<1>1. TypeInv /\ ForceInv /\ [Next]_vars /\ TypeInv' => ForceInv'
  BY StepForce
<1> QED
  BY InvariantType, InitForce, <1>1, PTL DEF Spec

\* The hardware always has the limit of the moment: whichever plain profiles the server installs,
\* replaces and clears, over failed writes, transactions that start and end, the passing of their
\* boundaries and power cuts, no change of a limit goes by without the loop computing it again.
THEOREM LimitHolds == Spec => []LimitInForce
<1>1. TypeInv /\ ForceInv => LimitInForce
  <2> SUFFICES ASSUME TypeInv, ForceInv, pc = "idle", NEW c \in 0..N, Plain(c)
               PROVE  output[c] = Limit(c, clock)
    BY DEF LimitInForce
  <2>1. clock \in Time /\ clock <= clock /\ clock <= LastTime /\ clock < next[c]
    BY DEF TypeInv, TypeOK, NextLater, Time
  <2> QED
    BY <2>1 DEF ForceInv, HoldsOn
<1> QED
  BY InvariantType, InvariantForce, <1>1, PTL

-----------------------------------------------------------------------------
(* The composite schedule *)

\* The first n periods of a schedule, each beginning at the next change of the one before.
PeriodsFrom(c, n, g) ==
    g = [k \in 1..n |-> IF k = 1 THEN clock ELSE NextAt(c, g[k - 1])]

\* The recursion that computes the periods has a solution: by induction, since the least number of
\* periods for which it had none would be one more than a number for which it has one.
LEMMA PeriodsExist ==
    ASSUME NEW c, NEW m \in Nat
    PROVE  \E g : PeriodsFrom(c, m, g)
<1> DEFINE Missing == {n \in Nat : ~\E g : PeriodsFrom(c, n, g)}
<1>1. SUFFICES ASSUME Missing # {} PROVE FALSE
  OBVIOUS
<1> DEFINE n == Least(Missing)
<1>2. n \in Missing /\ \A k \in Missing : n <= k
  <2>1. Missing \subseteq Nat
    OBVIOUS
  <2> HIDE DEF Missing
  <2> QED
    BY <1>1, <2>1, LeastIn
<1>3. n # 0
  <2>1. PeriodsFrom(c, 0, [k \in 1..0 |-> 0])
    BY DEF PeriodsFrom
  <2> QED
    BY <1>2, <2>1
<1>4. n - 1 \in Nat /\ n - 1 \notin Missing /\ n \in Nat
  <2>1. n \in Nat
    BY <1>2
  <2> HIDE DEF n
  <2>2. n - 1 \in Nat /\ ~(n <= n - 1)
    BY <1>3, <2>1
  <2> QED
    BY <1>2, <2>1, <2>2
<1>5. PICK g : PeriodsFrom(c, n - 1, g)
  BY <1>4
<1> HIDE DEF n
<1> DEFINE h == [k \in 1..n |-> IF k = n THEN (IF n = 1 THEN clock ELSE NextAt(c, g[n - 1])) ELSE g[k]]
<1>6. ASSUME NEW k \in 1..n PROVE h[k] = IF k = 1 THEN clock ELSE NextAt(c, h[k - 1])
  <2>1. CASE k = n
    <3>1. k # 1 => h[k - 1] = g[n - 1]
      BY <1>4, <2>1
    <3> QED
      BY <2>1, <3>1
  <2>2. CASE k # n
    <3>1. k \in 1..(n - 1) /\ (k # 1 => k - 1 \in 1..n /\ k - 1 # n)
      BY <1>4, <2>2
    <3>2. g[k] = IF k = 1 THEN clock ELSE NextAt(c, g[k - 1])
      BY <1>5, <3>1 DEF PeriodsFrom
    <3> QED
      BY <2>2, <3>1, <3>2
  <2> QED
    BY <2>1, <2>2
<1>7. PeriodsFrom(c, n, h)
  <2>1. h = [k \in 1..n |-> h[k]]
    OBVIOUS
  <2> HIDE DEF h
  <2> QED
    BY <1>6, <2>1 DEF PeriodsFrom
<1> QED
  BY <1>2, <1>7

\* The composite schedule consists of those of the first MaxPeriods periods that begin within the
\* duration (getCompositeSchedule).
LEMMA CompositePeriods ==
    ASSUME NEW c, NEW duration
    PROVE  \E g : /\ PeriodsFrom(c, MaxPeriods, g)
                  /\ Composite(c, duration) =
                        [k \in 1..Cardinality({i \in 1..MaxPeriods : g[i] < clock + duration}) |->
                            [at |-> g[k], limit |-> Limit(c, g[k])]]
<1> DEFINE g == CHOOSE f : f = [k \in 1..MaxPeriods |-> IF k = 1 THEN clock ELSE NextAt(c, f[k - 1])]
<1>1. PeriodsFrom(c, MaxPeriods, g)
  <2>1. \E f : f = [k \in 1..MaxPeriods |-> IF k = 1 THEN clock ELSE NextAt(c, f[k - 1])]
    <3>1. \E f : PeriodsFrom(c, MaxPeriods, f)
      BY PeriodsExist, ChargingAssumption
    <3> QED
      BY <3>1, Zenon DEF PeriodsFrom
  <2> QED
    BY <2>1, Zenon DEF PeriodsFrom
<1>2. Composite(c, duration) =
          [k \in 1..Cardinality({i \in 1..MaxPeriods : g[i] < clock + duration}) |->
              [at |-> g[k], limit |-> Limit(c, g[k])]]
  BY Zenon DEF Composite
<1> QED
  BY <1>1, <1>2

\* Among times of which none is T or before after one that is later, those later than T are all
\* that come from some place on.
LEMMA FirstPast ==
    ASSUME NEW m \in Nat, NEW g, NEW T \in Nat, \A k \in 1..m : g[k] \in Nat,
           \A k \in 1..(m - 1) : g[k] > T => g[k + 1] > T,
           g[1] <= T, \E k \in 1..m : g[k] > T
    PROVE  \E i \in 2..m : \A k \in 1..m : g[k] > T <=> k >= i
<1> DEFINE L == {k \in 1..m : g[k] > T}
           i == Least(L)
<1>1. i \in L /\ \A k \in L : i <= k
  <2>1. L \subseteq Nat /\ L # {}
    OBVIOUS
  <2> HIDE DEF L
  <2> QED
    BY <2>1, LeastIn
<1>2. i \in 2..m
  <2>1. i \in 1..m /\ i # 1
    BY <1>1
  <2> QED
    BY <2>1
<1> HIDE DEF i
<1> DEFINE B == {k \in i..m : g[k] <= T}
<1>3. SUFFICES ASSUME B # {} PROVE FALSE
  <2>1. ASSUME B = {}, NEW k \in 1..m PROVE g[k] > T <=> k >= i
    <3>1. g[k] \in Nat
      OBVIOUS
    <3>2. ASSUME k >= i PROVE g[k] > T
      <4>1. k \in i..m
        BY <1>2, <3>2
      <4>2. ~(g[k] <= T)
        BY <2>1, <4>1
      <4> QED
        BY <3>1, <4>2
    <3> QED
      BY <1>1, <3>2
  <2> QED
    BY <1>2, <2>1
<1> DEFINE j == Least(B)
<1>4. j \in B /\ \A k \in B : j <= k
  <2>1. B \subseteq Nat
    BY <1>2
  <2> HIDE DEF B
  <2> QED
    BY <1>3, <2>1, LeastIn
<1>5. j \in i..m /\ g[j] <= T /\ i \in Nat /\ g[j] \in Nat
  BY <1>2, <1>4
<1> HIDE DEF j
<1>6. j # i
  BY <1>1, <1>5
<1>7. j - 1 \in i..m /\ j - 1 \in 1..(m - 1) /\ j - 1 \notin B
  BY <1>2, <1>4, <1>5, <1>6
<1>8. g[j - 1] > T
  <2>1. j - 1 \in 1..m
    BY <1>7
  <2> HIDE DEF B
  <2>2. g[j - 1] \in Nat /\ ~(g[j - 1] <= T)
    BY <1>7, <2>1 DEF B
  <2> QED
    BY <2>2
<1>9. g[(j - 1) + 1] > T /\ (j - 1) + 1 = j
  BY <1>5, <1>7, <1>8
<1> QED
  BY <1>5, <1>9

\* For plain profiles, the composite schedule has at each moment it covers the limit of that
\* moment, whatever is installed at whichever levels.
THEOREM ScheduleTold == Spec => []ScheduleExact
<1>1. TypeInv /\ ForceInv => ScheduleExact
  <2> DEFINE duration == LastTime - clock + 1
  <2>1. SUFFICES ASSUME TypeInv, ForceInv, pc = "idle", NEW c \in 0..N, Plain(c),
                        Len(Composite(c, duration)) < MaxPeriods,
                        NEW t \in clock..(clock + duration - 1)
                 PROVE  LET schedule == Composite(c, duration)
                            last == CHOOSE k \in DOMAIN schedule :
                                       /\ schedule[k].at <= t
                                       /\ \A j \in DOMAIN schedule : schedule[j].at <= t => j <= k
                        IN  schedule[last].limit = Limit(c, t)
    BY DEF ScheduleExact
  <2>2. /\ LimitState /\ clock \in Nat /\ LastTime \in Nat /\ MaxTime \in Nat /\ LastTime < MaxTime
        /\ clock <= LastTime /\ MaxPeriods \in Nat /\ MaxPeriods >= 1
    BY <2>1, ChargingAssumption, LimitsAssumption
       DEF LimitState, Stacks, OneStack, TypeInv, TypeOK, Time
  <2>3. t \in Nat /\ clock <= t /\ t <= LastTime /\ clock + duration = LastTime + 1
    BY <2>1, <2>2
  <2>4. PICK g : /\ PeriodsFrom(c, MaxPeriods, g)
                 /\ Composite(c, duration) =
                       [k \in 1..Cardinality({i \in 1..MaxPeriods : g[i] < clock + duration}) |->
                           [at |-> g[k], limit |-> Limit(c, g[k])]]
    <3>1. \A d : \E g : /\ PeriodsFrom(c, MaxPeriods, g)
                       /\ Composite(c, d) =
                             [k \in 1..Cardinality({i \in 1..MaxPeriods : g[i] < clock + d}) |->
                                 [at |-> g[k], limit |-> Limit(c, g[k])]]
      BY CompositePeriods
    <3> HIDE DEF duration
    <3> QED
      BY <3>1, Zenon
  <2> DEFINE K == {i \in 1..MaxPeriods : g[i] < clock + duration}
  <2>5. g[1] = clock
    BY <2>2, <2>4 DEF PeriodsFrom
  <2>6. \A k \in 1..(MaxPeriods - 1) : g[k + 1] = NextAt(c, g[k])
    <3> TAKE k \in 1..(MaxPeriods - 1)
    <3>1. k + 1 \in 1..MaxPeriods /\ k + 1 # 1 /\ (k + 1) - 1 = k
      BY <2>2
    <3>2. g[k + 1] = IF k + 1 = 1 THEN clock ELSE NextAt(c, g[(k + 1) - 1])
      BY <2>4, <3>1 DEF PeriodsFrom
    <3> QED
      BY <3>1, <3>2
  <2>7. \A k \in 1..MaxPeriods : g[k] \in Nat
    <3> DEFINE Bad == {k \in 1..MaxPeriods : g[k] \notin Nat}
    <3>1. SUFFICES ASSUME Bad # {} PROVE FALSE
      OBVIOUS
    <3>2. Least(Bad) \in Bad /\ \A k \in Bad : Least(Bad) <= k
      <4>1. Bad \subseteq Nat
        OBVIOUS
      <4> HIDE DEF Bad
      <4> QED
        BY <3>1, <4>1, LeastIn
    <3> DEFINE k == Least(Bad) - 1
    <3>3. Least(Bad) \in 1..MaxPeriods /\ Least(Bad) # 1
      BY <2>2, <2>5, <3>2
    <3>4. k \in 1..(MaxPeriods - 1) /\ k \notin Bad /\ k + 1 = Least(Bad)
      <4> HIDE DEF Bad
      <4> QED
        BY <2>2, <3>2, <3>3
    <3>5. g[k] \in Nat
      <4>1. k \in 1..MaxPeriods
        BY <2>2, <3>4
      <4> HIDE DEF k
      <4> QED
        BY <3>4, <4>1
    <3>6. NextAt(c, g[k]) \in Nat
      <4>1. 0 \in Nat /\ 0 <= g[k] /\ 0 < MaxTime
        BY <2>2, <3>5
      <4> QED
        BY <2>1, <2>2, <3>5, <4>1, NextAtAfter DEF Time
    <3> QED
      BY <2>6, <3>2, <3>4, <3>6
  <2>8. \A T \in Nat : T <= LastTime =>
            \A k \in 1..(MaxPeriods - 1) : g[k] > T => g[k + 1] > T
    <3> SUFFICES ASSUME NEW T \in Nat, T <= LastTime, NEW k \in 1..(MaxPeriods - 1), g[k] > T
                 PROVE  NextAt(c, g[k]) > T
      BY <2>6
    <3>1. g[k] \in Nat
      BY <2>2, <2>7
    <3>2. NextAt(c, g[k]) \in Time /\ T < NextAt(c, g[k])
      BY <2>1, <2>2, <3>1, NextAtAfter DEF Time
    <3> QED
      BY <3>2 DEF Time
  <2>9. IsFiniteSet(K) /\ Cardinality(K) \in Nat /\ Cardinality(K) < MaxPeriods
    <3>1. K \subseteq 1..MaxPeriods
      OBVIOUS
    <3>2. IsFiniteSet(K) /\ Cardinality(K) \in Nat
      <4> HIDE DEF K
      <4>1. IsFiniteSet(1..MaxPeriods)
        BY <2>2, FS_Interval
      <4>2. IsFiniteSet(K)
        BY <3>1, <4>1, FS_Subset
      <4> QED
        BY <4>2, FS_CardinalityType
    <3>3. Len(Composite(c, duration)) = Cardinality(K)
      <4> HIDE DEF K
      <4>1. Composite(c, duration) = [k \in 1..Cardinality(K) |-> [at |-> g[k], limit |-> Limit(c, g[k])]]
        BY <2>4 DEF K
      <4> QED
        BY <3>2, <4>1
    <3> QED
      BY <2>1, <3>2, <3>3
  <2>10. \E k \in 1..MaxPeriods : g[k] > LastTime
    <3> SUFFICES ASSUME \A k \in 1..MaxPeriods : ~(g[k] > LastTime) PROVE FALSE
      OBVIOUS
    <3>1. K = 1..MaxPeriods
      BY <2>2, <2>3, <2>7
    <3>2. Cardinality(1..MaxPeriods) = MaxPeriods
      BY <2>2, FS_Interval
    <3> HIDE DEF K
    <3> QED
      BY <2>2, <2>9, <3>1, <3>2
  <2>11. PICK e \in 2..MaxPeriods : \A k \in 1..MaxPeriods : g[k] > LastTime <=> k >= e
    <3>1. /\ g[1] <= LastTime
          /\ \A k \in 1..(MaxPeriods - 1) : g[k] > LastTime => g[k + 1] > LastTime
      BY <2>2, <2>5, <2>8
    <3> QED
      BY <2>2, <2>7, <2>10, <3>1, FirstPast
  <2>12. K = 1..(e - 1) /\ Cardinality(K) = e - 1
    <3>1. K = 1..(e - 1)
      BY <2>2, <2>3, <2>7, <2>11
    <3>2. Cardinality(1..(e - 1)) = e - 1
      BY <2>11, FS_Interval
    <3> QED
      BY <3>1, <3>2
  <2>13. PICK i \in 2..MaxPeriods : \A k \in 1..MaxPeriods : g[k] > t <=> k >= i
    <3>1. \E k \in 1..MaxPeriods : g[k] > t
      BY <2>2, <2>3, <2>7, <2>10
    <3> QED
      BY <2>2, <2>3, <2>5, <2>7, <2>8, <3>1, FirstPast
  <2>14. i <= e
    <3>1. e \in 1..MaxPeriods /\ g[e] \in Nat /\ g[e] > LastTime
      BY <2>2, <2>7, <2>11
    <3> QED
      BY <2>2, <2>3, <2>13, <3>1
  <2> DEFINE schedule == Composite(c, duration)
             Last(k) == /\ k \in DOMAIN schedule /\ schedule[k].at <= t
                        /\ \A j \in DOMAIN schedule : schedule[j].at <= t => j <= k
             last == CHOOSE k \in DOMAIN schedule :
                         /\ schedule[k].at <= t
                         /\ \A j \in DOMAIN schedule : schedule[j].at <= t => j <= k
  <2>15. /\ DOMAIN schedule = 1..(e - 1)
         /\ \A k \in 1..(e - 1) : schedule[k].at = g[k] /\ schedule[k].limit = Limit(c, g[k])
    <3> HIDE DEF K
    <3>1. schedule = [k \in 1..(e - 1) |-> [at |-> g[k], limit |-> Limit(c, g[k])]]
      BY <2>4, <2>12 DEF K
    <3> QED
      BY <3>1
  <2> HIDE DEF schedule, K
  <2>16. \A k \in 1..(e - 1) : schedule[k].at <= t <=> k <= i - 1
    <3> TAKE k \in 1..(e - 1)
    <3>1. k \in 1..MaxPeriods /\ g[k] \in Nat
      BY <2>2, <2>7, <2>11
    <3> QED
      BY <2>3, <2>13, <2>15, <3>1
  <2>17. Last(i - 1)
    BY <2>11, <2>13, <2>14, <2>15, <2>16
  <2>18. Last(last)
    BY <2>17, Zenon
  <2>19. last = i - 1
    <3>1. last \in 1..(e - 1) /\ last <= i - 1
      BY <2>15, <2>16, <2>18
    <3>2. i - 1 <= last
      BY <2>17, <2>18
    <3> HIDE DEF last
    <3> QED
      BY <2>11, <2>13, <3>1, <3>2
  <2>20. schedule[last].limit = Limit(c, g[i - 1])
    BY <2>15, <2>18, <2>19
  <2>21. Limit(c, t) = Limit(c, g[i - 1])
    <3>1. i - 1 \in 1..(MaxPeriods - 1) /\ (i - 1) + 1 = i /\ i \in 1..MaxPeriods /\ i - 1 \in 1..MaxPeriods
      BY <2>2, <2>13
    <3>2. g[i - 1] \in Nat /\ g[i] \in Nat /\ g[i] > t /\ g[i - 1] <= t /\ g[i] = NextAt(c, g[i - 1])
      BY <2>3, <2>6, <2>7, <2>13, <3>1
    <3>3. clock <= g[i - 1]
      <4>1. CASE i - 1 = 1
        BY <2>2, <2>5, <4>1
      <4>2. CASE i - 1 # 1
        <5> SUFFICES ASSUME g[i - 1] < clock PROVE FALSE
          BY <2>2, <3>2
        <5>1. \A k \in 1..(MaxPeriods - 1) : g[k] > clock => g[k + 1] > clock
          BY <2>2, <2>8
        <5>2. g[1 + 1] > clock
          <6>1. NextAt(c, clock) \in Time /\ clock < NextAt(c, clock)
            BY <2>1, <2>2, NextAtAfter DEF Time
          <6>2. 1 \in 1..(MaxPeriods - 1)
            BY <2>2, <2>13, <4>2
          <6> QED
            BY <2>5, <2>6, <6>1, <6>2 DEF Time
        <5>3. 2 \in 1..MaxPeriods /\ g[2] > clock
          BY <2>2, <2>13, <4>2, <5>2
        <5>4. PICK x \in 2..MaxPeriods : \A k \in 1..MaxPeriods : g[k] > clock <=> k >= x
          <6>1. g[1] <= clock
            BY <2>2, <2>5
          <6> QED
            BY <2>2, <2>7, <5>1, <5>3, <6>1, FirstPast
        <5>5. x <= 2
          BY <2>2, <5>3, <5>4
        <5> QED
          BY <2>2, <3>1, <3>2, <4>2, <5>4, <5>5
      <4> QED
        BY <4>1, <4>2
    <3>4. c # 0 => track[c].start <= g[i - 1] \/ t < track[c].start
      <4> SUFFICES ASSUME c # 0 PROVE track[c].start <= g[i - 1] \/ t < track[c].start
        OBVIOUS
      <4>1. c \in Connector
        BY <2>1, ChargingAssumption DEF Connector
      <4>2. track[c].start \in Nat
        BY <2>2, <4>1 DEF LimitState, Track, Time
      <4>3. track[c].start <= clock \/ track[c].start = MaxTime
        BY <2>1, <4>1 DEF ForceInv, Begun
      <4> QED
        BY <2>2, <2>3, <3>2, <3>3, <4>2, <4>3
    <3>5. g[i - 1] \in Time /\ t \in Time /\ g[i - 1] < MaxTime /\ t < MaxTime
      BY <2>2, <2>3, <3>2 DEF Time
    <3> QED
      BY <2>1, <2>2, <3>2, <3>4, <3>5, LimitSteady
  <2> QED
    BY <2>20, <2>21 DEF schedule
<1> QED
  BY InvariantType, InvariantForce, <1>1, PTL

=============================================================================
