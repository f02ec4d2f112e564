--------------------------- MODULE ChargingLimits ---------------------------
(***************************************************************************)
(* The limit that a charging profile sets at a point in time, and the time *)
(* at which it has to be computed again (SmartChargingModel).              *)
(*                                                                         *)
(* The code passes nextChange by reference through one profile after the   *)
(* other.  Most of what they do to it is to lower it to the next boundary  *)
(* they know (`Caps'), but the search for the period in force assigns the  *)
(* beginning of the following period (`Restart'), whatever nextChange was  *)
(* before.                                                                 *)
(*                                                                         *)
(* Times are seconds since MIN_TIME, which stands for "not set".  The      *)
(* number of phases goes with the limit and is left out.                   *)
(***************************************************************************)
EXTENDS Integers, Sequences, FiniteSets

CONSTANTS
    Day, Week,    \* the periods of recurring schedules, in seconds
    MaxTime,      \* MAX_TIME: no change to come
    Unlimited,    \* the greatest limit
    MaxLevel      \* CHARGEPROFILEMAXSTACKLEVEL

ASSUME LimitsAssumption ==
    /\ Day \in Nat \ {0} /\ Week \in Nat \ {0}
    /\ MaxTime \in Nat \ {0} /\ Unlimited \in Nat \ {0}
    /\ MaxLevel \in Nat

MinTime == 0
Time == Nat
Level == 0..MaxLevel
Unit == {"A", "W"}
Kind == {"Absolute", "Daily", "Weekly", "Relative"}
Purpose == {"max", "default", "tx"}
ChargeRate == [Unit -> 0..Unlimited]

\* A profile with its schedule.  duration = 0: none, min = -1: none, tx = -1: any transaction.
Period == [at : Nat, limit : 0..Unlimited]
Profile == [id : Nat, tx : Nat \cup {-1}, level : Level, purpose : Purpose,
            from : Time, to : Time, kind : Kind, start : Time, duration : Nat, unit : Unit,
            min : (0..Unlimited) \cup {-1}, periods : Seq(Period)]
NoProfile == [id |-> -1]

-----------------------------------------------------------------------------
(* Numbers *)

Larger(a, b) == IF a < b THEN b ELSE a
Smaller(a, b) == IF a < b THEN a ELSE b
Least(S) == CHOOSE x \in S : \A y \in S : x <= y

\* The remainder as C computes it: it has the sign of the dividend.
Remainder(a, b) == IF a >= 0 THEN a % b ELSE -((-a) % b)

\* The lower limit in each unit.
RateMin(r, q) == [u \in Unit |-> Smaller(r[u], q[u])]
NoLimit == [u \in Unit |-> Unlimited]

-----------------------------------------------------------------------------
(* One schedule, at time t of a transaction that started at begin *)

Cycle(p) == IF p.kind = "Weekly" THEN Week ELSE Day
Recurring(p) == p.kind \in {"Daily", "Weekly"}

\* The point in time to which the times of the schedule are relative.
Basis(p, t, begin) ==
    IF Recurring(p) THEN t - Remainder(t - p.start, Cycle(p))
    ELSE IF p.kind = "Absolute" /\ p.start > MinTime THEN p.start
    ELSE begin

HasBasis(p, t, begin) ==
    /\ Basis(p, t, begin) <= t
    /\ p.kind = "Absolute" /\ p.start = MinTime => MinTime < begin /\ begin < t

Offset(p, t, begin) == t - Basis(p, t, begin)

\* The validity dates of the profile (to = MinTime: no end).
Expired(p, t) == p.to > MinTime /\ t > p.to
Early(p, t) == t < p.from

\* Mutant: the schedule is still under way when its duration is over.
RunningToEnd(p, t, begin) ==
    /\ ~Expired(p, t) /\ ~Early(p, t)
    /\ HasBasis(p, t, begin)
    /\ p.duration > 0 => Offset(p, t, begin) <= p.duration

\* The schedule is under way: it has begun and its duration is not over ...
Running(p, t, begin) ==
    /\ ~Expired(p, t) /\ ~Early(p, t)
    /\ HasBasis(p, t, begin)
    /\ p.duration > 0 => Offset(p, t, begin) < p.duration

\* ... and there is a first period that is yet to come.
Coming(p, t, begin) == {i \in DOMAIN p.periods : p.periods[i].at > Offset(p, t, begin)}
InForce(p, t, begin) ==
    IF Coming(p, t, begin) = {} THEN Len(p.periods) ELSE Least(Coming(p, t, begin)) - 1

\* Mutant: the minimum rate lowers the limit.
LimitOfMin(p, t, begin) ==
    [u \in Unit |-> IF u = p.unit
                    THEN Smaller(p.periods[InForce(p, t, begin)].limit, p.min)
                    ELSE Unlimited]

\* calculateLimit of a profile: whether it defines a limit, and which.
Defined(p, t, begin) == Running(p, t, begin) /\ InForce(p, t, begin) > 0
LimitOf(p, t, begin) ==
    [u \in Unit |-> IF u = p.unit
                    THEN Larger(p.periods[InForce(p, t, begin)].limit, p.min)
                    ELSE Unlimited]

\* Mutant: the boundary of the duration is forgotten.
CapsNoDuration(p, t, begin) ==
    IF Expired(p, t) THEN {}
    ELSE IF Early(p, t) THEN {p.from}
    ELSE (IF p.kind = "Absolute" /\ p.start > t THEN {p.start} ELSE {})
         \cup (IF Recurring(p) THEN {Basis(p, t, begin) + Cycle(p)} ELSE {})

\* What a profile that is examined does to nextChange.
Caps(p, t, begin) ==
    IF Expired(p, t) THEN {}
    ELSE IF Early(p, t) THEN {p.from}
    ELSE (IF p.kind = "Absolute" /\ p.start > t THEN {p.start} ELSE {})
         \cup (IF Recurring(p) THEN {Basis(p, t, begin) + Cycle(p)} ELSE {})
         \cup (IF Running(p, t, begin) /\ p.duration > 0
               THEN {Basis(p, t, begin) + p.duration} ELSE {})

\* Mutant: the beginning of the next period is counted from now.
RestartFromNow(p, t, begin) ==
    IF Running(p, t, begin) /\ Coming(p, t, begin) # {}
    THEN {t + p.periods[Least(Coming(p, t, begin))].at}
    ELSE {}

\* The search for the period in force assigns the beginning of the first one to come.
Restart(p, t, begin) ==
    IF Running(p, t, begin) /\ Coming(p, t, begin) # {}
    THEN {Basis(p, t, begin) + p.periods[Least(Coming(p, t, begin))].at}
    ELSE {}

-----------------------------------------------------------------------------
(* A stack of profiles: the highest level at which one defines a limit counts *)

\* stack[l] is the profile at level l; applicable are the levels that are looked at.
Levels(stack, applicable) == {l \in Level : stack[l] # NoProfile /\ l \in applicable}
Defining(stack, applicable, t, begin) ==
    {l \in Levels(stack, applicable) : Defined(stack[l], t, begin)}
Highest(S) == CHOOSE l \in S : \A k \in S : k <= l

\* The scan goes down from the top and stops at the level that defines the limit.
Examined(stack, applicable, t, begin) ==
    LET D == Defining(stack, applicable, t, begin) IN
    {l \in Levels(stack, applicable) : D # {} => l >= Highest(D)}

StackDefines(stack, applicable, t, begin) == Defining(stack, applicable, t, begin) # {}
StackLimit(stack, applicable, t, begin) ==
    IF StackDefines(stack, applicable, t, begin)
    THEN LimitOf(stack[Highest(Defining(stack, applicable, t, begin))], t, begin)
    ELSE NoLimit

\* nextChange after the scan, if it was next before: the last assignment counts, and the caps of
\* the levels that are examined after it.
StackNext(stack, applicable, t, begin, next) ==
    LET E == Examined(stack, applicable, t, begin)
        R == {l \in E : Restart(stack[l], t, begin) # {}}
    IN  IF R = {}
        THEN Least({next} \cup UNION {Caps(stack[l], t, begin) : l \in E})
        ELSE Least(Restart(stack[Least(R)], t, begin)
                   \cup UNION {Caps(stack[l], t, begin) : l \in {k \in E : k < Least(R)}})

=============================================================================
