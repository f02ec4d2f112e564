---------------------------- MODULE SmartCharging ----------------------------
(***************************************************************************)
(* The smart charging service: the profiles that the server installs and   *)
(* clears, their files, the transactions they apply to, and the limits the *)
(* hardware is given.                                                      *)
(*                                                                         *)
(* Connector 0 is the charge point as a whole.  The main loop serves all   *)
(* connectors and then this service (TrackTransactions, UpdateLimits).     *)
(* `pc' tells what may come next: "idle" after the service's turn, "dirty" *)
(* after the handler of a message, "pass" inside a pass, when the          *)
(* connectors were served, "limits" when the service has looked at the     *)
(* transactions, and "store" and "clear" between two flash writes.         *)
(***************************************************************************)
EXTENDS ChargingLimits

CONSTANTS
    N,               \* connectors
    MaxInstalled,    \* MAXCHARGINGPROFILESINSTALLED
    MaxPeriods,      \* CHARGINGSCHEDULEMAXPERIODS
    Catalogue,       \* the profiles the server may send
    Filters,         \* the filters it may clear profiles by
    TxIds,           \* the transaction ids it may give
    FreeVending,     \* FreeVendActive is set: a plug begins a transaction
    Cuts,            \* the values of pc at which the power may be cut
    LastTime,        \* bound: the last point in time
    MaxFaults        \* bound: power cuts and failed writes in a behaviour

ASSUME ChargingAssumption ==
    /\ N \in Nat \ {0} /\ MaxInstalled \in Nat /\ MaxPeriods \in Nat \ {0}
    /\ Catalogue \subseteq Profile /\ TxIds \subseteq Nat
    /\ Filters \subseteq [id : Nat \cup {-1}, connector : (0..N) \cup {-1},
                         purpose : Purpose \cup {"any"}, level : Level \cup {-1}]
    /\ FreeVending \in BOOLEAN
    /\ Cuts \subseteq {"idle", "dirty", "pass", "store", "clear"}
    /\ LastTime \in Nat \ {0} /\ LastTime < MaxTime /\ MaxFaults \in Nat

VARIABLES
    clock,     \* Clock::now
    profile,   \* RAM: the stacks of profiles
    file,      \* flash: their files
    tx,        \* the connectors' transactions, in RAM and in the journal
    track,     \* RAM: what the service knows of them
    next,      \* RAM: nextChange of each connector
    output,    \* the limit the hardware was given last
    pc, work,  \* the running handler, and what it still has to do
    faults,    \* power cuts and failed writes so far
    known,     \* history: what the server was told of each slot
    orphaned   \* history: the connectors whose TxProfile has lost its transaction unseen

hist == <<known, orphaned>>
vars == <<clock, profile, file, tx, track, next, output, pc, work, faults, hist>>

-----------------------------------------------------------------------------

Connector == 1..N
Place == ({"max"} \X {0}) \cup ({"default"} \X (0..N)) \cup ({"tx"} \X Connector)
Slot == [place : Place, level : Level]

\* A transaction is "begun", then "running" from its StartTransaction on; "stopping" after the
\* connector let it go and before the server answered; "back" if a reset brought it back then.
Phase == {"none", "begun", "running", "stopping", "back"}
Tx == [phase : Phase, rmt : Nat \cup {-1}, start : Time, txId : Nat \cup {-1}]
NoTx == [phase |-> "none", rmt |-> -1, start |-> MinTime, txId |-> -1]
Held(c) == tx[c].phase \in {"begun", "running", "back"}

Track == [rmt : Nat \cup {-1}, start : Time, txId : Nat \cup {-1}]
NoTrack == [rmt |-> -1, start |-> MaxTime, txId |-> -1]

\* The profile as it comes back from its file: the minimum rate is written as "minChargeRate"
\* and looked for as "minChargingRate".
Loaded(p) == IF p = NoProfile THEN p ELSE [p EXCEPT !.min = -1]

\* The slots whose files are still to be written or removed, and the connector at which a
\* transaction is to begin then.
Work == [slots : SUBSET Slot, start : 0..N]
NoWork == [slots |-> {}, start |-> 0]

EmptyStacks == [s \in Place |-> [l \in Level |-> NoProfile]]
Installed(s, l) == profile[s][l] # NoProfile

Init ==
    /\ clock = 1
    /\ profile = EmptyStacks /\ file = EmptyStacks
    /\ tx = [c \in Connector |-> NoTx] /\ track = [c \in Connector |-> NoTrack]
    /\ next = [c \in 0..N |-> MinTime] /\ output = [c \in 0..N |-> NoLimit]
    /\ pc = "pass" /\ work = NoWork /\ faults = 0
    /\ known = EmptyStacks /\ orphaned = {}

-----------------------------------------------------------------------------
(* The limit of a connector, and of the charge point *)

\* The levels whose TxProfile is for the transaction of c: named by it, for any, or by its id.
Applicable(c) ==
    {l \in Level :
        LET p == profile[<<"tx", c>>][l] IN
        p # NoProfile => \/ track[c].rmt >= 0 /\ track[c].rmt = p.id
                         \/ p.tx < 0
                         \/ p.tx = track[c].txId}

\* The stacks in which the limit of the transaction is looked for, in this order; the default
\* profiles count only while a transaction is known to have started.
InSession(c) == track[c].start < MaxTime
TxPlaces(c) ==
    IF InSession(c) THEN << <<"tx", c>>, <<"default", c>>, <<"default", 0>> >> ELSE << <<"tx", c>> >>
LevelsOf(s) == IF s[1] = "tx" THEN Applicable(s[2]) ELSE Level

Answers(s, t, begin) == StackDefines(profile[s], LevelsOf(s), t, begin)
Limits(s, t, begin) == StackLimit(profile[s], LevelsOf(s), t, begin)

\* Place i of the search is reached if no earlier one defines a limit.
Reached(c, t, i) == \A j \in 1..(i - 1) : ~Answers(TxPlaces(c)[j], t, track[c].start)
TxLimit(c, t) ==
    LET Found == {i \in DOMAIN TxPlaces(c) : Answers(TxPlaces(c)[i], t, track[c].start)} IN
    IF Found = {} THEN NoLimit ELSE Limits(TxPlaces(c)[Least(Found)], t, track[c].start)

\* calculateLimit: the limit of the transaction under the limit of the charge point.
Limit(c, t) ==
    IF c = 0 THEN Limits(<<"max", 0>>, t, MinTime)
    ELSE RateMin(TxLimit(c, t), Limits(<<"max", 0>>, t, track[c].start))

\* nextChange on its way through the places that are reached, and the charge point's at last.
Through(s, t, begin, n) == StackNext(profile[s], LevelsOf(s), t, begin, n)
NextAt(c, t) ==
    IF c = 0 THEN Through(<<"max", 0>>, t, MinTime, MaxTime)
    ELSE LET begin == track[c].start
             step(i, n) == IF i \in DOMAIN TxPlaces(c) /\ Reached(c, t, i)
                           THEN Through(TxPlaces(c)[i], t, begin, n) ELSE n
         IN  Through(<<"max", 0>>, t, begin, step(3, step(2, step(1, MaxTime))))

\* getCompositeSchedule: the limits from now on, each until the next change, for a duration.
Composite(c, duration) ==
    LET begins[k \in 1..MaxPeriods] == IF k = 1 THEN clock ELSE NextAt(c, begins[k - 1])
        count == Cardinality({k \in 1..MaxPeriods : begins[k] < clock + duration})
    IN  [k \in 1..count |-> [at |-> begins[k], limit |-> Limit(c, begins[k])]]

-----------------------------------------------------------------------------
(* Installing and clearing profiles *)

\* Calls of the service come with a message, or from the application: between two passes.
Open == pc \in {"idle", "dirty"}

With(stacks, s, l, p) == [stacks EXCEPT ![s][l] = p]
Without(stacks, S) ==
    [s \in Place |-> [l \in Level |->
        IF [place |-> s, level |-> l] \in S THEN NoProfile ELSE stacks[s][l]]]

\* The installed profiles a filter matches: by id, or by connector, purpose and level, each of
\* which may be left out.
Matching(f) ==
    {x \in Slot :
        LET p == profile[x.place][x.level] IN
        /\ p # NoProfile
        /\ IF f.id >= 0 THEN p.id = f.id
           ELSE /\ f.connector \in {x.place[2], -1}
                /\ f.purpose \in {x.place[1], "any"}
                /\ f.level \in {x.level, -1}}
ById(id) == [id |-> id, connector |-> -1, purpose |-> "any", level |-> -1]
SameIdCommon(id) == {x \in Matching(ById(id)) : x.place[2] = 0}  \* mutant: not at the connectors
SameId(id) == Matching(ById(id))

\* Everything is computed again in the next pass.
NotifyAll == next' = [c \in 0..N |-> clock]

\* The history.  What the server was told of a slot is the profile it was last answered Accepted
\* for, unless it was removed on its own request or with its transaction; or Unsure, once
\* something else has happened to the slot.
Unsure == [id |-> -2]
KnownAs(id) == {x \in Slot : known[x.place][x.level].id = id}

\* An update with p is accepted for the slot x: the server takes the profiles with its slot and
\* its id for replaced.
Accept(x, p) ==
    known' = With(Without(known, KnownAs(p.id)), x.place, x.level, Loaded(p))

\* The profiles that were in the slots of S are removed, and the server is not told.
Lost(S) ==
    [s \in Place |-> [l \in Level |->
        IF [place |-> s, level |-> l] \in S /\ known[s][l] # NoProfile THEN Unsure
        ELSE known[s][l]]]

\* updateProfiles counts the charge point's own profiles once, and once more for each connector.
Common(stacks, s) == Cardinality({l \in Level : stacks[s][l] # NoProfile})
InstalledCount(stacks) ==
    (N + 1) * (Common(stacks, <<"max", 0>>) + Common(stacks, <<"default", 0>>))

\* setChargingProfile, up to the write of the file: the profile with the same id is removed, and
\* stays removed if there are too many.  Then, for a RemoteStart, a transaction begins at start.
Replace(s, p, start) ==
    LET cleared == Without(profile, SameId(p.id)) IN
    /\ file' = Without(file, SameId(p.id))
    /\ IF InstalledCount(cleared) < MaxInstalled
       THEN /\ profile' = With(cleared, s, p.level, p)
            /\ pc' = "store"
            /\ work' = [slots |-> {[place |-> s, level |-> p.level]}, start |-> start]
            /\ UNCHANGED known
       ELSE /\ profile' = cleared
            /\ known' = Lost(KnownAs(p.id))
            /\ pc' = "dirty" /\ UNCHANGED work
    /\ NotifyAll

\* SetChargingProfile: a TxProfile needs a running transaction, a maximum goes to connector 0.
SetChargingProfile(s, p) ==
    /\ Open
    /\ s[1] = p.purpose
    /\ p.purpose = "tx" => tx[s[2]].phase = "running"
    /\ Replace(s, p, 0)
    /\ UNCHANGED <<clock, tx, track, output, faults, orphaned>>

\* RemoteStartTransaction with a TxProfile, at a connector without a transaction.
RemoteStart(c, p) ==
    /\ Open
    /\ ~Held(c)
    /\ p.purpose = "tx"
    /\ Replace(<<"tx", c>>, p, c)
    /\ UNCHANGED <<clock, tx, track, output, faults, orphaned>>

\* The file is written and the update is accepted.  A RemoteStart goes on: the transaction notes
\* the profile, but its file does not yet; if it cannot begin, the profile stays all the same
\* and the answer is Rejected.
Store ==
    /\ pc = "store"
    /\ \E x \in work.slots :
        LET p == profile[x.place][x.level] IN
        /\ file' = With(file, x.place, x.level, p)
        /\ \/ /\ work.start # 0
              /\ tx' = [tx EXCEPT ![work.start] = [NoTx EXCEPT !.phase = "begun", !.rmt = p.id]]
              /\ Accept(x, p)
              /\ UNCHANGED orphaned
           \/ /\ work.start # 0
              /\ orphaned' = orphaned \cup {work.start}
              /\ known' = With(Lost(KnownAs(p.id)), x.place, x.level, Unsure)
              /\ UNCHANGED tx
           \/ work.start = 0 /\ Accept(x, p) /\ UNCHANGED <<tx, orphaned>>
    /\ pc' = "dirty" /\ work' = NoWork
    /\ UNCHANGED <<clock, profile, track, next, output, faults>>

\* The slots that the profile being stored is known to have had.
Replaced == UNION {KnownAs(profile[x.place][x.level].id) : x \in work.slots}

\* The file cannot be written: the profile is removed again, and so is the file that its slot
\* had.  The answer is Rejected, so the server still counts on what was there before.
StoreFails ==
    /\ pc = "store" /\ faults < MaxFaults
    /\ faults' = faults + 1
    /\ profile' = Without(profile, work.slots)
    /\ file' = Without(file, work.slots)
    /\ known' = Lost(work.slots \cup Replaced)
    /\ pc' = "dirty" /\ work' = NoWork
    /\ UNCHANGED <<clock, tx, track, next, output, orphaned>>

\* ClearChargingProfile: the profiles are removed one by one.
Clear(f) ==
    /\ Open
    /\ work' = [NoWork EXCEPT !.slots = Matching(f)]
    /\ pc' = "clear"
    /\ UNCHANGED <<clock, profile, file, tx, track, next, output, faults, hist>>

\* Mutant: the profile is cleared in RAM only.
ClearNextRam(x) ==
    /\ pc = "clear" /\ x \in work.slots
    /\ profile' = Without(profile, {x})
    /\ known' = Without(known, {x})
    /\ work' = [work EXCEPT !.slots = @ \ {x}]
    /\ UNCHANGED <<clock, file, tx, track, next, output, pc, faults, orphaned>>

ClearNext(x) ==
    /\ pc = "clear" /\ x \in work.slots
    /\ profile' = Without(profile, {x}) /\ file' = Without(file, {x})
    /\ known' = Without(known, {x})
    /\ work' = [work EXCEPT !.slots = @ \ {x}]
    /\ UNCHANGED <<clock, tx, track, next, output, pc, faults, orphaned>>

ClearEnd ==
    /\ pc = "clear" /\ work.slots = {}
    /\ pc' = "dirty"
    /\ NotifyAll
    /\ UNCHANGED <<clock, profile, file, tx, track, output, work, faults, hist>>

-----------------------------------------------------------------------------
(* The transactions, as far as the service looks at them *)

SetTx(c, t) == tx' = [tx EXCEPT ![c] = t]

\* A transaction without a profile of its own.
Begin(c) ==
    /\ Open /\ ~Held(c)
    /\ SetTx(c, [NoTx EXCEPT !.phase = "begun"])
    /\ pc' = "dirty"
    /\ UNCHANGED <<clock, profile, file, track, next, output, work, faults, hist>>

StartTx(c) ==
    /\ Open /\ tx[c].phase = "begun"
    /\ SetTx(c, [tx[c] EXCEPT !.phase = "running", !.start = clock])
    /\ pc' = "pass"
    /\ UNCHANGED <<clock, profile, file, track, next, output, work, faults, hist>>

StartConf(c, id) ==
    /\ Open /\ tx[c].phase \in {"running", "stopping", "back"} /\ tx[c].txId = -1
    /\ SetTx(c, [tx[c] EXCEPT !.txId = id])
    /\ pc' = "dirty"
    /\ UNCHANGED <<clock, profile, file, track, next, output, work, faults, hist>>

\* The connector lets its transaction go.
Abort(c) ==
    /\ Open /\ tx[c].phase = "begun"
    /\ SetTx(c, NoTx)
    /\ pc' = "pass"
    /\ orphaned' = IF track[c] = NoTrack THEN orphaned \cup {c} ELSE orphaned
    /\ UNCHANGED <<clock, profile, file, track, next, output, work, faults, known>>

StopTx(c) ==
    /\ Open /\ tx[c].phase = "running"
    /\ SetTx(c, [tx[c] EXCEPT !.phase = "stopping"])
    /\ pc' = "pass"
    /\ UNCHANGED <<clock, profile, file, track, next, output, work, faults, hist>>

StopConf(c) ==
    /\ Open /\ tx[c].phase \in {"stopping", "back"} /\ tx[c].txId # -1
    /\ SetTx(c, NoTx)
    /\ pc' = IF tx[c].phase = "back" THEN "pass" ELSE "dirty"
    /\ UNCHANGED <<clock, profile, file, track, next, output, work, faults, hist>>

\* FreeVend mode: the connector begins a transaction when a vehicle is plugged in, also in the
\* pass in which it let the one before go, unless that pass requested its stop.
StoppedNow(c) == tx[c].phase = "stopping" /\ track[c] # NoTrack
FreeVend(c) ==
    /\ FreeVending
    /\ pc \in {"idle", "dirty", "pass"} /\ ~Held(c)
    /\ ~StoppedNow(c)
    /\ SetTx(c, [NoTx EXCEPT !.phase = "begun"])
    /\ pc' = "pass"
    /\ orphaned' = IF track[c] # NoTrack THEN orphaned \cup {c} ELSE orphaned
    /\ UNCHANGED <<clock, profile, file, track, next, output, work, faults, known>>

-----------------------------------------------------------------------------
(* The service's turn *)

\* trackTransaction: what the service knows of the transaction after it looked.
Tracked(c) ==
    IF Held(c)
    THEN [rmt |-> tx[c].rmt,
          start |-> IF tx[c].start # MinTime THEN tx[c].start ELSE track[c].start,
          txId |-> IF tx[c].txId # -1 THEN tx[c].txId ELSE track[c].txId]
    ELSE NoTrack

\* Mutant: only a transaction that the server confirmed is seen to end.
GoneConfirmed(c) == ~Held(c) /\ track[c].txId # -1

\* The transaction has just ended: its profiles are removed.
Gone(c) == ~Held(c) /\ track[c] # NoTrack

OfTx(C) == {x \in Slot : x.place[1] = "tx" /\ x.place[2] \in C}

NotifyTracked ==
    next' = [c \in 0..N |-> IF c # 0 /\ Tracked(c) # track[c] THEN clock ELSE next[c]]

TrackTransactions ==
    LET ended == OfTx({c \in Connector : Gone(c)})
        dropped == {x \in ended : Installed(x.place, x.level)}
    IN
    /\ pc \in {"idle", "dirty", "pass"}
    /\ track' = [c \in Connector |-> Tracked(c)]
    /\ profile' = Without(profile, dropped) /\ file' = Without(file, dropped)
    /\ known' = Without(known, ended)
    /\ orphaned' = orphaned \ {c \in Connector : Gone(c)}
    /\ NotifyTracked
    /\ pc' = "limits"
    /\ UNCHANGED <<clock, tx, output, work, faults>>

\* The limits whose time has come are computed again.
Due(c) == clock >= next[c]
UpdateLimits ==
    /\ pc = "limits"
    /\ next' = [c \in 0..N |-> IF Due(c) THEN NextAt(c, clock) ELSE next[c]]
    /\ output' = [c \in 0..N |-> IF Due(c) THEN Limit(c, clock) ELSE output[c]]
    /\ pc' = "idle"
    /\ UNCHANGED <<clock, profile, file, tx, track, work, faults, hist>>

\* Time goes by, and a pass follows.
Tick ==
    /\ pc = "idle" /\ clock < LastTime
    /\ clock' = clock + 1
    /\ pc' = "pass"
    /\ UNCHANGED <<profile, file, tx, track, next, output, work, faults, hist>>

-----------------------------------------------------------------------------
(* Power faults *)

\* What is in RAM only is gone, also the profile id that a transaction noted when it began.
PowerCut ==
    /\ pc \in Cuts /\ faults < MaxFaults
    /\ faults' = faults + 1
    /\ profile' = EmptyStacks
    /\ track' = [c \in Connector |-> NoTrack]
    /\ next' = [c \in 0..N |-> MinTime] /\ output' = [c \in 0..N |-> NoLimit]
    /\ tx' = [c \in Connector |->
                 IF tx[c].phase = "begun" THEN [tx[c] EXCEPT !.rmt = -1] ELSE tx[c]]
    /\ pc' = "off" /\ work' = NoWork
    /\ orphaned' = orphaned \cup
                   {c \in Connector : tx[c].phase = "none" /\ pc \in {"store", "pass"}}
    /\ known' = IF pc = "store" THEN Lost(Replaced) ELSE known
    /\ UNCHANGED <<clock, file>>

\* loadProfiles goes through the purposes, the connectors and the levels, but not to the last
\* level; a profile beyond the limit counts as corrupt.
Loadable(s, l) == l < MaxLevel /\ file[s][l] # NoProfile

Before(s, l) ==
    Cardinality({k \in Level : Loadable(<<"max", 0>>, k) /\ (s = <<"max", 0>> => k < l)})
    + Cardinality({k \in Level : /\ Loadable(<<"default", 0>>, k)
                                 /\ s # <<"max", 0>>
                                 /\ s = <<"default", 0>> => k < l})
TooMany(s, l) == (N + 1) * Before(s, l) >= MaxInstalled

\* The files that a boot passes over, and those that it removes; nobody tells the server.
Skipped == {x \in Slot : x.level = MaxLevel /\ file[x.place][x.level] # NoProfile}
Refused == {x \in Slot : Loadable(x.place, x.level) /\ TooMany(x.place, x.level)}

Boot ==
    /\ pc = "off"
    /\ profile' = [s \in Place |-> [l \in Level |->
                      IF Loadable(s, l) /\ ~TooMany(s, l) THEN Loaded(file[s][l]) ELSE NoProfile]]
    /\ file' = Without(file, Refused)
    /\ known' = Lost(Skipped \cup Refused)
    /\ tx' = [c \in Connector |->
                 IF tx[c].phase = "stopping" THEN [tx[c] EXCEPT !.phase = "back"] ELSE tx[c]]
    /\ pc' = "pass"
    /\ UNCHANGED <<clock, track, next, output, work, faults, orphaned>>

Next ==
    \/ \E p \in Catalogue :
        \/ \E s \in Place : SetChargingProfile(s, p)
        \/ \E c \in Connector : RemoteStart(c, p)
    \/ \E f \in Filters : Clear(f)
    \/ \E x \in work.slots : ClearNext(x)
    \/ ClearEnd
    \/ Store
    \/ StoreFails
    \/ \E c \in Connector :
        \/ Begin(c)
        \/ StartTx(c)
        \/ \E id \in TxIds : StartConf(c, id)
        \/ Abort(c)
        \/ StopTx(c)
        \/ StopConf(c)
        \/ FreeVend(c)
    \/ TrackTransactions
    \/ UpdateLimits
    \/ Tick
    \/ PowerCut
    \/ Boot

Spec == Init /\ [][Next]_vars

-----------------------------------------------------------------------------
(* Properties *)

Stacks == [Place -> [Level -> Profile \cup {NoProfile}]]

TypeOK ==
    /\ clock \in Time
    /\ profile \in Stacks /\ file \in Stacks
    /\ tx \in [Connector -> Tx] /\ track \in [Connector -> Track]
    /\ next \in [0..N -> Time] /\ output \in [0..N -> ChargeRate]
    /\ pc \in {"idle", "dirty", "pass", "limits", "store", "clear", "off"} /\ work \in Work
    /\ faults \in Nat
    /\ known \in [Place -> [Level -> Profile \cup {NoProfile, Unsure}]]
    /\ orphaned \subseteq Connector

\* The profiles that the limit of c depends on.
Relevant(c) ==
    LET places == IF c = 0 THEN {<<"max", 0>>}
                  ELSE {<<"max", 0>>, <<"default", 0>>, <<"default", c>>, <<"tx", c>>}
    IN  {profile[s][l] : s \in places, l \in Level} \ {NoProfile}

\* Profiles whose every boundary the code looks at: no end of validity, the start of an absolute
\* schedule known and that of a recurring one not after its validity begins ...
Bounded(p) ==
    /\ p.to = MinTime
    /\ p.kind = "Absolute" => p.start # MinTime
    /\ Recurring(p) => p.start <= p.from
    /\ \A i \in DOMAIN p.periods : /\ p.duration > 0 => p.periods[i].at < p.duration
                                   /\ Recurring(p) => p.periods[i].at < Cycle(p)
\* ... and stacked only if each has one period, for the search of the period in force forgets the
\* boundaries found before it.
Plain(c) ==
    /\ \A p \in Relevant(c) : Bounded(p)
    /\ \/ \A p \in Relevant(c) : Len(p.periods) = 1 /\ p.periods[1].at = 0
       \/ Cardinality(Relevant(c)) = 1

\* The hardware always has the limit of the moment, for profiles that are plain: no boundary of
\* any of them passes, no profile is set, cleared, restored or given to a transaction, and no
\* transaction starts or ends without the limit being computed again.
LimitInForce == pc = "idle" => \A c \in 0..N : Plain(c) => output[c] = Limit(c, clock)

\* The next change is in the future, whenever it is asked for: the loop of the composite schedule
\* comes to an end, and no pass computes a limit that it has just computed.
ChangesLater ==
    pc = "idle" =>
        \A c \in 0..N : next[c] > clock /\ \A t \in clock..LastTime : NextAt(c, t) > t

\* The composite schedule agrees with the limits at every moment it covers, for plain profiles.
ScheduleExact ==
    pc = "idle" =>
        \A c \in 0..N :
            Plain(c) =>
                LET duration == LastTime - clock + 1
                    schedule == Composite(c, duration)
                    last(t) == CHOOSE k \in DOMAIN schedule :
                                  /\ schedule[k].at <= t
                                  /\ \A j \in DOMAIN schedule : schedule[j].at <= t => j <= k
                IN  Len(schedule) < MaxPeriods =>
                        \A t \in clock..(clock + duration - 1) :
                            schedule[last(t)].limit = Limit(c, t)

\* What is installed is what the server was told, whenever the service rests: over replacements
\* in the same slot and of the same id, clears, ends of transactions and power faults at any write.
\* Not so where it cannot know (Unsure), until it sets or clears the slot: an update that is
\* answered Rejected, or not answered because of a power cut, has removed the profile with the
\* same id, and in its slot, all the same; the profile of a RemoteStart stays though it is
\* rejected; a boot forgets the highest level and what is beyond the limit.
AsAccepted ==
    pc = "idle" =>
        \A s \in Place, l \in Level :
            known[s][l] \in {Unsure, Loaded(profile[s][l])}

\* A reset brings back what is installed, but for the minimum rates and the highest level.
FlashAgrees ==
    pc = "idle" =>
        \A s \in Place, l \in Level :
            l < MaxLevel \/ Installed(s, l) => Loaded(file[s][l]) = Loaded(profile[s][l])

\* No transaction begins with the TxProfile of an earlier one, but only with that of its own
\* RemoteStart, unless the service never looked between the end of the one and the begin of the
\* other, or never saw the one (`orphaned'): it did not begin, was aborted before the next pass,
\* the power was cut before it, or FreeVend mode began the next in the pass that let it go.
EndsWithTx ==
    [][\A c \in Connector, l \in Level :
          ~Held(c) /\ Held(c)' /\ Installed(<<"tx", c>>, l)
              => [place |-> <<"tx", c>>, level |-> l] \in work.slots \/ c \in orphaned']_vars

=============================================================================
