----------------------------- MODULE Connectors -----------------------------
(***************************************************************************)
(* The connectors of the charge point: inputs, availability, transactions  *)
(* and the status that is reported to the server (Connector,               *)
(* ChangeAvailability), with the look-up of reservations that the status   *)
(* and the authorization depend on (ReservationService::getReservation).   *)
(*                                                                         *)
(* Connector 0 is the charge point as a whole.  One pass of the main loop  *)
(* serves the connectors and then the services in a fixed order; `pc' is   *)
(* the one whose turn is next.  Messages, inputs and calls of the          *)
(* application come between two passes ("idle").  The settings are the     *)
(* defaults: a transaction stops if the vehicle is unplugged or its tag is *)
(* not accepted, ReserveConnectorZeroSupported is set.                     *)
(***************************************************************************)
EXTENDS Integers, FiniteSets

CONSTANTS
    N,               \* connectors
    Tags,            \* id tags
    Parents,         \* parent id tags
    Slots,           \* number of reservations that can be held
    ReservationIds,  \* the ids the server gives them
    Operations       \* bound: the names of the operations that a budget limits

None == "none"
ASSUME ConnectorsAssumption ==
    /\ N \in Nat \ {0} /\ Slots \in Nat
    /\ None \notin Tags \cup Parents
    /\ ReservationIds \subseteq Nat
    /\ {"plug", "fault", "avail", "begin", "remote", "end"} \subseteq Operations

VARIABLES
    pc,        \* whose turn it is in the main loop, or "off"
    tasks,     \* RAM: the boot was accepted, the clock is set and the connectors are served
    fault, plugged,        \* inputs
    avail,     \* flash: availabilityBool
    vol,       \* RAM: availabilityVolatile
    tx,        \* the transactions, in RAM and in the journal
    cur, rep,  \* RAM: currentStatus, reportedStatus
    seen,      \* RAM: trackErrorDataInputs
    slot,      \* RAM and flash: the reservations
    minDuration,           \* configuration: MinimumStatusDuration > 0
    budget     \* bound: how often each operation may still happen

connVars == <<pc, tasks, fault, plugged, avail, vol, tx, cur, rep, seen, slot, minDuration, budget>>

Place == 0..N
Connector == 1..N
Tag == Tags \cup {None}
Parent == Parents \cup {None}

\* "stopping": the connector let the transaction go, the server has not answered its
\* StopTransaction yet; "back": such a transaction when a reset has brought it back.
\* parent (history): the parent tag that the local list, or the server since, gave for the card.
Phase == {"none", "begun", "running", "ending", "stopping", "back", "over"}
Tx == [phase : Phase, auth : BOOLEAN, denied : BOOLEAN, asked : BOOLEAN, blocked : BOOLEAN,
       card : BOOLEAN, tag : Tag, parent : Parent,
       rid : ReservationIds \cup {-1}, found : ReservationIds \cup {-1}]
NoTx == [phase |-> "none", auth |-> FALSE, denied |-> FALSE, asked |-> FALSE, blocked |-> FALSE,
         card |-> FALSE, tag |-> None, parent |-> None, rid |-> -1, found |-> -1]
Held(t) == t.phase \notin {"none", "stopping"}
Active(t) == t.phase \in {"begun", "running"}
Running(t) == t.phase \in {"running", "ending"}
Inactive(t) == IF t.phase = "begun" THEN [t EXCEPT !.phase = "over"]
               ELSE IF t.phase = "running" THEN [t EXCEPT !.phase = "ending"] ELSE t

Reservation == [id : ReservationIds, at : Place, tag : Tags, parent : Parent, late : BOOLEAN]
NoReservation == [id |-> -1]
Status == {"NotSet", "Available", "Preparing", "Charging", "SuspendedEV", "SuspendedEVSE",
           "Finishing", "Reserved", "Unavailable", "Faulted"}

\* Bounds: what a behaviour may contain.
Spend(op) == budget[op] > 0 /\ budget' = [budget EXCEPT ![op] = @ - 1]
Idle == pc = "idle"

-----------------------------------------------------------------------------
(* Reservations *)

\* The expiry date counts as soon as the clock is set.
Holds(i) == slot[i] # NoReservation /\ ~(slot[i].late /\ tasks)
Holding == {i \in 1..Slots : Holds(i)}
First(S) == CHOOSE i \in S : \A j \in S : i <= j
Last(S) == CHOOSE i \in S : \A j \in S : j <= i
FirstOf(S) == IF S = {} THEN 0 ELSE First(S)
LastOf(S) == IF S = {} THEN 0 ELSE Last(S)

Matches(i, tag, parent) ==
    \/ tag = None /\ parent = None
    \/ tag # None /\ tag = slot[i].tag
    \/ parent # None /\ parent = slot[i].parent

\* getReservation(connectorId): connector 0 is never reserved as such.
ReservedAt(c) == IF c = 0 THEN 0 ELSE FirstOf({i \in Holding : slot[i].at = c})

\* getReservation(idTag, parentIdTag): the first at connector 0, otherwise the last.
ReservedFor(tag, parent) ==
    LET M == {i \in Holding : Matches(i, tag, parent)}
        Zero == {i \in M : slot[i].at = 0}
    IN  IF Zero # {} THEN First(Zero) ELSE LastOf(M)

-----------------------------------------------------------------------------
(* Status *)

\* isOperative, if the transactions are t: a running transaction keeps its connector operative,
\* and any keeps the charge point so.
Operative(c, t) ==
    /\ ~fault[c]
    /\ tasks
    /\ \/ \E d \in Connector : (c = 0 \/ c = d) /\ Running(t[d])
       \/ vol[c] /\ avail[c]

\* getStatus; what is neither free nor in a transaction is Finishing if it was charging before.
StatusOf(c, t) ==
    IF fault[c] THEN "Faulted"
    ELSE IF ~Operative(c, t) THEN "Unavailable"
    ELSE IF c = 0 THEN "Available"
    ELSE IF Running(t[c])
    THEN IF ~plugged[c] THEN "SuspendedEV"
         ELSE IF t[c].phase = "ending" THEN "SuspendedEVSE" ELSE "Charging"
    ELSE IF ReservedAt(c) # 0 THEN "Reserved"
    ELSE IF ~Active(t[c]) /\ ~plugged[c] THEN "Available"
    ELSE IF cur[c] \in {"Finishing", "Charging", "SuspendedEV", "SuspendedEVSE"} THEN "Finishing"
    ELSE "Preparing"

StatusNow(c) == StatusOf(c, tx)

\* getReservation(connectorId, idTag, parentIdTag): the reservation at c, else one for the tag,
\* else, if the other connectors do not suffice for those at connector 0, the last of these.
AtZero == {i \in Holding : slot[i].at = 0}
FreeBut(c) == {d \in Connector \ {c} : StatusNow(d) = "Available"}
Prevailing(c, tag, parent) ==
    IF ReservedAt(c) # 0 THEN ReservedAt(c)
    ELSE IF tag # None /\ ReservedFor(tag, parent) # 0 THEN ReservedFor(tag, parent)
    ELSE IF Cardinality(FreeBut(c)) >= Cardinality(AtZero) THEN 0
    ELSE LastOf(AtZero)

-----------------------------------------------------------------------------
(* Inputs and messages *)

Plug(c) ==
    /\ Idle /\ Spend("plug")
    /\ plugged' = [plugged EXCEPT ![c] = ~@]
    /\ UNCHANGED <<pc, tasks, fault, avail, vol, tx, cur, rep, seen, slot, minDuration>>

Fault(c) ==
    /\ Idle /\ Spend("fault")
    /\ fault' = [fault EXCEPT ![c] = ~@]
    /\ UNCHANGED <<pc, tasks, plugged, avail, vol, tx, cur, rep, seen, slot, minDuration>>

ChangeAvailability(c, available) ==
    /\ Idle /\ Spend("avail")
    /\ avail' = [d \in Place |-> IF c = 0 \/ c = d THEN available ELSE avail[d]]
    /\ UNCHANGED <<pc, tasks, fault, plugged, vol, tx, cur, rep, seen, slot, minDuration>>

-----------------------------------------------------------------------------
(* Transactions *)

SetTx(c, t) ==
    /\ tx' = [tx EXCEPT ![c] = t]
    /\ UNCHANGED <<pc, tasks, fault, plugged, avail, vol, cur, rep, seen, slot, minDuration>>

RidOf(i) == IF i = 0 THEN -1 ELSE slot[i].id

\* beginTransaction with a card: with a parent tag from the local list the reservation of another
\* refuses it, otherwise it only keeps it from being authorized offline.
BeginTransaction(c, tag, parent, preauthorized) ==
    LET r == Prevailing(c, tag, parent)
        foreign == r # 0 /\ ~Matches(r, tag, parent)
    IN  /\ Idle /\ Spend("begin")
        /\ ~Held(tx[c])
        /\ foreign => parent = None /\ ~preauthorized
        /\ SetTx(c, [NoTx EXCEPT !.phase = "begun", !.auth = preauthorized, !.asked = TRUE,
                                 !.blocked = foreign, !.card = TRUE, !.tag = tag, !.parent = parent,
                                 !.rid = IF preauthorized THEN RidOf(r) ELSE -1, !.found = RidOf(r)])

\* beginTransaction_authorized, as RemoteStartTransaction calls it.
RemoteStart(c, tag) ==
    LET r == Prevailing(c, tag, None) IN
    /\ Idle /\ Spend("remote")
    /\ ~Held(tx[c]) /\ Operative(c, tx)
    /\ SetTx(c, [NoTx EXCEPT !.phase = "begun", !.auth = TRUE, !.tag = tag,
                             !.rid = IF r # 0 /\ Matches(r, tag, None) THEN slot[r].id ELSE -1])

\* The answer to Authorize, or its timeout; what the request's handlers captured is gone.
Answered(c) == [tx[c] EXCEPT !.asked = FALSE, !.blocked = FALSE, !.found = -1]

AuthRejected(c) ==
    /\ Idle /\ tx[c].asked
    /\ SetTx(c, [Answered(c) EXCEPT !.denied = TRUE])
    /\ UNCHANGED budget

AuthAccepted(c, parent) ==
    LET r == Prevailing(c, tx[c].tag, parent)
        t == [Answered(c) EXCEPT !.parent = parent]
    IN  /\ Idle /\ tx[c].asked
        /\ SetTx(c, IF r = 0 THEN [t EXCEPT !.auth = TRUE]
                    ELSE IF Matches(r, t.tag, parent)
                    THEN [t EXCEPT !.auth = TRUE, !.rid = slot[r].id]
                    ELSE Inactive(t))
        /\ UNCHANGED budget

\* Mutant: what beginTransaction found is not remembered.
AuthTimeoutUnblocked(c, allowed) ==
    /\ Idle /\ tx[c].asked
    /\ SetTx(c, IF allowed THEN [Answered(c) EXCEPT !.auth = TRUE, !.rid = tx[c].found]
                ELSE Inactive(Answered(c)))
    /\ UNCHANGED budget

\* No answer: the transaction is authorized offline, if the settings allow it and it is not blocked.
AuthTimeout(c, allowed) ==
    /\ Idle /\ tx[c].asked
    /\ SetTx(c, IF allowed /\ ~tx[c].blocked
                THEN [Answered(c) EXCEPT !.auth = TRUE, !.rid = tx[c].found]
                ELSE Inactive(Answered(c)))
    /\ UNCHANGED budget

EndTransaction(c) ==
    /\ Idle /\ Spend("end")
    /\ Active(tx[c])
    /\ SetTx(c, Inactive(tx[c]))

\* The answer to StopTransaction.
StopConf(c) ==
    /\ Idle /\ tx[c].phase \in {"stopping", "back"}
    /\ SetTx(c, IF tx[c].phase = "back" THEN [tx[c] EXCEPT !.phase = "over"] ELSE NoTx)
    /\ UNCHANGED budget

-----------------------------------------------------------------------------
(* Connector::loop *)

\* A transaction that is over is collected ...
Collected(c) == IF tx[c].phase = "over" THEN NoTx ELSE tx[c]

\* ... one that must not go on is made inactive (late: the connection timeout is over) ...
Checked(c, late) ==
    LET t == Collected(c)
        gone == Active(t) /\ ~plugged[c] /\ (t.phase = "running" \/ late)
    IN  IF gone \/ (Active(t) /\ t.denied) THEN Inactive(t) ELSE t

\* Mutant: a transaction starts at any connector that is free of faults.
MayStartFaultless(c, t) == t.phase = "begun" /\ t.auth /\ plugged[c] /\ ~fault[c]

MayStart(c, t) == t.phase = "begun" /\ t.auth /\ plugged[c] /\ Operative(c, tx)

\* ... and then it starts or stops, which ends the turn of the connector.
Served(c, late) ==
    LET t == Checked(c, late) IN
    IF MayStart(c, t) THEN [t EXCEPT !.phase = "running"]
    ELSE IF t.phase = "ending" THEN [t EXCEPT !.phase = "stopping"] ELSE t
Returns(c, late) ==
    c # 0 /\ LET t == Checked(c, late) IN MayStart(c, t) \/ t.phase = "ending"

\* Mutant: the status is reported only in the moment it changes.
ReportsChange(c, s, lasted) == s # cur[c] /\ (~minDuration \/ lasted)

\* The status is reported once it has lasted.
Reports(c, s, lasted) == ~minDuration \/ (s = cur[c] /\ lasted)

\* The turn of the connectors; lates: the connection timeout is over, lasting: the status has
\* lasted for the minimum duration.
Connectors(lates, lasting) ==
    LET late(c) == c \in lates
        t == [c \in Connector |-> Served(c, late(c))]
        \* the charge point comes first, and sees the transactions as they were
        s == [c \in Place |-> IF c = 0 THEN StatusOf(0, tx) ELSE StatusOf(c, t)]
        quiet(c) == ~Returns(c, late(c))
        error(c) == fault[c] /\ ~seen[c]
    IN  /\ pc \in {"idle", "connectors"} /\ tasks
        /\ tx' = t
        /\ seen' = [c \in Place |-> IF quiet(c) THEN fault[c] ELSE seen[c]]
        /\ cur' = [c \in Place |-> IF quiet(c) THEN s[c] ELSE cur[c]]
        /\ rep' = [c \in Place |-> IF quiet(c) /\ (error(c) \/ Reports(c, s[c], c \in lasting)) THEN s[c] ELSE rep[c]]
        /\ pc' = "maintenance"
        /\ UNCHANGED <<tasks, fault, plugged, avail, vol, slot, minDuration, budget>>

=============================================================================
