---------------------------- MODULE Reservations ----------------------------
(***************************************************************************)
(* Reservations: ReserveNow, CancelReservation, their expiry and the turn  *)
(* of the ReservationService in the main loop.                             *)
(***************************************************************************)
EXTENDS Connectors

ASSUME ReservationsAssumption == "reserve" \in Operations

VARIABLE
    moved   \* history: the connectors that were reserved by the id of a reservation that held

resvVars == <<slot, moved>>

\* The slot of a reservation that holds, by its id.
ById(id) == FirstOf({i \in Holding : slot[i].id = id})

Store(i, r) == slot' = [slot EXCEPT ![i] = r]
Unchanged == UNCHANGED <<pc, tasks, fault, plugged, avail, vol, tx, cur, rep, seen, minDuration>>

NewReservation(id, c, tag, parent) ==
    [id |-> id, at |-> c, tag |-> tag, parent |-> parent, late |-> FALSE]

\* ReserveNow with the id of a reservation that holds: it is replaced whatever the status.
Rebook(id, c, tag, parent) ==
    /\ Idle /\ Spend("reserve")
    /\ ById(id) # 0
    /\ Store(ById(id), NewReservation(id, c, tag, parent))
    /\ moved' = moved \cup {c}
    /\ Unchanged

\* A connector must be available, and no reservation may claim it.
Bookable(c) ==
    /\ StatusNow(0) = "Available"
    /\ c # 0 => StatusNow(c) = "Available"
    /\ Prevailing(c, None, None) = 0

Book(id, c, tag, parent) ==
    LET Free == 1..Slots \ Holding IN
    /\ Idle /\ Spend("reserve")
    /\ ById(id) = 0
    /\ Bookable(c)
    /\ Free # {}
    /\ Store(First(Free), NewReservation(id, c, tag, parent))
    /\ UNCHANGED moved
    /\ Unchanged

CancelReservation(id) ==
    /\ Idle /\ ById(id) # 0
    /\ Store(ById(id), NoReservation)
    /\ UNCHANGED <<moved, budget>>
    /\ Unchanged

Expire(i) ==
    /\ Idle /\ slot[i] # NoReservation /\ ~slot[i].late
    /\ slot' = [slot EXCEPT ![i].late = TRUE]
    /\ UNCHANGED <<moved, budget>>
    /\ Unchanged

\* A reservation is given up if its connector fails, serves a transaction, or its owner's has
\* been authorized anywhere.
Given(i) ==
    LET r == slot[i]
        authorized == {d \in Connector : Held(tx[d]) /\ tx[d].auth}
    IN  \/ StatusNow(r.at) \in {"Faulted", "Unavailable"}
        \/ r.at \in authorized
        \/ \E d \in authorized : tx[d].rid = r.id \/ tx[d].tag = r.tag

\* The turn of the service.
ReservationTurn ==
    slot' = [i \in 1..Slots |-> IF Holds(i) /\ Given(i) THEN NoReservation ELSE slot[i]]

=============================================================================
