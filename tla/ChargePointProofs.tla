-------------------------- MODULE ChargePointProofs --------------------------
(***************************************************************************)
(* The charge point, for every number of connectors and reservations and   *)
(* every application: its types, that nothing charges while a reset is     *)
(* due, that reservations keep other cards out, and that a failing update  *)
(* is reported.                                                            *)
(***************************************************************************)
EXTENDS ChargePoint, FunctionTheorems, WellFoundedInduction, TLAPS

-----------------------------------------------------------------------------
(* The inductive invariants *)

\* A transaction that was begun with a card has the tag of the card.
CardTag == \A c \in Connector : tx[c].card => tx[c].tag \in Tags
TypeInv == TypeOK /\ CardTag

\* As long as a reset is due, no transaction is running and none can start: the connectors are
\* without their volatile availability.
Quiet == left > 0 => \A c \in Connector : ~vol[c] /\ tx[c].phase # "running"

\* The reservation in slot i is at c and has not expired; whether somebody's card may use it.
Claims(i, c) == slot[i] # NoReservation /\ slot[i].at = c /\ ~slot[i].late
Suits(i, t) ==
    \/ t.tag = slot[i].tag
    \/ slot[i].parent # None /\ t.parent = slot[i].parent

\* Unless ReserveNow has moved a reservation there, a connector is reserved again only after the
\* reservation in a later slot has expired, so that the first one is the one that counts.
FirstCounts ==
    \A c \in Connector \ moved, i, j \in 1..Slots :
        j < i /\ Claims(i, c) => ~(slot[j] # NoReservation /\ slot[j].at = c)

\* A card that is authorized at c, or will be if the server does not answer.
Cleared(t) == Active(t) /\ t.card /\ (t.auth \/ (t.asked /\ ~t.blocked))
ClearedSuit ==
    \A c \in Connector \ moved, i \in 1..Slots :
        Claims(i, c) /\ Cleared(tx[c]) => Suits(i, tx[c])

\* The stage of an update and what FirmwareService knows of its jobs; before the first stage
\* there was a turn in which a new build was reported.  If the last status that an attempt noted
\* is a failure, then a message of this attempt told it.
Failures == {"DownloadFailed", "InstallationFailed"}
StageFlags ==
    /\ fw.stage \in {"Idle", "AwaitDownload", "Downloading", "AfterDownload"} => ~fw.install
    /\ fw.stage = "Idle" => ~fw.download
    /\ fw.stage \in {"AwaitDownload", "Downloading"} => fw.download
    /\ fw.stage \in {"AwaitInstallation", "Installing"} => fw.install
    /\ fw.stage # "Idle" => fw.checked
    /\ fw.stage # "Idle" /\ fw.reported \in Failures => fw.reported \in told

-----------------------------------------------------------------------------
(* Choosing a slot *)

\* A set of slots has a first one and a last one.
LEMMA FirstIn ==
    ASSUME NEW S, S \subseteq Nat, S # {}
    PROVE  First(S) \in S /\ \A k \in S : First(S) <= k
<1> DEFINE R == OpToRel(<, Nat)
<1>1. \E m \in S : \A k \in S : ~(<<k, m>> \in R)
  BY NatLessThanWellFounded, WFMin
<1>2. \A k, m \in S : <<k, m>> \in R <=> k < m
  BY DEF OpToRel
<1>3. \E m \in S : \A k \in S : ~(k < m)
  BY <1>1, <1>2, Zenon
<1>4. \A k, m \in S : ~(k < m) => m <= k
  OBVIOUS
<1>5. \E m \in S : \A k \in S : m <= k
  BY <1>3, <1>4, Zenon
<1> QED
  BY <1>5, Zenon DEF First

LEMMA LastIn ==
    ASSUME NEW S, S \subseteq 1..Slots, S # {}
    PROVE  Last(S) \in S
<1> DEFINE D == {Slots - i : i \in S}
<1>0. Slots \in Nat
  BY ConnectorsAssumption
<1>1. D \subseteq Nat /\ D # {}
  <2>1. \A i \in S : Slots - i \in Nat
    BY <1>0
  <2> QED
    BY <2>1
<1>2. PICK d \in D : \A k \in D : d <= k
  BY <1>1, FirstIn
<1>3. PICK m \in S : d = Slots - m
  BY <1>2
<1>4. \A k \in S : Slots - k \in D
  OBVIOUS
<1>5. \A k \in S : k <= m
  BY <1>0, <1>2, <1>3, <1>4
<1> QED
  BY <1>5, Zenon DEF Last

LEMMA PickedSlot ==
    ASSUME NEW S, S \subseteq 1..Slots
    PROVE  FirstOf(S) \in S \cup {0} /\ LastOf(S) \in S \cup {0}
<1>1. S \subseteq Nat
  BY ConnectorsAssumption
<1> QED
  BY <1>1, FirstIn, LastIn DEF FirstOf, LastOf

\* The reservation that prevails at a connector, for a tag, is one of those that are stored.
LEMMA PrevailingSlot ==
    ASSUME NEW c, NEW tag, NEW parent
    PROVE  /\ ReservedAt(c) \in 0..Slots
           /\ Prevailing(c, tag, parent) \in 0..Slots
<1>0. \A S : S \subseteq 1..Slots => S \cup {0} \subseteq 0..Slots
  BY ConnectorsAssumption
<1>1. ReservedAt(c) \in 0..Slots
  <2> DEFINE S == {i \in Holding : slot[i].at = c}
  <2>1. S \subseteq 1..Slots
    BY DEF Holding
  <2>2. FirstOf(S) \in 0..Slots
    <3> HIDE DEF S
    <3> QED
      BY <1>0, <2>1, PickedSlot
  <2>3. 0 \in 0..Slots
    BY ConnectorsAssumption
  <2> QED
    BY <2>2, <2>3 DEF ReservedAt
<1>2. ReservedFor(tag, parent) \in 0..Slots
  <2> DEFINE M == {i \in Holding : Matches(i, tag, parent)}
             Zero == {i \in M : slot[i].at = 0}
  <2>1. M \subseteq 1..Slots /\ Zero \subseteq 1..Slots
    BY DEF Holding
  <2>2. LastOf(M) \in 0..Slots
    <3> HIDE DEF M
    <3> QED
      BY <1>0, <2>1, PickedSlot
  <2>3. Zero # {} => First(Zero) \in 0..Slots
    <3>1. Zero \subseteq Nat
      BY <2>1, ConnectorsAssumption
    <3>2. Zero \subseteq 0..Slots
      BY <2>1
    <3> HIDE DEF Zero
    <3> QED
      BY <3>1, <3>2, FirstIn
  <2> QED
    BY <2>2, <2>3 DEF ReservedFor
<1>3. LastOf(AtZero) \in 0..Slots
  <2>1. AtZero \subseteq 1..Slots
    BY DEF AtZero, Holding
  <2> QED
    BY <1>0, <2>1, PickedSlot
<1>4. 0 \in 0..Slots
  BY ConnectorsAssumption
<1> QED
  BY <1>1, <1>2, <1>3, <1>4 DEF Prevailing

\* The id a transaction takes from a reservation.
LEMMA RidType ==
    ASSUME TypeOK, NEW r \in 0..Slots
    PROVE  /\ RidOf(r) \in ReservationIds \cup {-1}
           /\ r # 0 => slot[r].id \in ReservationIds \cup {-1}
<1>1. r # 0 => r \in 1..Slots
  BY ConnectorsAssumption
<1>2. r # 0 => slot[r] \in Reservation \cup {NoReservation}
  BY <1>1 DEF TypeOK
<1>3. r # 0 => slot[r].id \in ReservationIds \cup {-1}
  BY <1>2 DEF Reservation, NoReservation
<1> QED
  BY <1>3 DEF RidOf

-----------------------------------------------------------------------------
(* Types *)

LEMMA SpendType ==
    ASSUME TypeOK, NEW op \in Operations, Spend(op)
    PROVE  budget' \in [Operations -> Nat]
<1>1. budget[op] \in Nat /\ budget[op] > 0
  BY DEF TypeOK, Spend
<1>2. budget[op] - 1 \in Nat
  BY <1>1
<1> QED
  BY <1>2 DEF TypeOK, Spend

\* A step of one transaction, if its new value is one.
LEMMA SetTxType ==
    ASSUME TypeInv, NEW c \in Connector, NEW t \in Tx, t.card => t.tag \in Tags,
           SetTx(c, t), budget' \in [Operations -> Nat], UNCHANGED <<moved, maintVars, failures>>
    PROVE  TypeInv'
<1>1. tx' \in [Connector -> Tx]
  BY DEF TypeInv, TypeOK, SetTx
<1>2. CardTag'
  BY DEF TypeInv, TypeOK, CardTag, SetTx
<1> QED
  BY <1>1, <1>2 DEF TypeInv, TypeOK, SetTx, maintVars

\* What the code makes of a transaction is one.
LEMMA TxTypes ==
    /\ NoTx \in Tx /\ ~NoTx.card
    /\ \A t \in Tx : /\ Inactive(t) \in Tx
                     /\ Inactive(t).card = t.card /\ Inactive(t).tag = t.tag
    /\ \A t \in Tx, p \in Phase : [t EXCEPT !.phase = p] \in Tx
BY DEF NoTx, Tx, Inactive, Phase, Tag, Parent

LEMMA AnsweredType ==
    ASSUME TypeInv, NEW c \in Connector
    PROVE  /\ Answered(c) \in Tx
           /\ Answered(c).card => Answered(c).tag \in Tags
           /\ Answered(c).phase = tx[c].phase
<1>1. tx[c] \in Tx /\ (tx[c].card => tx[c].tag \in Tags)
  BY DEF TypeInv, TypeOK, CardTag
<1> QED
  BY <1>1 DEF Answered, Tx

\* The transaction with the parent tag that the server's answer gives.
Accepted(c, parent) == [Answered(c) EXCEPT !.parent = parent]
LEMMA AcceptedType ==
    ASSUME TypeInv, NEW c \in Connector, NEW parent \in Parent
    PROVE  /\ Accepted(c, parent) \in Tx /\ Accepted(c, parent).parent = parent
           /\ Accepted(c, parent).card = Answered(c).card
           /\ Accepted(c, parent).tag = Answered(c).tag
           /\ Accepted(c, parent).phase = Answered(c).phase
BY AnsweredType DEF Accepted, Tx

\* The connectors' turn.
LEMMA ServedType ==
    ASSUME TypeInv, NEW c \in Connector, NEW late \in BOOLEAN
    PROVE  /\ Served(c, late) \in Tx
           /\ Served(c, late).card => Served(c, late).tag \in Tags
<1>1. tx[c] \in Tx /\ (tx[c].card => tx[c].tag \in Tags)
  BY DEF TypeInv, TypeOK, CardTag
<1>2. Collected(c) \in Tx /\ (Collected(c).card => Collected(c).tag \in Tags)
  BY <1>1, TxTypes DEF Collected
<1>3. Checked(c, late) \in Tx /\ (Checked(c, late).card => Checked(c, late).tag \in Tags)
  BY <1>2, TxTypes DEF Checked
<1>4. "running" \in Phase /\ "stopping" \in Phase
  BY DEF Phase
<1> DEFINE t == Checked(c, late)
<1>5. \A p \in Phase : [t EXCEPT !.phase = p] \in Tx
                       /\ [t EXCEPT !.phase = p].card = t.card
                       /\ [t EXCEPT !.phase = p].tag = t.tag
  BY <1>3, TxTypes DEF Tx
<1> HIDE DEF t
<1>6. t \in Tx /\ (t.card => t.tag \in Tags)
  BY <1>3 DEF t
<1>7. Served(c, late) = IF MayStart(c, t) THEN [t EXCEPT !.phase = "running"]
                        ELSE IF t.phase = "ending" THEN [t EXCEPT !.phase = "stopping"] ELSE t
  BY DEF Served, t
<1> QED
  BY <1>4, <1>5, <1>6, <1>7

LEMMA StatusType ==
    ASSUME NEW c, NEW t
    PROVE  StatusOf(c, t) \in Status
BY DEF StatusOf, Status

\* The answers to the requests of the connectors.
LEMMA AnswersType ==
    ASSUME TypeInv, ServerAnswers, UNCHANGED failures
    PROVE  TypeInv'
<1>1. budget' \in [Operations -> Nat]
  BY DEF ServerAnswers, AuthRejected, AuthAccepted, AuthTimeout, StopConf, TypeInv, TypeOK
<1>2. ASSUME NEW c \in Connector, AuthRejected(c)
      PROVE  TypeInv'
  <2>1. /\ [Answered(c) EXCEPT !.denied = TRUE] \in Tx
        /\ [Answered(c) EXCEPT !.denied = TRUE].card
              => [Answered(c) EXCEPT !.denied = TRUE].tag \in Tags
    BY AnsweredType DEF Tx
  <2> QED
    BY <1>1, <1>2, <2>1, SetTxType DEF AuthRejected, ServerAnswers
<1>3. ASSUME NEW c \in Connector, NEW parent \in Parent, AuthAccepted(c, parent)
      PROVE  TypeInv'
  <2> DEFINE r == Prevailing(c, tx[c].tag, parent)
             t == Accepted(c, parent)
             new == IF r = 0 THEN [t EXCEPT !.auth = TRUE]
                    ELSE IF Matches(r, t.tag, parent)
                    THEN [t EXCEPT !.auth = TRUE, !.rid = slot[r].id]
                    ELSE Inactive(t)
  <2>1. r # 0 => slot[r].id \in ReservationIds \cup {-1}
    BY PrevailingSlot, RidType DEF TypeInv
  <2>2. t \in Tx /\ (t.card => t.tag \in Tags)
    BY AnsweredType, AcceptedType
  <2>3. SetTx(c, new)
    BY <1>3 DEF AuthAccepted, Accepted
  <2> HIDE DEF r, t
  <2>4. new \in Tx /\ (new.card => new.tag \in Tags)
    <3>1. [t EXCEPT !.auth = TRUE] \in Tx /\ [t EXCEPT !.auth = TRUE].card = t.card
          /\ [t EXCEPT !.auth = TRUE].tag = t.tag
      BY <2>2 DEF Tx
    <3>2. \A id \in ReservationIds \cup {-1} :
             /\ [t EXCEPT !.auth = TRUE, !.rid = id] \in Tx
             /\ [t EXCEPT !.auth = TRUE, !.rid = id].card = t.card
             /\ [t EXCEPT !.auth = TRUE, !.rid = id].tag = t.tag
      BY <2>2 DEF Tx
    <3> QED
      BY <2>1, <2>2, <3>1, <3>2, TxTypes
  <2> HIDE DEF new
  <2> QED
    BY <1>1, <2>3, <2>4, SetTxType DEF ServerAnswers
<1>4. ASSUME NEW c \in Connector, NEW allowed \in BOOLEAN, AuthTimeout(c, allowed)
      PROVE  TypeInv'
  <2> DEFINE t == Answered(c)
             new == IF allowed /\ ~tx[c].blocked
                    THEN [t EXCEPT !.auth = TRUE, !.rid = tx[c].found] ELSE Inactive(t)
  <2>1. tx[c].found \in ReservationIds \cup {-1}
    BY DEF TypeInv, TypeOK, Tx
  <2>2. t \in Tx /\ (t.card => t.tag \in Tags)
    BY AnsweredType
  <2>3. SetTx(c, new)
    BY <1>4 DEF AuthTimeout
  <2> HIDE DEF t
  <2>4. new \in Tx /\ (new.card => new.tag \in Tags)
    <3>1. \A id \in ReservationIds \cup {-1} :
             /\ [t EXCEPT !.auth = TRUE, !.rid = id] \in Tx
             /\ [t EXCEPT !.auth = TRUE, !.rid = id].card = t.card
             /\ [t EXCEPT !.auth = TRUE, !.rid = id].tag = t.tag
      BY <2>2 DEF Tx
    <3> QED
      BY <2>1, <2>2, <3>1, TxTypes
  <2> HIDE DEF new
  <2> QED
    BY <1>1, <2>3, <2>4, SetTxType DEF ServerAnswers
<1>5. ASSUME NEW c \in Connector, StopConf(c)
      PROVE  TypeInv'
  <2>1. tx[c] \in Tx /\ (tx[c].card => tx[c].tag \in Tags)
    BY DEF TypeInv, TypeOK, CardTag
  <2>2. /\ [tx[c] EXCEPT !.phase = "over"] \in Tx
        /\ [tx[c] EXCEPT !.phase = "over"].card = tx[c].card
        /\ [tx[c] EXCEPT !.phase = "over"].tag = tx[c].tag
    BY <2>1 DEF Tx, Phase
  <2>3. SetTx(c, [tx[c] EXCEPT !.phase = "over"]) \/ SetTx(c, NoTx)
    BY <1>5 DEF StopConf
  <2> QED
    BY <1>1, <2>1, <2>2, <2>3, TxTypes, SetTxType DEF ServerAnswers
<1> QED
  BY <1>2, <1>3, <1>4, <1>5 DEF ServerAnswers

\* Drivers, plugs and faults.
LEMMA UserType ==
    ASSUME TypeInv, UserActs, UNCHANGED failures
    PROVE  TypeInv'
<1>0. {"plug", "fault", "begin", "end"} \subseteq Operations
  BY ConnectorsAssumption
<1>1. ASSUME NEW c \in Connector, Plug(c)
      PROVE  TypeInv'
  <2>1. budget' \in [Operations -> Nat]
    BY <1>0, <1>1, SpendType DEF Plug, TypeInv
  <2>2. plugged' \in [Place -> BOOLEAN]
    BY <1>1 DEF Plug, TypeInv, TypeOK
  <2> QED
    BY <1>1, <2>1, <2>2 DEF Plug, UserActs, maintVars, TypeInv, TypeOK, CardTag
<1>2. ASSUME NEW c \in Place, Fault(c)
      PROVE  TypeInv'
  <2>1. budget' \in [Operations -> Nat]
    BY <1>0, <1>2, SpendType DEF Fault, TypeInv
  <2>2. fault' \in [Place -> BOOLEAN]
    BY <1>2 DEF Fault, TypeInv, TypeOK
  <2> QED
    BY <1>2, <2>1, <2>2 DEF Fault, UserActs, maintVars, TypeInv, TypeOK, CardTag
<1>3. ASSUME NEW c \in Connector, EndTransaction(c)
      PROVE  TypeInv'
  <2>1. budget' \in [Operations -> Nat]
    BY <1>0, <1>3, SpendType DEF EndTransaction, TypeInv
  <2>2. tx[c] \in Tx /\ (tx[c].card => tx[c].tag \in Tags)
    BY DEF TypeInv, TypeOK, CardTag
  <2>3. Inactive(tx[c]) \in Tx /\ (Inactive(tx[c]).card => Inactive(tx[c]).tag \in Tags)
    BY <2>2, TxTypes
  <2> QED
    BY <1>3, <2>1, <2>3, SetTxType DEF EndTransaction, UserActs
<1>4. ASSUME NEW c \in Connector, NEW tag \in Tags, NEW parent \in Parent,
             NEW preauthorized \in BOOLEAN, BeginTransaction(c, tag, parent, preauthorized)
      PROVE  TypeInv'
  <2> DEFINE r == Prevailing(c, tag, parent)
             foreign == r # 0 /\ ~Matches(r, tag, parent)
             rid == IF preauthorized THEN RidOf(r) ELSE -1
             new == [NoTx EXCEPT !.phase = "begun", !.auth = preauthorized, !.asked = TRUE,
                                 !.blocked = foreign, !.card = TRUE, !.tag = tag, !.parent = parent,
                                 !.rid = rid, !.found = RidOf(r)]
  <2>1. budget' \in [Operations -> Nat]
    BY <1>0, <1>4, SpendType DEF BeginTransaction, TypeInv
  <2>2. RidOf(r) \in ReservationIds \cup {-1} /\ rid \in ReservationIds \cup {-1}
    BY PrevailingSlot, RidType DEF TypeInv
  <2>3. SetTx(c, new)
    BY <1>4 DEF BeginTransaction
  <2>4. foreign \in BOOLEAN
    OBVIOUS
  <2>5. \A f \in BOOLEAN, id, found \in ReservationIds \cup {-1} :
           [NoTx EXCEPT !.phase = "begun", !.auth = preauthorized, !.asked = TRUE, !.blocked = f,
                        !.card = TRUE, !.tag = tag, !.parent = parent, !.rid = id, !.found = found]
              \in {t \in Tx : t.tag \in Tags}
    BY DEF NoTx, Tx, Phase, Tag, Parent
  <2>6. new \in {t \in Tx : t.tag \in Tags}
    <3> HIDE DEF r, foreign, rid
    <3> QED
      BY <2>2, <2>4, <2>5, Zenon
  <2> HIDE DEF new
  <2> QED
    BY <2>1, <2>3, <2>6, SetTxType DEF UserActs
<1> QED
  BY <1>1, <1>2, <1>3, <1>4 DEF UserActs

LEMMA RemoteType ==
    ASSUME TypeInv, NEW c \in Connector, NEW tag \in Tags, RemoteStart(c, tag),
           UNCHANGED <<moved, maintVars, failures>>
    PROVE  TypeInv'
<1> DEFINE r == Prevailing(c, tag, None)
           rid == IF r # 0 /\ Matches(r, tag, None) THEN slot[r].id ELSE -1
           new == [NoTx EXCEPT !.phase = "begun", !.auth = TRUE, !.tag = tag, !.rid = rid]
<1>1. "remote" \in Operations
  BY ConnectorsAssumption
<1>2. budget' \in [Operations -> Nat]
  BY <1>1, SpendType DEF RemoteStart, TypeInv
<1>3. rid \in ReservationIds \cup {-1}
  BY PrevailingSlot, RidType DEF TypeInv
<1>4. SetTx(c, new)
  BY DEF RemoteStart
<1> HIDE DEF rid
<1>5. new \in Tx /\ new.tag \in Tags
  BY <1>3 DEF NoTx, Tx, Phase, Tag, Parent
<1> HIDE DEF new
<1> QED
  BY <1>2, <1>4, <1>5, SetTxType

LEMMA AvailabilityType ==
    ASSUME TypeInv, NEW c \in Place, NEW available \in BOOLEAN, ChangeAvailability(c, available),
           UNCHANGED <<moved, maintVars, failures>>
    PROVE  TypeInv'
<1>1. "avail" \in Operations
  BY ConnectorsAssumption
<1>2. budget' \in [Operations -> Nat]
  BY <1>1, SpendType DEF ChangeAvailability, TypeInv
<1>3. avail' \in [Place -> BOOLEAN]
  BY DEF ChangeAvailability, TypeInv, TypeOK
<1> QED
  BY <1>2, <1>3 DEF ChangeAvailability, maintVars, TypeInv, TypeOK, CardTag

\* Reservations are stored in a slot.
LEMMA StoreType ==
    ASSUME TypeInv, NEW i \in 1..Slots, NEW r \in Reservation \cup {NoReservation}, Store(i, r),
           moved' \subseteq Place, budget' \in [Operations -> Nat],
           Unchanged, UNCHANGED <<maintVars, failures>>
    PROVE  TypeInv'
<1>1. slot' \in [1..Slots -> Reservation \cup {NoReservation}]
  BY DEF Store, TypeInv, TypeOK
<1> QED
  BY <1>1 DEF Unchanged, maintVars, TypeInv, TypeOK, CardTag

LEMMA ByIdSlot ==
    ASSUME NEW id
    PROVE  ById(id) \in (1..Slots) \cup {0} /\ (ById(id) # 0 => ById(id) \in Holding)
<1> DEFINE S == {i \in Holding : slot[i].id = id}
<1>1. S \subseteq 1..Slots /\ S \subseteq Holding
  BY DEF Holding
<1>2. FirstOf(S) \in S \cup {0}
  <2> HIDE DEF S
  <2> QED
    BY <1>1, PickedSlot
<1> QED
  BY <1>1, <1>2 DEF ById

\* A new reservation is stored in a slot that does not hold one.
LEMMA FreeSlot ==
    ASSUME 1..Slots \ Holding # {}
    PROVE  /\ First(1..Slots \ Holding) \in 1..Slots \ Holding
           /\ \A k \in 1..Slots : k < First(1..Slots \ Holding) => k \in Holding
<1> DEFINE S == 1..Slots \ Holding
<1>0. S # {}
  OBVIOUS
<1>1. S \subseteq Nat
  BY ConnectorsAssumption
<1>2. First(S) \in S /\ \A k \in S : First(S) <= k
  <2> HIDE DEF S
  <2> QED
    BY <1>0, <1>1, FirstIn
<1>3. First(S) \in Nat /\ \A k \in 1..Slots : k \in Nat
  BY <1>1, <1>2, ConnectorsAssumption
<1>4. \A k \in 1..Slots : k < First(S) => k \notin S
  BY <1>2, <1>3
<1> QED
  BY <1>2, <1>4

LEMMA BookingType ==
    ASSUME TypeInv, NEW id \in ReservationIds, NEW c \in Place, NEW tag \in Tags,
           NEW parent \in Parent, Rebook(id, c, tag, parent) \/ Book(id, c, tag, parent),
           UNCHANGED <<maintVars, failures>>
    PROVE  TypeInv'
<1> DEFINE r == NewReservation(id, c, tag, parent)
<1>1. budget' \in [Operations -> Nat]
  BY ReservationsAssumption, SpendType DEF Rebook, Book, TypeInv
<1>2. moved' \subseteq Place
  BY DEF Rebook, Book, TypeInv, TypeOK
<1>3. r \in Reservation
  BY DEF NewReservation, Reservation
<1>4. PICK i \in 1..Slots : Store(i, r)
  <2>1. CASE Rebook(id, c, tag, parent)
    BY <2>1, ByIdSlot DEF Rebook
  <2>2. CASE Book(id, c, tag, parent)
    BY <2>2, FreeSlot DEF Book
  <2> QED
    BY <2>1, <2>2
<1>5. Unchanged
  BY DEF Rebook, Book
<1> HIDE DEF r
<1> QED
  BY <1>1, <1>2, <1>3, <1>4, <1>5, StoreType

LEMMA CancelType ==
    ASSUME TypeInv, NEW id \in ReservationIds, CancelReservation(id),
           UNCHANGED <<maintVars, failures>>
    PROVE  TypeInv'
<1>1. ById(id) \in 1..Slots
  BY ByIdSlot DEF CancelReservation
<1>2. moved' \subseteq Place /\ budget' \in [Operations -> Nat]
  BY DEF CancelReservation, TypeInv, TypeOK
<1> QED
  BY <1>1, <1>2, StoreType DEF CancelReservation

LEMMA ExpireType ==
    ASSUME TypeInv, NEW i \in 1..Slots, Expire(i), UNCHANGED <<maintVars, failures>>
    PROVE  TypeInv'
<1>1. slot[i] \in Reservation
  BY DEF Expire, TypeInv, TypeOK
<1>2. [slot[i] EXCEPT !.late = TRUE] \in Reservation
  BY <1>1 DEF Reservation
<1>3. slot' = [slot EXCEPT ![i] = [slot[i] EXCEPT !.late = TRUE]]
  BY DEF Expire
<1>4. Store(i, [slot[i] EXCEPT !.late = TRUE])
  BY <1>3 DEF Store
<1>5. moved' \subseteq Place /\ budget' \in [Operations -> Nat]
  BY DEF Expire, TypeInv, TypeOK
<1> QED
  BY <1>2, <1>4, <1>5, StoreType DEF Expire

LEMMA PlaceholderTypes ==
    /\ NoUpdate \in Firmware /\ NoUpload \in Diagnostics
    /\ NoJobs \in [{"download", "install", "upload"} -> Progress]
<1>1. UIntMax \in Nat /\ 0 \in 0..UIntMax
  BY MaintenanceAssumption
<1>2. NoUpdate \in Firmware
  BY <1>1 DEF NoUpdate, Firmware, Stage, FwStatus
<1>3. NoUpload \in Diagnostics
  BY <1>1 DEF NoUpload, Diagnostics, DgStatus
<1>4. NoJobs \in [{"download", "install", "upload"} -> Progress]
  BY DEF NoJobs, Progress
<1> QED
  BY <1>2, <1>3, <1>4

\* What the server asks of the services.
LEMMA RequestsType ==
    ASSUME TypeInv, UNCHANGED <<moved, failures>>,
           \/ \E retries \in 1..UIntMax : UpdateFirmware(retries) \/ GetDiagnostics(retries)
           \/ \E hard, agreed \in BOOLEAN : Reset(hard, agreed)
    PROVE  TypeInv'
<1>0. {"update", "upload", "reset"} \subseteq Operations /\ UIntMax \in Nat
  BY MaintenanceAssumption
<1>1. ASSUME NEW retries \in 1..UIntMax, UpdateFirmware(retries)
      PROVE  TypeInv'
  <2>1. budget' \in [Operations -> Nat]
    BY <1>0, <1>1, SpendType DEF UpdateFirmware, TypeInv
  <2>2. retries \in 0..UIntMax
    BY <1>0
  <2>3. fw' \in Firmware
    BY <1>1, <2>2 DEF UpdateFirmware, ResetStage, Firmware, Stage, TypeInv, TypeOK
  <2> QED
    BY <1>1, <2>1, <2>3 DEF UpdateFirmware, ConnectorsUnchanged, TypeInv, TypeOK, CardTag
<1>2. ASSUME NEW retries \in 1..UIntMax, GetDiagnostics(retries)
      PROVE  TypeInv'
  <2>1. budget' \in [Operations -> Nat]
    BY <1>0, <1>2, SpendType DEF GetDiagnostics, TypeInv
  <2>2. retries \in 0..UIntMax
    BY <1>0
  <2>3. dg' \in Diagnostics
    BY <1>2, <2>2 DEF GetDiagnostics, Diagnostics, TypeInv, TypeOK
  <2> QED
    BY <1>2, <2>1, <2>3 DEF GetDiagnostics, ConnectorsUnchanged, TypeInv, TypeOK, CardTag
<1>3. ASSUME NEW hard \in BOOLEAN, NEW agreed \in BOOLEAN, Reset(hard, agreed)
      PROVE  TypeInv'
  <2>1. budget' \in [Operations -> Nat]
    BY <1>0, <1>3, SpendType DEF Reset, TypeInv
  <2>2. left' \in 0..5
    BY <1>3, MaintenanceAssumption DEF Reset
  <2>3. vol' \in [Place -> BOOLEAN]
    BY <1>3 DEF Reset
  <2>4. tx' = [c \in Connector |-> Inactive(tx[c])]
    BY <1>3 DEF Reset
  <2>5. tx' \in [Connector -> Tx]
    BY <2>4, TxTypes DEF TypeInv, TypeOK
  <2>6. CardTag'
    <3>1. \A c \in Connector : tx[c] \in Tx /\ (tx[c].card => tx[c].tag \in Tags)
      BY DEF TypeInv, TypeOK, CardTag
    <3>2. \A c \in Connector : tx'[c] = Inactive(tx[c])
      BY <2>4
    <3> QED
      BY <3>1, <3>2, TxTypes DEF CardTag
  <2> QED
    BY <1>3, <2>1, <2>2, <2>3, <2>5, <2>6 DEF Reset, TypeInv, TypeOK
<1> QED
  BY <1>1, <1>2, <1>3

LEMMA JobEndsType ==
    ASSUME TypeInv, JobsEnd, UNCHANGED failures
    PROVE  TypeInv'
<1>1. PICK j \in DOMAIN NoJobs, result \in {"done", "failed"} :
          JobEnds(j, result) /\ UNCHANGED moved
  BY DEF JobsEnd
<1>2. job' \in [{"download", "install", "upload"} -> Progress]
  BY <1>1 DEF JobEnds, Progress, TypeInv, TypeOK
<1> QED
  BY <1>1, <1>2 DEF JobEnds, connVars, TypeInv, TypeOK, CardTag

\* The connectors' turn.
LEMMA ConnectorsType ==
    ASSUME TypeInv, NEW lasting, ConnectorsLoop(lasting), UNCHANGED failures
    PROVE  TypeInv'
<1>1. PICK lates : Connectors(lates, lasting) /\ UNCHANGED <<moved, maintVars>>
  BY DEF ConnectorsLoop
<1> DEFINE t == [c \in Connector |-> Served(c, c \in lates)]
           s == [c \in Place |-> IF c = 0 THEN StatusOf(0, tx) ELSE StatusOf(c, t)]
<1>2. tx' = t
  BY <1>1 DEF Connectors
<1>3. ASSUME NEW c \in Connector
      PROVE  t[c] \in Tx /\ (t[c].card => t[c].tag \in Tags)
  <2>1. (c \in lates) \in BOOLEAN
    OBVIOUS
  <2>2. /\ Served(c, c \in lates) \in Tx
        /\ Served(c, c \in lates).card => Served(c, c \in lates).tag \in Tags
    BY <2>1, ServedType, Zenon
  <2>3. t[c] = Served(c, c \in lates)
    OBVIOUS
  <2> QED
    BY <2>2, <2>3, Zenon
<1>4. tx' \in [Connector -> Tx] /\ CardTag'
  BY <1>2, <1>3 DEF CardTag
<1>5. \A c \in Place : s[c] \in Status
  BY StatusType
<1> HIDE DEF t
<1>6. cur' \in [Place -> Status]
  <2>1. cur' = [c \in Place |-> IF ~Returns(c, c \in lates) THEN s[c] ELSE cur[c]]
    BY <1>1 DEF Connectors, t
  <2> HIDE DEF s
  <2> QED
    BY <1>5, <2>1 DEF TypeInv, TypeOK
<1>7. rep' \in [Place -> Status]
  <2>1. rep' = [c \in Place |->
                  IF ~Returns(c, c \in lates)
                     /\ ((fault[c] /\ ~seen[c]) \/ Reports(c, s[c], c \in lasting))
                  THEN s[c] ELSE rep[c]]
    BY <1>1 DEF Connectors, t
  <2> HIDE DEF s
  <2> QED
    BY <1>5, <2>1 DEF TypeInv, TypeOK
<1>8. seen' \in [Place -> BOOLEAN]
  BY <1>1 DEF Connectors, TypeInv, TypeOK
<1>9. /\ pc' = "maintenance"
      /\ UNCHANGED <<tasks, fault, plugged, avail, vol, slot, minDuration, budget>>
  BY <1>1 DEF Connectors
<1> HIDE DEF s
<1> QED
  BY <1>1, <1>4, <1>6, <1>7, <1>8, <1>9 DEF maintVars, TypeInv, TypeOK

\* The services of an update.
LEMMA NotedType ==
    ASSUME TypeOK
    PROVE  /\ Noted \in Firmware /\ Noted.checked
           /\ \A field \in {"stage", "retries", "download", "install"} : Noted[field] = fw[field]
<1>1. fw \in Firmware
  BY DEF TypeOK
<1>2. FirmwareStatus(fw) \in FwStatus /\ "Installed" \in FwStatus
  BY DEF FirmwareStatus, FwStatus
<1> QED
  BY <1>1, <1>2 DEF Noted, Firmware

LEMMA SentType ==
    ASSUME TypeOK
    PROVE  Sent \subseteq FwStatus
<1>1. Noted.reported \in FwStatus /\ "Installed" \in FwStatus
  BY NotedType DEF Firmware, FwStatus
<1> QED
  BY <1>1 DEF Sent

LEMMA StageTypes ==
    ASSUME NEW f \in Firmware
    PROVE  /\ AfterDownload(f) \in Firmware /\ Retry(f) \in Firmware /\ Finished(f) \in Firmware
           /\ \A s \in Stage : [f EXCEPT !.stage = s] \in Firmware
           /\ [f EXCEPT !.stage = "AwaitDownload", !.download = TRUE] \in Firmware
<1>1. UIntMax \in Nat
  BY MaintenanceAssumption
<1>2. f.retries \in 0..UIntMax
  BY DEF Firmware
<1>3. Less(f.retries) \in 0..UIntMax /\ 0 \in 0..UIntMax
  BY <1>1, <1>2 DEF Less
<1>4. {"Idle", "AfterDownload", "AwaitInstallation", "AwaitDownload"} \subseteq Stage
  BY DEF Stage
<1>5. AfterDownload(f) \in Firmware
  BY <1>4 DEF AfterDownload, Firmware
<1>6. ResetStage(f) \in Firmware /\ ResetStage(f).retries = f.retries
  BY <1>4 DEF ResetStage, Firmware
<1>7. Retry(f) \in Firmware
  BY <1>3, <1>6 DEF Retry, Firmware
<1>8. Finished(f) \in Firmware
  BY <1>3, <1>6 DEF Finished, Firmware
<1>9. [f EXCEPT !.stage = "AwaitDownload", !.download = TRUE] \in Firmware
  BY <1>4 DEF Firmware
<1>10. \A s \in Stage : [f EXCEPT !.stage = s] \in Firmware
  BY DEF Firmware
<1> QED
  BY <1>5, <1>7, <1>8, <1>9, <1>10

LEMMA FirmwareActsType ==
    ASSUME TypeOK, FirmwareActs
    PROVE  fw' \in Firmware
<1>1. Noted \in Firmware
  BY NotedType
<1>2. {"Downloading", "AfterDownload", "Installing"} \subseteq Stage
  BY DEF Stage
<1> QED
  BY <1>1, <1>2, StageTypes
     DEF FirmwareActs, StartUpdate, StartDownload, EndDownload, AwaitTransactions,
         StartInstallation, EndInstallation

LEMMA DiagnosticsType ==
    ASSUME TypeOK, NEW acts \in BOOLEAN, NEW late \in BOOLEAN, DiagnosticsTurn(acts, late)
    PROVE  dg' \in Diagnostics
<1>1. UIntMax \in Nat
  BY MaintenanceAssumption
<1> DEFINE d == [dg EXCEPT !.reported = DiagnosticsStatus]
<1>2. d \in Diagnostics
  <2>1. DiagnosticsStatus \in DgStatus
    BY DEF DiagnosticsStatus, DgStatus
  <2> QED
    BY <2>1 DEF Diagnostics, TypeOK
<1>3. ASSUME NEW e \in Diagnostics
      PROVE  /\ Overdue(e) \in Diagnostics /\ Uploaded(e) \in Diagnostics
             /\ [e EXCEPT !.issued = TRUE] \in Diagnostics
  <2>1. e.retries \in 0..UIntMax
    BY DEF Diagnostics
  <2>2. Less(e.retries) \in 0..UIntMax /\ 0 \in 0..UIntMax
    BY <1>1, <2>1 DEF Less
  <2> QED
    BY <2>2 DEF Overdue, Uploaded, Diagnostics
<1>4. dg' = IF ~acts \/ d.retries = 0 THEN d
            ELSE IF Uploads
            THEN IF late THEN Overdue([d EXCEPT !.issued = TRUE]) ELSE [d EXCEPT !.issued = TRUE]
            ELSE IF late \/ UploadFailed THEN Overdue(Uploaded(d)) ELSE Uploaded(d)
  BY DEF DiagnosticsTurn
<1> HIDE DEF d
<1> QED
  BY <1>2, <1>3, <1>4

LEMMA MaintenanceType ==
    ASSUME TypeInv, NEW uploads \in BOOLEAN, NEW late \in BOOLEAN, NEW updates \in BOOLEAN,
           MaintenanceLoop(uploads, late, updates), UNCHANGED failures
    PROVE  TypeInv'
<1>1. TypeOK
  BY DEF TypeInv
<1>0. told' \subseteq FwStatus
  BY <1>1, SentType DEF MaintenanceLoop, FirmwareTurn, TypeOK
<1>2. dg' \in Diagnostics
  BY <1>1, DiagnosticsType DEF MaintenanceLoop
<1>3. fw' \in Firmware
  BY <1>1, NotedType, FirmwareActsType DEF MaintenanceLoop, FirmwareTurn
<1>4. newBuild' \in BOOLEAN
  BY DEF MaintenanceLoop, FirmwareTurn
<1>5. vol' \in [Place -> BOOLEAN]
  BY <1>1 DEF MaintenanceLoop, FirmwareTurn, TypeOK
<1>6. job' \in [{"download", "install", "upload"} -> Progress]
  <2>1. "busy" \in Progress
    BY DEF Progress
  <2> QED
    BY <1>1, <2>1 DEF MaintenanceLoop, JobsBegun, TypeOK
<1>7. /\ pc' = "rest" /\ UNCHANGED <<slot, moved, app, left, budget>>
      /\ UNCHANGED <<tasks, fault, plugged, avail, tx, cur, rep, seen, minDuration>>
  BY DEF MaintenanceLoop, ConnectorsUnchanged
<1> QED
  BY <1>0, <1>2, <1>3, <1>4, <1>5, <1>6, <1>7 DEF TypeInv, TypeOK, CardTag

LEMMA ReservationTurnType ==
    ASSUME TypeOK, ReservationTurn
    PROVE  slot' \in [1..Slots -> Reservation \cup {NoReservation}]
BY DEF ReservationTurn, TypeOK

LEMMA RestType ==
    ASSUME TypeInv, NEW fails \in BOOLEAN, fails => ResetDue, RestLoop(fails), UNCHANGED failures
    PROVE  TypeInv'
<1>1. slot' \in [1..Slots -> Reservation \cup {NoReservation}]
  BY ReservationTurnType DEF RestLoop, TypeInv
<1>2. left' \in 0..5
  BY DEF RestLoop, ResetTurn, ResetDue, TypeInv, TypeOK
<1>3. vol' \in [Place -> BOOLEAN]
  BY DEF RestLoop, ResetTurn, TypeInv, TypeOK
<1>4. /\ pc' = "idle" /\ UNCHANGED <<moved, app, fw, dg, job, newBuild, told, budget>>
      /\ UNCHANGED <<tasks, fault, plugged, avail, tx, cur, rep, seen, minDuration>>
  BY DEF RestLoop, ConnectorsUnchanged
<1> QED
  BY <1>1, <1>2, <1>3, <1>4 DEF TypeInv, TypeOK, CardTag

\* Power and boot.
LEMMA PowerType ==
    ASSUME TypeInv, PowerLoss,
           slot' \in [1..Slots -> Reservation \cup {NoReservation}],
           newBuild' \in BOOLEAN, budget' \in [Operations -> Nat]
    PROVE  TypeInv'
<1>1. /\ vol' \in [Place -> BOOLEAN] /\ seen' \in [Place -> BOOLEAN]
      /\ cur' \in [Place -> Status] /\ rep' \in [Place -> Status]
  BY DEF PowerLoss, Status
<1>2. tx' \in [Connector -> Tx] /\ CardTag'
  <2>1. tx' = [c \in Connector |-> Answered(c)]
    BY DEF PowerLoss
  <2>2. \A c \in Connector : Answered(c) \in Tx
                             /\ (Answered(c).card => Answered(c).tag \in Tags)
    BY AnsweredType
  <2> QED
    BY <2>1, <2>2 DEF CardTag
<1>3. fw' \in Firmware /\ dg' \in Diagnostics /\ left' \in 0..5
      /\ job' \in [{"download", "install", "upload"} -> Progress]
  BY PlaceholderTypes DEF PowerLoss
<1>4. pc' = "off" /\ tasks' = FALSE /\ told' = {}
      /\ UNCHANGED <<fault, plugged, avail, moved, app, minDuration, failures>>
  BY DEF PowerLoss
<1> QED
  BY <1>1, <1>2, <1>3, <1>4 DEF TypeInv, TypeOK

LEMMA BootType ==
    ASSUME TypeInv, Boot
    PROVE  TypeInv'
<1> DEFINE wiped == AutoRecover /\ failures > MaxFailures
           back(t) == IF t.phase = "stopping" THEN [t EXCEPT !.phase = "back"] ELSE t
<1>1. failures' \in Nat
  BY DEF Boot, TypeInv, TypeOK
<1>2. slot' \in [1..Slots -> Reservation \cup {NoReservation}]
  BY DEF Boot, TypeInv, TypeOK
<1>3. tx' = [c \in Connector |-> IF wiped THEN NoTx ELSE back(tx[c])]
  BY DEF Boot
<1>4. tx' \in [Connector -> Tx] /\ CardTag'
  <2>1. ASSUME NEW c \in Connector
        PROVE  back(tx[c]) \in Tx /\ (back(tx[c]).card => back(tx[c]).tag \in Tags)
    <3>1. tx[c] \in Tx /\ (tx[c].card => tx[c].tag \in Tags)
      BY DEF TypeInv, TypeOK, CardTag
    <3>2. "back" \in Phase
      BY DEF Phase
    <3> QED
      BY <3>1, <3>2 DEF Tx
  <2> HIDE DEF wiped, back
  <2>2. \A c \in Connector : tx'[c] = IF wiped THEN NoTx ELSE back(tx[c])
    BY <1>3
  <2> QED
    BY <1>3, <2>1, <2>2, TxTypes DEF CardTag
<1>5. /\ pc' = "idle"
      /\ UNCHANGED <<tasks, fault, plugged, avail, vol, cur, rep, seen, moved, minDuration, budget>>
      /\ UNCHANGED maintVars
  BY DEF Boot
<1> QED
  BY <1>1, <1>2, <1>4, <1>5 DEF maintVars, TypeInv, TypeOK

LEMMA InitType == Init => TypeInv
<1> SUFFICES ASSUME Init PROVE TypeInv
  OBVIOUS
<1>1. PICK s \in Scenarios : app = s.app /\ minDuration = s.minDuration /\ budget = s.budget
  BY DEF Init
<1>2. app \in Apps /\ minDuration \in BOOLEAN /\ budget \in [Operations -> Nat]
  <2>1. s \in [app : Apps, minDuration : BOOLEAN, budget : [Operations -> Nat]]
    BY ChargePointAssumption
  <2> QED
    BY <1>1, <2>1
<1>3. tx \in [Connector -> Tx] /\ CardTag
  BY TxTypes DEF Init, CardTag
<1>4. /\ cur \in [Place -> Status] /\ rep \in [Place -> Status]
      /\ slot \in [1..Slots -> Reservation \cup {NoReservation}]
  BY DEF Init, Status
<1>5. fw \in Firmware /\ dg \in Diagnostics
      /\ job \in [{"download", "install", "upload"} -> Progress]
  BY PlaceholderTypes DEF Init
<1>6. /\ pc = "off" /\ tasks = FALSE /\ moved = {} /\ newBuild = FALSE /\ told = {}
      /\ left \in 0..5 /\ failures \in Nat
  BY DEF Init
<1>7. /\ fault \in [Place -> BOOLEAN] /\ plugged \in [Place -> BOOLEAN]
      /\ avail \in [Place -> BOOLEAN] /\ vol \in [Place -> BOOLEAN]
      /\ seen \in [Place -> BOOLEAN]
  BY DEF Init
<1> QED
  BY <1>2, <1>3, <1>4, <1>5, <1>6, <1>7 DEF TypeInv, TypeOK

LEMMA StepType == TypeInv /\ [Next]_vars => TypeInv'
<1> SUFFICES ASSUME TypeInv, [Next]_vars PROVE TypeInv'
  OBVIOUS
<1>1. CASE ServerCalls /\ UNCHANGED failures
  <2>1. CASE \E c \in Place, available \in BOOLEAN :
                 ChangeAvailability(c, available) /\ UNCHANGED <<moved, maintVars>>
    BY <1>1, <2>1, AvailabilityType
  <2>2. CASE \E c \in Connector, tag \in Tags :
                 RemoteStart(c, tag) /\ UNCHANGED <<moved, maintVars>>
    BY <1>1, <2>2, RemoteType
  <2>3. CASE \E id \in ReservationIds, c \in Place, tag \in Tags, parent \in Parent :
                 (Rebook(id, c, tag, parent) \/ Book(id, c, tag, parent)) /\ UNCHANGED maintVars
    BY <1>1, <2>3, BookingType
  <2>4. CASE \E id \in ReservationIds : CancelReservation(id) /\ UNCHANGED maintVars
    BY <1>1, <2>4, CancelType
  <2>5. CASE \/ \E retries \in 1..UIntMax :
                   (UpdateFirmware(retries) \/ GetDiagnostics(retries)) /\ UNCHANGED moved
             \/ \E hard, agreed \in BOOLEAN : Reset(hard, agreed) /\ UNCHANGED moved
    BY <1>1, <2>5, RequestsType
  <2> QED
    BY <1>1, <2>1, <2>2, <2>3, <2>4, <2>5 DEF ServerCalls
<1>2. CASE ServerAnswers /\ UNCHANGED failures
  BY <1>2, AnswersType
<1>3. CASE UserActs /\ UNCHANGED failures
  BY <1>3, UserType
<1>4. CASE Expires /\ UNCHANGED failures
  BY <1>4, ExpireType DEF Expires
<1>5. CASE JobsEnd /\ UNCHANGED failures
  BY <1>5, JobEndsType
<1>6. CASE Loop /\ UNCHANGED failures
  <2>1. CASE \E lasting \in SUBSET Unreported : ConnectorsLoop(lasting)
    BY <1>6, <2>1, ConnectorsType
  <2>2. CASE \E uploads, late \in BOOLEAN, updates \in {FALSE, fw.retries > 0} :
                 MaintenanceLoop(uploads, late, updates)
    <3>1. {FALSE, fw.retries > 0} \subseteq BOOLEAN
      OBVIOUS
    <3> QED
      BY <1>6, <2>2, <3>1, MaintenanceType
  <2>3. CASE \E fails \in {FALSE, ResetDue} : RestLoop(fails)
    <3>1. ResetDue \in BOOLEAN
      BY DEF ResetDue
    <3>2. RestLoop(FALSE) \/ RestLoop(ResetDue)
      BY <2>3, Zenon
    <3> QED
      BY <1>6, <3>1, <3>2, RestType, Zenon
  <2> QED
    BY <1>6, <2>1, <2>2, <2>3 DEF Loop
<1>7. CASE PowerCut
  <2>1. budget' \in [Operations -> Nat]
    BY <1>7, ChargePointAssumption, SpendType DEF PowerCut, TypeInv
  <2> QED
    BY <1>7, <2>1, PowerType DEF PowerCut, TypeInv, TypeOK
<1>8. CASE ResetSucceeds
  <2>1. slot' \in [1..Slots -> Reservation \cup {NoReservation}]
    BY <1>8, ReservationTurnType DEF ResetSucceeds, TypeInv
  <2> QED
    BY <1>8, <2>1, PowerType DEF ResetSucceeds, TypeInv, TypeOK
<1>9. CASE InstallReboots
  BY <1>9, PowerType DEF InstallReboots, TypeInv, TypeOK
<1>10. CASE Boot
  BY <1>10, BootType
<1>11. CASE Accept
  BY <1>11 DEF Accept, maintVars, TypeInv, TypeOK, CardTag
<1>12. CASE LongTime
  <2>1. budget' \in [Operations -> Nat]
    BY <1>12, ChargePointAssumption, SpendType DEF LongTime, TypeInv
  <2> QED
    BY <1>12, <2>1 DEF LongTime, maintVars, TypeInv, TypeOK, CardTag
<1>13. CASE UNCHANGED vars
  BY <1>13 DEF vars, connVars, maintVars, TypeInv, TypeOK, CardTag
<1> QED
  BY <1>1, <1>2, <1>3, <1>4, <1>5, <1>6, <1>7, <1>8, <1>9, <1>10, <1>11, <1>12, <1>13 DEF Next

\* The state of the charge point keeps its types: the retries stay unsigned, the attempts of a
\* reset within their limit, and a transaction only takes the ids of reservations.
THEOREM TypeCorrect == Spec => []TypeOK
<1>1. TypeInv => TypeOK
  BY DEF TypeInv
<1> QED
  BY <1>1, InitType, StepType, PTL DEF Spec

-----------------------------------------------------------------------------
(* What most steps leave alone *)

\* No transaction starts; none is cleared for a card that was not; no reservation gets stronger.
NoneStarts == \A c \in Connector : tx'[c].phase = "running" => tx[c].phase = "running"
NoneCleared ==
    \A c \in Connector :
        Cleared(tx'[c]) => /\ Cleared(tx[c])
                           /\ tx'[c].tag = tx[c].tag /\ tx'[c].parent = tx[c].parent
NoneClaims ==
    /\ moved \subseteq moved'
    /\ \A i \in 1..Slots :
          \/ slot'[i] = slot[i]
          \/ slot'[i] = NoReservation
          \/ slot[i] \in Reservation /\ slot'[i] = [slot[i] EXCEPT !.late = TRUE]
          \/ slot'[i].at \in moved'

\* A transaction that was made inactive does not charge, and no card is cleared in it.
LEMMA InactiveRests ==
    ASSUME NEW t \in Tx
    PROVE  ~Active(Inactive(t)) /\ ~Cleared(Inactive(t)) /\ Inactive(t).phase # "running"
BY DEF Inactive, Active, Cleared, Tx

\* The step of one transaction.
LEMMA SetTxStep ==
    ASSUME TypeInv, NEW c \in Connector, NEW t, SetTx(c, t)
    PROVE  \A d \in Connector : tx'[d] = IF d = c THEN t ELSE tx[d]
BY DEF SetTx, TypeInv, TypeOK

LEMMA SetTxRests ==
    ASSUME TypeInv, NEW c \in Connector, NEW t, SetTx(c, t),
           t.phase = "running" => tx[c].phase = "running",
           Cleared(t) => Cleared(tx[c]) /\ t.tag = tx[c].tag /\ t.parent = tx[c].parent
    PROVE  NoneStarts /\ NoneCleared
BY SetTxStep DEF NoneStarts, NoneCleared

LEMMA SameSlots ==
    ASSUME slot' = slot, moved' = moved
    PROVE  NoneClaims
BY DEF NoneClaims

\* An answer that comes or does not come: a card is cleared by the server alone.
LEMMA AnsweredRests ==
    ASSUME TypeInv, NEW c \in Connector
    PROVE  /\ Answered(c) \in Tx
           /\ Answered(c).phase = tx[c].phase /\ Answered(c).tag = tx[c].tag
           /\ Answered(c).parent = tx[c].parent
           /\ Answered(c).card = tx[c].card /\ Answered(c).auth = tx[c].auth
           /\ Answered(c).asked = FALSE
           /\ Cleared(Answered(c)) => Cleared(tx[c])
<1>1. tx[c] \in Tx
  BY DEF TypeInv, TypeOK
<1>2. /\ Answered(c).phase = tx[c].phase /\ Answered(c).tag = tx[c].tag
      /\ Answered(c).parent = tx[c].parent
      /\ Answered(c).card = tx[c].card /\ Answered(c).auth = tx[c].auth
      /\ Answered(c).asked = FALSE
  BY <1>1 DEF Answered, Tx
<1>3. Cleared(Answered(c)) => Cleared(tx[c])
  BY <1>2 DEF Cleared, Active
<1> QED
  BY <1>2, <1>3, AnsweredType

LEMMA AnswersRest ==
    ASSUME TypeInv, NEW c \in Connector,
           AuthRejected(c) \/ StopConf(c) \/ \E allowed \in BOOLEAN : AuthTimeout(c, allowed)
    PROVE  NoneStarts /\ NoneCleared
<1>0. tx[c] \in Tx
  BY DEF TypeInv, TypeOK
<1>1. CASE AuthRejected(c)
  <2> DEFINE t == [Answered(c) EXCEPT !.denied = TRUE]
  <2>1. SetTx(c, t)
    BY <1>1 DEF AuthRejected
  <2>2. /\ t.phase = tx[c].phase /\ t.tag = tx[c].tag /\ t.parent = tx[c].parent
        /\ t.card = tx[c].card /\ t.auth = tx[c].auth /\ t.asked = FALSE
    BY AnsweredRests DEF Tx
  <2>3. Cleared(t) => Cleared(tx[c])
    BY <2>2 DEF Cleared, Active
  <2> HIDE DEF t
  <2> QED
    BY <2>1, <2>2, <2>3, SetTxRests
<1>2. CASE StopConf(c)
  <2>1. PICK t \in {NoTx, [tx[c] EXCEPT !.phase = "over"]} : SetTx(c, t)
    BY <1>2 DEF StopConf
  <2>2. t.phase \in {"none", "over"}
    BY <1>0 DEF NoTx, Tx
  <2>3. ~Cleared(t) /\ t.phase # "running"
    BY <2>2 DEF Cleared, Active
  <2> QED
    BY <2>1, <2>3, SetTxRests
<1>3. ASSUME NEW allowed \in BOOLEAN, AuthTimeout(c, allowed)
      PROVE  NoneStarts /\ NoneCleared
  <2>1. CASE allowed /\ ~tx[c].blocked
    <3> DEFINE t == [Answered(c) EXCEPT !.auth = TRUE, !.rid = tx[c].found]
    <3>1. SetTx(c, t) /\ tx[c].asked
      BY <1>3, <2>1 DEF AuthTimeout
    <3>2. /\ t.phase = tx[c].phase /\ t.tag = tx[c].tag /\ t.parent = tx[c].parent
          /\ t.card = tx[c].card
      BY AnsweredRests DEF Tx
    <3>3. Cleared(t) => Cleared(tx[c])
      BY <2>1, <3>1, <3>2 DEF Cleared, Active
    <3> HIDE DEF t
    <3> QED
      BY <3>1, <3>2, <3>3, SetTxRests
  <2>2. CASE ~(allowed /\ ~tx[c].blocked)
    <3>1. SetTx(c, Inactive(Answered(c)))
      BY <1>3, <2>2 DEF AuthTimeout
    <3>2. ~Cleared(Inactive(Answered(c))) /\ Inactive(Answered(c)).phase # "running"
      BY AnsweredRests, InactiveRests
    <3> QED
      BY <3>1, <3>2, SetTxRests
  <2> QED
    BY <2>1, <2>2
<1> QED
  BY <1>1, <1>2, <1>3

\* One pass of the connectors: who is cleared now was before.
LEMMA ServedRests ==
    ASSUME TypeInv, NEW c \in Connector, NEW late \in BOOLEAN
    PROVE  /\ Cleared(Served(c, late)) => /\ Cleared(tx[c])
                                          /\ Served(c, late).tag = tx[c].tag
                                          /\ Served(c, late).parent = tx[c].parent
           /\ Served(c, late).phase = "running" /\ tx[c].phase # "running"
                => tx[c].phase = "begun" /\ Operative(c, tx)
<1>0. tx[c] \in Tx
  BY DEF TypeInv, TypeOK
<1>1. Collected(c) = tx[c] \/ Collected(c) = NoTx
  BY DEF Collected
<1>2. Checked(c, late) = Collected(c) \/ Checked(c, late) = Inactive(Collected(c))
  BY DEF Checked
<1> DEFINE t == Checked(c, late)
<1>3. t \in Tx /\ ((Active(t) \/ t.phase = "running") => t = tx[c])
  <2>1. Collected(c) \in Tx /\ ~Active(NoTx) /\ NoTx.phase = "none"
    BY <1>0, <1>1, TxTypes DEF Active, NoTx
  <2>2. Inactive(Collected(c)) \in Tx /\ ~Active(Inactive(Collected(c)))
        /\ Inactive(Collected(c)).phase # "running"
    BY <2>1, TxTypes, InactiveRests
  <2>3. CASE t = Collected(c)
    BY <1>1, <2>1, <2>3 DEF Active
  <2>4. CASE t = Inactive(Collected(c))
    BY <2>2, <2>4
  <2> QED
    BY <1>2, <2>3, <2>4
<1>4. Served(c, late) = IF MayStart(c, t) THEN [t EXCEPT !.phase = "running"]
                        ELSE IF t.phase = "ending" THEN [t EXCEPT !.phase = "stopping"] ELSE t
  BY DEF Served
<1> HIDE DEF t
<1>5. CASE MayStart(c, t)
  <2>1. t = tx[c] /\ tx[c].phase = "begun" /\ Operative(c, tx)
    BY <1>3, <1>5 DEF MayStart, Active
  <2>2. Served(c, late) = [tx[c] EXCEPT !.phase = "running"]
    BY <1>4, <1>5, <2>1
  <2>3. /\ Served(c, late).card = tx[c].card /\ Served(c, late).tag = tx[c].tag
        /\ Served(c, late).parent = tx[c].parent
        /\ Served(c, late).auth = tx[c].auth /\ Served(c, late).asked = tx[c].asked
        /\ Served(c, late).blocked = tx[c].blocked
    BY <1>0, <2>2 DEF Tx
  <2> QED
    BY <2>1, <2>3 DEF Cleared, Active
<1>6. CASE ~MayStart(c, t) /\ t.phase = "ending"
  <2>1. Served(c, late).phase = "stopping"
    BY <1>3, <1>4, <1>6 DEF Tx
  <2> QED
    BY <2>1 DEF Cleared, Active
<1>7. CASE ~MayStart(c, t) /\ t.phase # "ending"
  <2>1. Served(c, late) = t
    BY <1>4, <1>7
  <2>2. Cleared(t) => Active(t)
    BY DEF Cleared
  <2> QED
    BY <1>3, <2>1, <2>2
<1> QED
  BY <1>5, <1>6, <1>7

LEMMA LoopServes ==
    ASSUME TypeInv, NEW lasting, ConnectorsLoop(lasting)
    PROVE  /\ NoneCleared
           /\ \A c \in Connector :
                 tx'[c].phase = "running" /\ tx[c].phase # "running"
                    => tx[c].phase = "begun" /\ Operative(c, tx)
           /\ UNCHANGED <<slot, moved, vol, left, fw>>
<1>1. PICK lates : Connectors(lates, lasting) /\ UNCHANGED <<moved, maintVars>>
  BY DEF ConnectorsLoop
<1>2. tx' = [c \in Connector |-> Served(c, c \in lates)] /\ UNCHANGED <<slot, vol>>
  BY <1>1 DEF Connectors
<1>3. ASSUME NEW c \in Connector
      PROVE  /\ tx'[c] = Served(c, c \in lates)
             /\ Cleared(Served(c, c \in lates))
                   => /\ Cleared(tx[c])
                      /\ Served(c, c \in lates).tag = tx[c].tag
                      /\ Served(c, c \in lates).parent = tx[c].parent
             /\ Served(c, c \in lates).phase = "running" /\ tx[c].phase # "running"
                   => tx[c].phase = "begun" /\ Operative(c, tx)
  <2>1. (c \in lates) \in BOOLEAN
    OBVIOUS
  <2>2. tx'[c] = Served(c, c \in lates)
    BY <1>2
  <2> QED
    BY <2>1, <2>2, ServedRests, Zenon
<1>4. NoneCleared
  BY <1>3, Zenon DEF NoneCleared
<1>5. \A c \in Connector : tx'[c].phase = "running" /\ tx[c].phase # "running"
                              => tx[c].phase = "begun" /\ Operative(c, tx)
  BY <1>3, Zenon
<1> QED
  BY <1>1, <1>2, <1>4, <1>5 DEF maintVars

\* A power cut and a boot.
LEMMA PowerRests ==
    ASSUME TypeInv, PowerLoss
    PROVE  NoneCleared /\ left' = 0 /\ fw' = NoUpdate /\ moved' = moved
<1>1. tx' = [c \in Connector |-> Answered(c)]
  BY DEF PowerLoss
<1>2. NoneCleared
  BY <1>1, AnsweredRests DEF NoneCleared
<1> QED
  BY <1>2 DEF PowerLoss

LEMMA BootRests ==
    ASSUME TypeInv, Boot
    PROVE  NoneStarts /\ NoneCleared /\ NoneClaims /\ UNCHANGED <<vol, left, fw>>
<1>1. ASSUME NEW c \in Connector
      PROVE  \/ tx'[c] = tx[c] \/ tx'[c] = NoTx
             \/ tx'[c] = [tx[c] EXCEPT !.phase = "back"]
  BY DEF Boot
<1>2. \A c \in Connector : tx[c] \in Tx
  BY DEF TypeInv, TypeOK
<1>3. \A c \in Connector : tx'[c] = tx[c] \/ tx'[c].phase \in {"none", "back"}
  <2>1. NoTx.phase = "none"
    BY DEF NoTx
  <2>2. \A t \in Tx : [t EXCEPT !.phase = "back"].phase = "back"
    BY DEF Tx
  <2> QED
    BY <1>1, <1>2, <2>1, <2>2
<1>4. NoneStarts /\ NoneCleared
  BY <1>3 DEF NoneStarts, NoneCleared, Cleared, Active
<1>5. NoneClaims
  BY DEF Boot, NoneClaims
<1> QED
  BY <1>4, <1>5 DEF Boot, maintVars

\* The turn of the reservations.
LEMMA TurnRests ==
    ASSUME ReservationTurn, moved' = moved
    PROVE  NoneClaims
BY DEF ReservationTurn, NoneClaims

-----------------------------------------------------------------------------
(* Nothing charges under a reset *)

LEMMA StepQuiet == TypeInv /\ Quiet /\ [Next]_vars => Quiet'
<1> SUFFICES ASSUME TypeInv, Quiet, [Next]_vars PROVE Quiet'
  OBVIOUS
\* It is enough that nothing starts and no connector is given back.
<1>0. ASSUME NoneStarts, left' = left, vol' = vol
      PROVE  Quiet'
  BY <1>0 DEF Quiet, NoneStarts
<1>1. ASSUME NEW c \in Connector, NEW t, SetTx(c, t), t.phase # "running", left' = left
      PROVE  Quiet'
  <2>1. NoneStarts
    BY <1>1, SetTxStep DEF NoneStarts
  <2>2. vol' = vol
    BY <1>1 DEF SetTx
  <2> QED
    BY <1>0, <1>1, <2>1, <2>2
<1>2. CASE ServerCalls
  <2>1. CASE \E c \in Connector, tag \in Tags :
                 RemoteStart(c, tag) /\ UNCHANGED <<moved, maintVars>>
    <3>1. PICK c \in Connector, tag \in Tags :
                 RemoteStart(c, tag) /\ UNCHANGED <<moved, maintVars>>
      BY <2>1
    <3> DEFINE r == Prevailing(c, tag, None)
               t == [NoTx EXCEPT !.phase = "begun", !.auth = TRUE, !.tag = tag,
                         !.rid = IF r # 0 /\ Matches(r, tag, None) THEN slot[r].id ELSE -1]
    <3>2. SetTx(c, t)
      BY <3>1 DEF RemoteStart
    <3> HIDE DEF r
    <3>3. t.phase = "begun"
      BY DEF NoTx
    <3> HIDE DEF t
    <3> QED
      BY <1>1, <3>1, <3>2, <3>3 DEF maintVars
  <2>2. CASE \E hard, agreed \in BOOLEAN : Reset(hard, agreed) /\ UNCHANGED moved
    <3>1. vol' = [c \in Place |-> FALSE] /\ tx' = [c \in Connector |-> Inactive(tx[c])]
      BY <2>2 DEF Reset
    <3>2. \A c \in Connector : tx[c] \in Tx
      BY DEF TypeInv, TypeOK
    <3>3. \A c \in Connector : tx'[c].phase # "running"
      BY <3>1, <3>2, InactiveRests
    <3>4. \A c \in Connector : c \in Place
      BY ConnectorsAssumption DEF Connector, Place
    <3> QED
      BY <3>1, <3>3, <3>4 DEF Quiet
  <2>3. CASE \/ \E c \in Place, available \in BOOLEAN :
                  ChangeAvailability(c, available) /\ UNCHANGED <<moved, maintVars>>
             \/ \E id \in ReservationIds, c \in Place, tag \in Tags, parent \in Parent :
                  (Rebook(id, c, tag, parent) \/ Book(id, c, tag, parent)) /\ UNCHANGED maintVars
             \/ \E id \in ReservationIds : CancelReservation(id) /\ UNCHANGED maintVars
             \/ \E retries \in 1..UIntMax :
                  (UpdateFirmware(retries) \/ GetDiagnostics(retries)) /\ UNCHANGED moved
    <3>1. UNCHANGED <<tx, vol, left>>
      BY <2>3 DEF ChangeAvailability, Rebook, Book, CancelReservation, UpdateFirmware,
                  GetDiagnostics, Unchanged, ConnectorsUnchanged, maintVars
    <3> QED
      BY <3>1 DEF Quiet
  <2> QED
    BY <1>2, <2>1, <2>2, <2>3 DEF ServerCalls
<1>3. CASE ServerAnswers
  <2>1. left' = left
    BY <1>3 DEF ServerAnswers, maintVars
  <2>2. vol' = vol
    BY <1>3 DEF ServerAnswers, AuthRejected, AuthAccepted, AuthTimeout, StopConf, SetTx
  <2>3. ASSUME NEW c \in Connector, NEW parent \in Parent, AuthAccepted(c, parent)
        PROVE  NoneStarts
    <3>1. PICK t : /\ SetTx(c, t)
                   /\ \/ t = [Accepted(c, parent) EXCEPT !.auth = TRUE]
                      \/ \E id : t = [Accepted(c, parent) EXCEPT !.auth = TRUE, !.rid = id]
                      \/ t = Inactive(Accepted(c, parent))
      <4> DEFINE r == Prevailing(c, tx[c].tag, parent)
                 a == Accepted(c, parent)
                 rid == slot[r].id
      <4>1. \/ SetTx(c, [a EXCEPT !.auth = TRUE])
            \/ SetTx(c, [a EXCEPT !.auth = TRUE, !.rid = rid])
            \/ SetTx(c, Inactive(a))
        BY <2>3 DEF AuthAccepted, Accepted
      <4> HIDE DEF r, a, rid
      <4>2. PICK t : /\ SetTx(c, t)
                     /\ \/ t = [a EXCEPT !.auth = TRUE]
                        \/ t = [a EXCEPT !.auth = TRUE, !.rid = rid]
                        \/ t = Inactive(a)
        BY <4>1, Zenon
      <4>3. t = [a EXCEPT !.auth = TRUE, !.rid = rid]
               => \E id : t = [a EXCEPT !.auth = TRUE, !.rid = id]
        BY Zenon
      <4> QED
        BY <4>2, <4>3, Zenon DEF a
    <3>2. t.phase = "running" => tx[c].phase = "running"
      <4> DEFINE a == Accepted(c, parent)
      <4>1. a \in Tx /\ a.phase = tx[c].phase
        BY AnsweredRests, AcceptedType
      <4>2. \/ t = [a EXCEPT !.auth = TRUE]
            \/ \E id : t = [a EXCEPT !.auth = TRUE, !.rid = id]
            \/ t = Inactive(a)
        BY <3>1
      <4> HIDE DEF a
      <4>3. t = Inactive(a) => t.phase # "running"
        BY <4>1, InactiveRests
      <4>4. t = [a EXCEPT !.auth = TRUE] => t.phase = a.phase
        BY <4>1 DEF Tx
      <4>5. ASSUME NEW id, t = [a EXCEPT !.auth = TRUE, !.rid = id]
            PROVE  t.phase = a.phase
        BY <4>1, <4>5 DEF Tx
      <4> QED
        BY <4>1, <4>2, <4>3, <4>4, <4>5
    <3> QED
      BY <3>1, <3>2, SetTxStep DEF NoneStarts
  <2>4. NoneStarts
    BY <1>3, <2>3, AnswersRest DEF ServerAnswers
  <2> QED
    BY <1>0, <2>1, <2>2, <2>4
<1>4. CASE UserActs
  <2>1. left' = left
    BY <1>4 DEF UserActs, maintVars
  <2>2. CASE (\E c \in Connector : Plug(c)) \/ \E c \in Place : Fault(c)
    BY <2>1, <2>2 DEF Plug, Fault, Quiet
  <2>3. ASSUME NEW c \in Connector, EndTransaction(c)
        PROVE  Quiet'
    <3>1. tx[c] \in Tx
      BY DEF TypeInv, TypeOK
    <3> QED
      BY <1>1, <2>1, <2>3, <3>1, InactiveRests DEF EndTransaction
  <2>4. ASSUME NEW c \in Connector, NEW tag \in Tags, NEW parent \in Parent,
               NEW preauthorized \in BOOLEAN, BeginTransaction(c, tag, parent, preauthorized)
        PROVE  Quiet'
    <3> DEFINE r == Prevailing(c, tag, parent)
               foreign == r # 0 /\ ~Matches(r, tag, parent)
               rid == IF preauthorized THEN RidOf(r) ELSE -1
               t == [NoTx EXCEPT !.phase = "begun", !.auth = preauthorized, !.asked = TRUE,
                                 !.blocked = foreign, !.card = TRUE, !.tag = tag, !.parent = parent,
                                 !.rid = rid, !.found = RidOf(r)]
    <3>1. SetTx(c, t)
      BY <2>4 DEF BeginTransaction
    <3> HIDE DEF r, foreign, rid
    <3>2. t.phase = "begun"
      BY DEF NoTx
    <3> HIDE DEF t
    <3> QED
      BY <1>1, <2>1, <3>1, <3>2
  <2> QED
    BY <1>4, <2>2, <2>3, <2>4 DEF UserActs
<1>5. CASE Expires \/ JobsEnd
  BY <1>5 DEF Expires, Expire, JobsEnd, JobEnds, Unchanged, maintVars, connVars, Quiet
<1>6. CASE Loop
  <2>1. ASSUME NEW lasting, ConnectorsLoop(lasting)
        PROVE  Quiet'
    <3>1. UNCHANGED <<vol, left>>
      BY <2>1, LoopServes
    <3>2. ASSUME left > 0, NEW c \in Connector
          PROVE  ~vol[c] /\ tx'[c].phase # "running"
      <4>1. ~vol[c] /\ tx[c].phase # "running" /\ c # 0
        BY <3>2, ConnectorsAssumption DEF Quiet, Connector
      <4>2. CASE tx'[c].phase = "running"
        <5>1. tx[c].phase = "begun" /\ Operative(c, tx)
          BY <2>1, <4>1, <4>2, LoopServes
        <5> QED
          BY <4>1, <5>1 DEF Operative, Running
      <4> QED
        BY <4>1, <4>2
    <3> QED
      BY <3>1, <3>2 DEF Quiet
  <2>2. ASSUME NEW uploads, NEW late, NEW updates, MaintenanceLoop(uploads, late, updates)
        PROVE  Quiet'
    <3>1. tx' = tx /\ left' = left
      BY <2>2 DEF MaintenanceLoop, ConnectorsUnchanged
    <3>2. vol' = vol \/ vol' = [vol EXCEPT ![0] = FALSE]
      BY <2>2 DEF MaintenanceLoop, FirmwareTurn
    <3>3. \A c \in Connector : c \in Place /\ c # 0
      BY ConnectorsAssumption DEF Connector, Place
    <3>4. \A c \in Connector : vol'[c] = vol[c]
      BY <3>2, <3>3 DEF TypeInv, TypeOK
    <3> QED
      BY <3>1, <3>4 DEF Quiet
  <2>3. ASSUME NEW fails, RestLoop(fails)
        PROVE  Quiet'
    <3>1. tx' = tx
      BY <2>3 DEF RestLoop, ConnectorsUnchanged
    <3>2. left \in Int
      BY DEF TypeInv, TypeOK
    <3>3. (left' = left /\ vol' = vol) \/ (left' = left - 1 /\ (vol' = vol \/ left = 1))
      BY <2>3 DEF RestLoop, ResetTurn, GivesBack
    <3> QED
      BY <3>1, <3>2, <3>3 DEF Quiet
  <2> QED
    BY <1>6, <2>1, <2>2, <2>3 DEF Loop
<1>7. CASE PowerCut \/ ResetSucceeds \/ InstallReboots
  BY <1>7, PowerRests DEF PowerCut, ResetSucceeds, InstallReboots, Quiet
<1>8. CASE Boot
  BY <1>0, <1>8, BootRests
<1>9. CASE Accept \/ LongTime \/ UNCHANGED vars
  BY <1>9 DEF Accept, LongTime, vars, connVars, maintVars, Quiet
<1> QED
  BY <1>2, <1>3, <1>4, <1>5, <1>6, <1>7, <1>8, <1>9 DEF Next

\* From the acceptance of a Reset until the restart or the last failed attempt nothing charges,
\* with any number of resets, updates, sessions and remote starts in between.
THEOREM NoneCharges == Spec => []NoChargingUnderReset
<1>1. Init => TypeInv /\ Quiet
  BY InitType DEF Init, Quiet
<1>2. TypeInv /\ Quiet /\ [Next]_vars => (TypeInv /\ Quiet)'
  BY StepType, StepQuiet
<1>3. Quiet => NoChargingUnderReset
  BY DEF Quiet, NoChargingUnderReset
<1> QED
  BY <1>1, <1>2, <1>3, PTL DEF Spec

-----------------------------------------------------------------------------
(* Reservations keep other cards out *)

\* What claims a connector that ReserveNow did not move there is the reservation that counts.
LEMMA ClaimCounts ==
    ASSUME TypeInv, FirstCounts, NEW c \in Connector \ moved, NEW i \in 1..Slots, Claims(i, c)
    PROVE  ReservedAt(c) = i /\ i # 0
<1> DEFINE S == {k \in Holding : slot[k].at = c}
<1>1. S \subseteq Nat /\ i \in S
  BY ConnectorsAssumption DEF Claims, Holding, Holds
<1>2. First(S) \in S /\ First(S) <= i
  <2> HIDE DEF S
  <2> QED
    BY <1>1, FirstIn
<1>3. First(S) \in 1..Slots /\ slot[First(S)] # NoReservation /\ slot[First(S)].at = c
  BY <1>2 DEF Holding, Holds
<1>4. ~(First(S) < i)
  BY <1>3 DEF FirstCounts
<1>5. First(S) = i
  BY <1>2, <1>3, <1>4
<1>6. ReservedAt(c) = FirstOf(S)
  BY ConnectorsAssumption DEF ReservedAt, Connector
<1>7. FirstOf(S) = First(S)
  BY <1>1 DEF FirstOf
<1> QED
  BY <1>5, <1>6, <1>7

\* Nothing claims a connector that can be booked.
LEMMA BookableFree ==
    ASSUME NEW c \in Connector, ReservedAt(c) = 0, NEW k \in Holding
    PROVE  slot[k].at # c
<1> DEFINE S == {j \in Holding : slot[j].at = c}
<1>1. S \subseteq 1..Slots /\ 0 \notin S
  BY ConnectorsAssumption DEF Holding
<1>2. ReservedAt(c) = FirstOf(S)
  BY ConnectorsAssumption DEF ReservedAt, Connector
<1>3. S # {} => First(S) \in S
  <2>1. S \subseteq Nat
    BY <1>1, ConnectorsAssumption
  <2> HIDE DEF S
  <2> QED
    BY <2>1, FirstIn
<1>4. S = {}
  BY <1>1, <1>2, <1>3 DEF FirstOf
<1> QED
  BY <1>4

\* A step that clears nobody and makes no new claims keeps both invariants.
LEMMA RestKeeps ==
    ASSUME TypeInv, FirstCounts, ClearedSuit, NoneCleared, NoneClaims
    PROVE  FirstCounts' /\ ClearedSuit'
<1>1. ASSUME NEW c \in Connector, c \notin moved', NEW i \in 1..Slots,
             slot'[i] # NoReservation, slot'[i].at = c
      PROVE  /\ c \notin moved /\ slot[i] # NoReservation /\ slot[i].at = c
             /\ slot'[i].tag = slot[i].tag /\ slot'[i].parent = slot[i].parent
             /\ ~slot'[i].late => ~slot[i].late
  <2>1. c \notin moved
    BY <1>1 DEF NoneClaims
  <2>2. \/ slot'[i] = slot[i]
        \/ slot[i] \in Reservation /\ slot'[i] = [slot[i] EXCEPT !.late = TRUE]
    BY <1>1 DEF NoneClaims
  <2>3. CASE slot'[i] = slot[i]
    BY <1>1, <2>1, <2>3
  <2>4. CASE slot[i] \in Reservation /\ slot'[i] = [slot[i] EXCEPT !.late = TRUE]
    <3>1. /\ slot'[i].at = slot[i].at /\ slot'[i].tag = slot[i].tag
          /\ slot'[i].parent = slot[i].parent /\ slot'[i].late = TRUE
      BY <2>4 DEF Reservation
    <3>2. slot[i] # NoReservation
      <4>1. slot[i].id # -1
        BY <2>4, ConnectorsAssumption DEF Reservation
      <4> QED
        BY <4>1 DEF NoReservation
    <3> QED
      BY <1>1, <2>1, <3>1, <3>2
  <2> QED
    BY <2>2, <2>3, <2>4
<1>2. FirstCounts'
  <2> SUFFICES ASSUME NEW c \in Connector, c \notin moved', NEW i \in 1..Slots, NEW j \in 1..Slots,
                      j < i, slot'[i] # NoReservation, slot'[i].at = c, ~slot'[i].late,
                      slot'[j] # NoReservation, slot'[j].at = c
               PROVE  FALSE
    BY DEF FirstCounts, Claims
  <2>1. Claims(i, c) /\ c \in Connector \ moved /\ slot[j] # NoReservation /\ slot[j].at = c
    BY <1>1 DEF Claims
  <2> QED
    BY <2>1 DEF FirstCounts
<1>3. ClearedSuit'
  <2> SUFFICES ASSUME NEW c \in Connector, c \notin moved', NEW i \in 1..Slots,
                      slot'[i] # NoReservation, slot'[i].at = c, ~slot'[i].late,
                      Cleared(tx'[c])
               PROVE  \/ tx'[c].tag = slot'[i].tag
                      \/ slot'[i].parent # None /\ tx'[c].parent = slot'[i].parent
    BY DEF ClearedSuit, Claims, Suits, Cleared, Active
  <2>1. Claims(i, c) /\ c \in Connector \ moved
        /\ slot'[i].tag = slot[i].tag /\ slot'[i].parent = slot[i].parent
    BY <1>1 DEF Claims
  <2>2. Cleared(tx[c]) /\ tx'[c].tag = tx[c].tag /\ tx'[c].parent = tx[c].parent
    BY DEF NoneCleared
  <2>3. Suits(i, tx[c])
    BY <2>1, <2>2 DEF ClearedSuit
  <2> QED
    BY <2>1, <2>2, <2>3 DEF Suits
<1> QED
  BY <1>2, <1>3

\* Nothing is claimed anew while the slots and the connectors' history are as they were.
LEMMA SameClaims ==
    ASSUME TypeInv, FirstCounts, ClearedSuit, UNCHANGED <<slot, moved>>,
           NEW c \in Connector, NEW t, SetTx(c, t),
           \A i \in 1..Slots : c \notin moved /\ Claims(i, c) /\ Cleared(t) => Suits(i, t)
    PROVE  FirstCounts' /\ ClearedSuit'
<1>1. FirstCounts'
  BY DEF FirstCounts, Claims
<1>2. ClearedSuit'
  <2> SUFFICES ASSUME NEW d \in Connector, d \notin moved, NEW i \in 1..Slots, Claims(i, d),
                      Cleared(tx'[d])
               PROVE  \/ tx'[d].tag = slot[i].tag
                      \/ slot[i].parent # None /\ tx'[d].parent = slot[i].parent
    BY DEF ClearedSuit, Claims, Suits, Cleared, Active
  <2>1. CASE d = c
    <3>1. tx'[d] = t
      BY <2>1, SetTxStep
    <3> QED
      BY <2>1, <3>1 DEF Suits
  <2>2. CASE d # c
    <3>1. tx'[d] = tx[d]
      BY <2>2, SetTxStep
    <3> QED
      BY <3>1 DEF ClearedSuit, Suits
  <2> QED
    BY <2>1, <2>2
<1> QED
  BY <1>1, <1>2

\* A card at a connector that is claimed is blocked, unless the claim suits it.
LEMMA BeginKeeps ==
    ASSUME TypeInv, FirstCounts, ClearedSuit, UNCHANGED moved,
           NEW c \in Connector, NEW tag \in Tags, NEW parent \in Parent,
           NEW preauthorized \in BOOLEAN, BeginTransaction(c, tag, parent, preauthorized)
    PROVE  FirstCounts' /\ ClearedSuit'
<1> DEFINE r == Prevailing(c, tag, parent)
           foreign == r # 0 /\ ~Matches(r, tag, parent)
           rid == IF preauthorized THEN RidOf(r) ELSE -1
           t == [NoTx EXCEPT !.phase = "begun", !.auth = preauthorized, !.asked = TRUE,
                             !.blocked = foreign, !.card = TRUE, !.tag = tag, !.parent = parent,
                             !.rid = rid, !.found = RidOf(r)]
<1>1. SetTx(c, t) /\ (foreign => ~preauthorized)
  BY DEF BeginTransaction
<1>2. ASSUME NEW i \in 1..Slots, c \notin moved, Claims(i, c), ~foreign
      PROVE  tag = slot[i].tag \/ (slot[i].parent # None /\ parent = slot[i].parent)
  <2>1. r = i /\ i # 0
    BY <1>2, ClaimCounts DEF Prevailing
  <2>2. Matches(i, tag, parent)
    BY <1>2, <2>1
  <2>3. tag # None
    BY ConnectorsAssumption
  <2> QED
    BY <2>2, <2>3 DEF Matches
<1>3. foreign \in BOOLEAN
  OBVIOUS
<1> HIDE DEF foreign, rid, r
<1>4. /\ t.tag = tag /\ t.parent = parent /\ t.auth = preauthorized /\ t.blocked = foreign
  BY DEF NoTx
<1>5. UNCHANGED slot
  BY <1>1 DEF SetTx
<1> HIDE DEF t
<1>6. Cleared(t) => ~foreign
  BY <1>1, <1>3, <1>4 DEF Cleared
<1>7. ASSUME NEW i \in 1..Slots, c \notin moved, Claims(i, c), Cleared(t)
      PROVE  Suits(i, t)
  BY <1>2, <1>4, <1>6, <1>7 DEF Suits
<1> QED
  BY <1>1, <1>5, <1>7, SameClaims

\* The server's acceptance counts only if the claim suits the card or its parent.
LEMMA AcceptedKeeps ==
    ASSUME TypeInv, FirstCounts, ClearedSuit, UNCHANGED moved,
           NEW c \in Connector, NEW parent \in Parent, AuthAccepted(c, parent)
    PROVE  FirstCounts' /\ ClearedSuit'
<1> DEFINE r == Prevailing(c, tx[c].tag, parent)
<1>1. UNCHANGED slot
  BY DEF AuthAccepted, SetTx
<1>2. PICK t : /\ SetTx(c, t)
               /\ \/ r = 0 /\ t = [Accepted(c, parent) EXCEPT !.auth = TRUE]
                  \/ /\ r # 0 /\ Matches(r, Accepted(c, parent).tag, parent)
                     /\ t = [Accepted(c, parent) EXCEPT !.auth = TRUE, !.rid = slot[r].id]
                  \/ t = Inactive(Accepted(c, parent))
  BY DEF AuthAccepted, Accepted
<1>3. \A i \in 1..Slots : c \notin moved /\ Claims(i, c) => r = i /\ i # 0
  BY ClaimCounts DEF Prevailing
<1> HIDE DEF r
<1>4. ASSUME NEW i \in 1..Slots, c \notin moved, Claims(i, c), Cleared(t)
      PROVE  Suits(i, t)
  <2>1. r = i /\ i # 0
    BY <1>3, <1>4
  <2>2. t # Inactive(Accepted(c, parent))
    BY <1>4, AcceptedType, InactiveRests
  <2>3. /\ Matches(i, Answered(c).tag, parent)
        /\ t = [Accepted(c, parent) EXCEPT !.auth = TRUE, !.rid = slot[i].id]
    BY <1>2, <2>1, <2>2, AcceptedType
  <2>4. t.tag = Answered(c).tag /\ t.card = Answered(c).card /\ t.parent = parent
    BY <2>3, AcceptedType DEF Tx
  <2>5. t.tag \in Tags
    BY <1>4, <2>4, AnsweredType DEF Cleared
  <2>6. t.tag # None
    BY <2>5, ConnectorsAssumption
  <2> QED
    BY <2>3, <2>4, <2>6 DEF Matches, Suits
<1> QED
  BY <1>1, <1>2, <1>4, SameClaims

\* ReserveNow reserves a connector only while nobody uses or claims it, in the first free slot.
LEMMA BookKeeps ==
    ASSUME TypeInv, FirstCounts, ClearedSuit, NEW id \in ReservationIds, NEW c \in Place,
           NEW tag \in Tags, NEW parent \in Parent, Book(id, c, tag, parent)
    PROVE  FirstCounts' /\ ClearedSuit'
<1> DEFINE n == First(1..Slots \ Holding)
           new == NewReservation(id, c, tag, parent)
<1>1. /\ n \in 1..Slots \ Holding
      /\ \A k \in 1..Slots : k < n => k \in Holding
  BY FreeSlot DEF Book
<1>2. slot' = [slot EXCEPT ![n] = new] /\ UNCHANGED <<moved, tx>>
  BY DEF Book, Store, Unchanged
<1>3. new.at = c /\ new.tag = tag
  BY DEF NewReservation
<1>4. ReservedAt(c) = 0
  BY DEF Book, Bookable, Prevailing
<1>5. ASSUME c \in Connector
      PROVE  ~Active(tx[c]) /\ \A k \in Holding : slot[k].at # c
  <2>1. c # 0
    BY <1>5, ConnectorsAssumption DEF Connector
  <2>2. StatusNow(c) = "Available"
    BY <2>1 DEF Book, Bookable
  <2>3. ~Active(tx[c])
    BY <2>1, <2>2 DEF StatusNow, StatusOf
  <2> QED
    BY <1>4, <1>5, <2>3, BookableFree
<1> HIDE DEF n, new
<1>6. \A i \in 1..Slots : slot'[i] = IF i = n THEN new ELSE slot[i]
  BY <1>2 DEF TypeInv, TypeOK
<1>7. \A i \in 1..Slots, d \in Connector : Claims(i, d) => i \in Holding
  BY DEF Claims, Holding, Holds
<1>8. \A i \in 1..Slots : i \in Nat
  BY ConnectorsAssumption
<1>9. FirstCounts'
  <2> SUFFICES ASSUME NEW d \in Connector, d \notin moved, NEW i \in 1..Slots, NEW j \in 1..Slots,
                      j < i, slot'[i] # NoReservation, slot'[i].at = d, ~slot'[i].late,
                      slot'[j] # NoReservation, slot'[j].at = d
               PROVE  FALSE
    BY <1>2 DEF FirstCounts, Claims
  <2>1. CASE i = n
    <3>1. d = c /\ j \in Holding /\ j # n
      BY <1>1, <1>3, <1>6, <1>8, <2>1
    <3>2. slot[j].at = c
      BY <1>6, <3>1
    <3> QED
      BY <1>5, <3>1, <3>2
  <2>2. CASE i # n /\ j = n
    <3>1. d = c /\ Claims(i, d)
      BY <1>3, <1>6, <2>2 DEF Claims
    <3> QED
      BY <1>5, <1>7, <3>1 DEF Claims
  <2>3. CASE i # n /\ j # n
    <3>1. Claims(i, d) /\ slot[j] # NoReservation /\ slot[j].at = d
      BY <1>6, <2>3 DEF Claims
    <3> QED
      BY <3>1 DEF FirstCounts
  <2> QED
    BY <2>1, <2>2, <2>3
<1>10. ClearedSuit'
  <2> SUFFICES ASSUME NEW d \in Connector, d \notin moved, NEW i \in 1..Slots,
                      slot'[i] # NoReservation, slot'[i].at = d, ~slot'[i].late, Cleared(tx[d])
               PROVE  \/ tx[d].tag = slot'[i].tag
                      \/ slot'[i].parent # None /\ tx[d].parent = slot'[i].parent
    BY <1>2 DEF ClearedSuit, Claims, Suits, Cleared, Active
  <2>1. CASE i = n
    BY <1>3, <1>5, <1>6, <2>1 DEF Cleared
  <2>2. CASE i # n
    <3>1. slot'[i] = slot[i]
      BY <1>6, <2>2
    <3> QED
      BY <3>1 DEF ClearedSuit, Claims, Suits
  <2> QED
    BY <2>1, <2>2
<1> QED
  BY <1>9, <1>10

\* A reservation that is moved frees no connector of its obligations but the one it is moved to.
LEMMA RebookRests ==
    ASSUME TypeInv, NEW id \in ReservationIds, NEW c \in Place, NEW tag \in Tags,
           NEW parent \in Parent, Rebook(id, c, tag, parent)
    PROVE  NoneCleared /\ NoneClaims
<1>1. tx' = tx /\ moved' = moved \cup {c}
  BY DEF Rebook, Unchanged
<1>2. ById(id) \in 1..Slots
  BY ByIdSlot DEF Rebook
<1>3. \A i \in 1..Slots : slot'[i] = IF i = ById(id) THEN NewReservation(id, c, tag, parent)
                                     ELSE slot[i]
  BY <1>2 DEF Rebook, Store, TypeInv, TypeOK
<1>4. NewReservation(id, c, tag, parent).at = c
  BY DEF NewReservation
<1> QED
  BY <1>1, <1>3, <1>4 DEF NoneCleared, NoneClaims

LEMMA StepHonoured ==
    TypeInv /\ FirstCounts /\ ClearedSuit /\ [Next]_vars => FirstCounts' /\ ClearedSuit'
<1> SUFFICES ASSUME TypeInv, FirstCounts, ClearedSuit, [Next]_vars
             PROVE  FirstCounts' /\ ClearedSuit'
  OBVIOUS
<1>0. ASSUME tx' = tx PROVE NoneCleared
  BY <1>0 DEF NoneCleared
<1>1. CASE ServerCalls
  <2>1. ASSUME NEW c \in Connector, NEW tag \in Tags, RemoteStart(c, tag), UNCHANGED moved
        PROVE  FirstCounts' /\ ClearedSuit'
    <3> DEFINE r == Prevailing(c, tag, None)
               rid == IF r # 0 /\ Matches(r, tag, None) THEN slot[r].id ELSE -1
               t == [NoTx EXCEPT !.phase = "begun", !.auth = TRUE, !.tag = tag, !.rid = rid]
    <3>1. SetTx(c, t)
      BY <2>1 DEF RemoteStart
    <3> HIDE DEF rid
    <3>2. ~t.card
      BY DEF NoTx
    <3> HIDE DEF t
    <3>3. UNCHANGED slot
      BY <3>1 DEF SetTx
    <3> QED
      BY <2>1, <3>1, <3>2, <3>3, SameClaims DEF Cleared
  <2>2. ASSUME NEW hard, NEW agreed, Reset(hard, agreed), UNCHANGED moved
        PROVE  FirstCounts' /\ ClearedSuit'
    <3>1. tx' = [c \in Connector |-> Inactive(tx[c])] /\ slot' = slot
      BY <2>2 DEF Reset
    <3>2. \A c \in Connector : tx[c] \in Tx
      BY DEF TypeInv, TypeOK
    <3>3. NoneCleared
      BY <3>1, <3>2, InactiveRests DEF NoneCleared
    <3> QED
      BY <2>2, <3>1, <3>3, SameSlots, RestKeeps
  <2>3. ASSUME NEW id \in ReservationIds, NEW c \in Place, NEW tag \in Tags, NEW parent \in Parent,
               Rebook(id, c, tag, parent) \/ Book(id, c, tag, parent)
        PROVE  FirstCounts' /\ ClearedSuit'
    BY <2>3, BookKeeps, RebookRests, RestKeeps
  <2>4. ASSUME NEW id \in ReservationIds, CancelReservation(id)
        PROVE  FirstCounts' /\ ClearedSuit'
    <3>1. tx' = tx /\ moved' = moved /\ slot' = [slot EXCEPT ![ById(id)] = NoReservation]
      BY <2>4 DEF CancelReservation, Store, Unchanged
    <3>2. NoneClaims
      BY <3>1 DEF NoneClaims, TypeInv, TypeOK
    <3> QED
      BY <1>0, <3>1, <3>2, RestKeeps
  <2>5. CASE \/ \E c \in Place, available \in BOOLEAN :
                  ChangeAvailability(c, available) /\ UNCHANGED <<moved, maintVars>>
             \/ \E retries \in 1..UIntMax :
                  (UpdateFirmware(retries) \/ GetDiagnostics(retries)) /\ UNCHANGED moved
    <3>1. UNCHANGED <<tx, slot, moved>>
      BY <2>5 DEF ChangeAvailability, UpdateFirmware, GetDiagnostics, ConnectorsUnchanged
    <3> QED
      BY <1>0, <3>1, SameSlots, RestKeeps
  <2> QED
    BY <1>1, <2>1, <2>2, <2>3, <2>4, <2>5 DEF ServerCalls
<1>2. CASE ServerAnswers
  <2>1. UNCHANGED <<slot, moved>>
    BY <1>2 DEF ServerAnswers, AuthRejected, AuthAccepted, AuthTimeout, StopConf, SetTx
  <2>2. CASE \E c \in Connector, parent \in Parent : AuthAccepted(c, parent)
    BY <2>1, <2>2, AcceptedKeeps
  <2>3. CASE \E c \in Connector : AuthRejected(c) \/ StopConf(c)
                                  \/ \E allowed \in BOOLEAN : AuthTimeout(c, allowed)
    BY <2>1, <2>3, AnswersRest, SameSlots, RestKeeps
  <2> QED
    BY <1>2, <2>2, <2>3 DEF ServerAnswers
<1>3. CASE UserActs
  <2>1. UNCHANGED moved
    BY <1>3 DEF UserActs
  <2>2. CASE (\E c \in Connector : Plug(c)) \/ \E c \in Place : Fault(c)
    <3>1. UNCHANGED <<tx, slot>>
      BY <2>2 DEF Plug, Fault
    <3> QED
      BY <1>0, <2>1, <3>1, SameSlots, RestKeeps
  <2>3. ASSUME NEW c \in Connector, EndTransaction(c)
        PROVE  FirstCounts' /\ ClearedSuit'
    <3>1. tx[c] \in Tx
      BY DEF TypeInv, TypeOK
    <3>2. SetTx(c, Inactive(tx[c])) /\ slot' = slot
      BY <2>3 DEF EndTransaction, SetTx
    <3>3. NoneCleared
      BY <3>1, <3>2, InactiveRests, SetTxRests
    <3> QED
      BY <2>1, <3>2, <3>3, SameSlots, RestKeeps
  <2> QED
    BY <1>3, <2>1, <2>2, <2>3, BeginKeeps DEF UserActs
<1>4. CASE Expires
  <2>1. PICK i \in 1..Slots : Expire(i)
    BY <1>4 DEF Expires
  <2>2. slot[i] \in Reservation /\ slot' = [slot EXCEPT ![i] = [slot[i] EXCEPT !.late = TRUE]]
    BY <2>1 DEF Expire, TypeInv, TypeOK
  <2>3. UNCHANGED <<tx, moved>>
    BY <2>1 DEF Expire, Unchanged
  <2>4. NoneClaims
    BY <2>2, <2>3 DEF NoneClaims, TypeInv, TypeOK
  <2> QED
    BY <1>0, <2>3, <2>4, RestKeeps
<1>5. CASE JobsEnd
  <2>1. UNCHANGED <<tx, slot, moved>>
    BY <1>5 DEF JobsEnd, JobEnds, connVars
  <2> QED
    BY <1>0, <2>1, SameSlots, RestKeeps
<1>6. CASE Loop
  <2>1. ASSUME NEW lasting, ConnectorsLoop(lasting)
        PROVE  FirstCounts' /\ ClearedSuit'
    BY <2>1, LoopServes, SameSlots, RestKeeps
  <2>2. ASSUME NEW uploads, NEW late, NEW updates, MaintenanceLoop(uploads, late, updates)
        PROVE  FirstCounts' /\ ClearedSuit'
    <3>1. UNCHANGED <<tx, slot, moved>>
      BY <2>2 DEF MaintenanceLoop, ConnectorsUnchanged
    <3> QED
      BY <1>0, <3>1, SameSlots, RestKeeps
  <2>3. ASSUME NEW fails, RestLoop(fails)
        PROVE  FirstCounts' /\ ClearedSuit'
    <3>1. UNCHANGED <<tx, moved>> /\ ReservationTurn
      BY <2>3 DEF RestLoop, ConnectorsUnchanged
    <3> QED
      BY <1>0, <3>1, TurnRests, RestKeeps
  <2> QED
    BY <1>6, <2>1, <2>2, <2>3 DEF Loop
<1>7. CASE PowerCut \/ InstallReboots
  <2>1. PowerLoss /\ slot' = slot
    BY <1>7 DEF PowerCut, InstallReboots
  <2> QED
    BY <2>1, PowerRests, SameSlots, RestKeeps
<1>8. CASE ResetSucceeds
  BY <1>8, PowerRests, TurnRests, RestKeeps DEF ResetSucceeds
<1>9. CASE Boot
  BY <1>9, BootRests, RestKeeps
<1>10. CASE Accept \/ LongTime \/ UNCHANGED vars
  <2>1. UNCHANGED <<tx, slot, moved>>
    BY <1>10 DEF Accept, LongTime, vars, connVars
  <2> QED
    BY <1>0, <2>1, SameSlots, RestKeeps
<1> QED
  BY <1>1, <1>2, <1>3, <1>4, <1>5, <1>6, <1>7, <1>8, <1>9, <1>10 DEF Next

\* No card is authorized at a connector that is reserved for another tag and not for its parent
\* tag, neither by the server nor offline after its request timed out, whatever was booked,
\* cancelled, expired or rebooted between the card and the authorization; only connectors to which
\* ReserveNow moved a reservation are left out.
THEOREM OthersKeptOut == Spec => []Honoured
<1>1. Init => TypeInv /\ FirstCounts /\ ClearedSuit
  <2> SUFFICES ASSUME Init PROVE FirstCounts /\ ClearedSuit
    BY InitType
  <2>1. \A i \in 1..Slots : slot[i] = NoReservation
    BY DEF Init
  <2> QED
    BY <2>1 DEF FirstCounts, ClearedSuit, Claims
<1>2. TypeInv /\ FirstCounts /\ ClearedSuit /\ [Next]_vars
          => (TypeInv /\ FirstCounts /\ ClearedSuit)'
  BY StepType, StepHonoured
<1>3. ClearedSuit => Honoured
  BY DEF ClearedSuit, Claims, Suits, Cleared, Honoured, Holding, Holds
<1> QED
  BY <1>1, <1>2, <1>3, PTL DEF Spec

-----------------------------------------------------------------------------
(* A failing update is reported *)

\* Only a request, the service's own turn and the loss of power change the state of the service.
LEMMA FirmwareSteps ==
    ASSUME [Next]_vars
    PROVE  \/ fw' = fw /\ told' = told
           \/ /\ Idle
              /\ \E retries \in 1..UIntMax : fw' = [ResetStage(fw) EXCEPT !.retries = retries]
           \/ pc' = "off" /\ fw' = NoUpdate
           \/ /\ pc = "maintenance" /\ (fw' = Noted \/ FirmwareActs)
              /\ told' = Sent \cup IF fw.stage = "Idle" THEN {} ELSE told
<1>1. CASE ServerCalls
  BY <1>1 DEF ServerCalls, ChangeAvailability, RemoteStart, Rebook, Book, CancelReservation,
              UpdateFirmware, GetDiagnostics, Reset, maintVars
<1>2. CASE ServerAnswers \/ UserActs \/ Expires \/ JobsEnd
  BY <1>2 DEF ServerAnswers, UserActs, Expires, JobsEnd, JobEnds, maintVars
<1>3. CASE Loop
  BY <1>3 DEF Loop, ConnectorsLoop, MaintenanceLoop, FirmwareTurn, RestLoop, maintVars
<1>4. CASE PowerCut \/ ResetSucceeds \/ InstallReboots
  BY <1>4 DEF PowerCut, ResetSucceeds, InstallReboots, PowerLoss
<1>5. CASE Boot \/ Accept \/ LongTime \/ UNCHANGED vars
  BY <1>5 DEF Boot, Accept, LongTime, vars, maintVars
<1> QED
  BY <1>1, <1>2, <1>3, <1>4, <1>5 DEF Next

\* What each turn makes of the stage.
LEMMA StageSteps ==
    ASSUME NEW f \in Firmware
    PROVE  /\ \/ AfterDownload(f) = [f EXCEPT !.stage = "AfterDownload"]
              \/ /\ AfterDownload(f).stage = "AwaitInstallation"
                 /\ AfterDownload(f).install = TRUE
                 /\ AfterDownload(f).checked = f.checked
                 /\ AfterDownload(f).reported = f.reported
           /\ \A g \in {ResetStage(f), Retry(f), Finished(f)} :
                 /\ g.stage = "Idle" /\ g.install = FALSE /\ g.download = FALSE
                 /\ g.reported = f.reported /\ g.checked = f.checked
BY DEF AfterDownload, ResetStage, Retry, Finished, Firmware

\* A turn that notes a failure sends it, or the attempt has sent it before.
LEMMA NotedTold ==
    ASSUME TypeInv, StageFlags, told' = Sent \cup IF fw.stage = "Idle" THEN {} ELSE told
    PROVE  Noted.reported \in Failures => Noted.reported \in told'
<1>0. fw \in Firmware /\ fw.stage \in Stage
  BY DEF TypeInv, TypeOK, Firmware
<1>1. CASE fw.stage = "Idle"
  <2>1. ~fw.download /\ ~fw.install
    BY <1>1 DEF StageFlags
  <2>2. FirmwareStatus(fw) = "Idle"
    BY <2>1 DEF FirmwareStatus
  <2>3. Noted.reported \in {"Idle", "Installed"}
    BY <1>0, <2>2 DEF Noted, Firmware
  <2> QED
    BY <2>3 DEF Failures
<1>2. CASE fw.stage # "Idle"
  <2>1. fw.checked /\ (fw.reported \in Failures => fw.reported \in told)
    BY <1>2 DEF StageFlags
  <2>2. told' = Sent \cup told /\ Sent = {Noted.reported} \ {fw.reported, "Idle", "Installed"}
    BY <1>2, <2>1 DEF Sent
  <2> QED
    BY <2>1, <2>2 DEF Failures
<1> QED
  BY <1>1, <1>2

LEMMA StepFlags == TypeInv /\ StageFlags /\ [Next]_vars => StageFlags'
<1> SUFFICES ASSUME TypeInv, StageFlags, [Next]_vars PROVE StageFlags'
  OBVIOUS
<1>0. fw \in Firmware
  BY DEF TypeInv, TypeOK
<1>1. CASE fw' = fw /\ told' = told
  BY <1>1 DEF StageFlags
<1>2. CASE \E retries \in 1..UIntMax : fw' = [ResetStage(fw) EXCEPT !.retries = retries]
  <2>1. fw'.stage = "Idle" /\ fw'.install = FALSE /\ fw'.download = FALSE
    BY <1>0, <1>2 DEF ResetStage, Firmware
  <2> QED
    BY <2>1 DEF StageFlags
<1>3. CASE fw' = NoUpdate
  BY <1>3 DEF NoUpdate, StageFlags
<1>4. CASE /\ fw' = Noted \/ FirmwareActs
           /\ told' = Sent \cup IF fw.stage = "Idle" THEN {} ELSE told
  <2>0. Noted.reported \in Failures => Noted.reported \in told'
    BY <1>4, NotedTold
  <2>1. /\ Noted \in Firmware /\ Noted.checked
        /\ Noted.stage = fw.stage /\ Noted.download = fw.download /\ Noted.install = fw.install
    BY NotedType DEF TypeInv
  <2> DEFINE f == Noted
  <2> HIDE DEF f
  <2>2. /\ f \in Firmware /\ f.checked
        /\ f.reported \in Failures => f.reported \in told'
        /\ f.stage = "Idle" => ~f.download
        /\ f.stage \in {"Idle", "AwaitDownload", "Downloading", "AfterDownload"} => ~f.install
        /\ f.stage \in {"AwaitDownload", "Downloading"} => f.download
        /\ f.stage \in {"AwaitInstallation", "Installing"} => f.install
    BY <2>0, <2>1 DEF f, StageFlags
  <2>3. CASE fw' = f
    BY <2>2, <2>3 DEF StageFlags
  <2>4. ASSUME fw' = AfterDownload(f), ~f.install
        PROVE  StageFlags'
    <3>1. CASE fw' = [f EXCEPT !.stage = "AfterDownload"]
      <4>1. fw'.stage = "AfterDownload" /\ fw'.install = f.install /\ fw'.checked = f.checked
            /\ fw'.reported = f.reported
        BY <2>2, <3>1 DEF Firmware
      <4> QED
        BY <2>2, <2>4, <4>1 DEF StageFlags
    <3>2. CASE /\ fw'.stage = "AwaitInstallation" /\ fw'.install = TRUE
               /\ fw'.checked = f.checked /\ fw'.reported = f.reported
      BY <2>2, <3>2 DEF StageFlags
    <3> QED
      BY <2>2, <2>4, <3>1, <3>2, StageSteps
  <2>5. CASE fw' = Retry(f) \/ fw' = Finished(f)
    <3>1. fw'.stage = "Idle" /\ fw'.install = FALSE /\ fw'.download = FALSE
      BY <2>2, <2>5, StageSteps
    <3> QED
      BY <3>1 DEF StageFlags
  <2>6. CASE StartUpdate(f)
    <3>1. CASE fw' = [f EXCEPT !.stage = "AwaitDownload", !.download = TRUE]
      <4>1. /\ fw'.stage = "AwaitDownload" /\ fw'.download = TRUE
            /\ fw'.install = f.install /\ fw'.checked = f.checked
            /\ fw'.reported = f.reported
        BY <2>2, <3>1 DEF Firmware
      <4> QED
        BY <2>2, <2>6, <4>1 DEF StageFlags, StartUpdate
    <3> QED
      BY <2>2, <2>4, <2>6, <3>1 DEF StartUpdate
  <2>7. CASE StartDownload(f)
    <3>1. /\ fw'.stage = "Downloading" /\ fw'.download = f.download
          /\ fw'.install = f.install /\ fw'.checked = f.checked /\ fw'.reported = f.reported
      BY <2>2, <2>7 DEF StartDownload, Firmware
    <3> QED
      BY <2>2, <2>7, <3>1 DEF StageFlags, StartDownload
  <2>8. CASE EndDownload(f)
    <3>1. CASE fw' = [f EXCEPT !.stage = "AfterDownload"]
      <4>1. fw'.stage = "AfterDownload" /\ fw'.install = f.install /\ fw'.checked = f.checked
            /\ fw'.reported = f.reported
        BY <2>2, <3>1 DEF Firmware
      <4> QED
        BY <2>2, <2>8, <4>1 DEF StageFlags, EndDownload
    <3> QED
      BY <2>2, <2>3, <2>4, <2>5, <2>8, <3>1 DEF EndDownload
  <2>9. CASE AwaitTransactions(f)
    BY <2>2, <2>4, <2>9 DEF AwaitTransactions
  <2>10. CASE StartInstallation(f)
    <3>1. fw'.stage = "Installing" /\ fw'.install = f.install /\ fw'.checked = f.checked
          /\ fw'.reported = f.reported
      BY <2>2, <2>10 DEF StartInstallation, Firmware
    <3> QED
      BY <2>2, <2>10, <3>1 DEF StageFlags, StartInstallation
  <2>11. CASE EndInstallation(f)
    BY <2>2, <2>3, <2>5, <2>11 DEF EndInstallation
  <2> QED
    BY <1>4, <2>3, <2>6, <2>7, <2>8, <2>9, <2>10, <2>11 DEF FirmwareActs, f
<1> QED
  BY <1>1, <1>2, <1>3, <1>4, FirmwareSteps

\* The turn that gives a failing attempt up has reported it.
LEMMA GivenUpReported ==
    ASSUME TypeInv, StageFlags, [Next]_vars,
           pc = "maintenance", Fails, fw'.stage = "Idle", pc' # "off"
    PROVE  Failure \in told'
<1>0. fw \in Firmware /\ fw.stage \in {"Downloading", "Installing"}
  BY DEF TypeInv, TypeOK, Fails
<1>1. /\ Noted \in Firmware /\ Noted.stage = fw.stage
  BY NotedType DEF TypeInv
<1>2. Noted.reported = Failure
  <2>1. Noted.reported = FirmwareStatus(fw)
    BY <1>0 DEF Noted, StageFlags, Firmware
  <2>2. CASE fw.stage = "Downloading"
    BY <2>1, <2>2 DEF Fails, Failure, FirmwareStatus, StageFlags
  <2>3. CASE fw.stage = "Installing"
    BY <2>1, <2>3 DEF Fails, Failure, FirmwareStatus, StageFlags
  <2> QED
    BY <1>0, <2>2, <2>3
<1>3. told' = Sent \cup IF fw.stage = "Idle" THEN {} ELSE told
  <2>1. fw' # fw /\ ~Idle
    BY <1>0 DEF Idle
  <2> QED
    BY <2>1, FirmwareSteps
<1>4. Noted.reported \in told'
  BY <1>2, <1>3, NotedTold DEF Failure, Failures
<1> QED
  BY <1>2, <1>4

\* Whatever callbacks the application has and whatever new updates replace the one under way, an
\* attempt that failed is given up only after a message of this attempt that says so.
THEOREM FailuresReported == Spec => FailureReported
<1>1. Init => TypeInv /\ StageFlags
  BY InitType DEF Init, NoUpdate, StageFlags
<1>2. TypeInv /\ StageFlags /\ [Next]_vars => (TypeInv /\ StageFlags)'
  BY StepType, StepFlags
<1>3. TypeInv /\ StageFlags /\ [Next]_vars
          => [pc = "maintenance" /\ Fails /\ fw'.stage = "Idle" /\ pc' # "off"
                => Failure \in told']_vars
  BY GivenUpReported
<1> QED
  BY <1>1, <1>2, <1>3, PTL DEF Spec, FailureReported

=============================================================================
