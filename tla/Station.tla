------------------------------ MODULE Station ------------------------------
(***************************************************************************)
(* The charging station firmware (UART_CIMS.ino): two FreeRTOS tasks share *)
(* the tag that is logged in, the table of users and the OCPP library      *)
(* without a lock.  OCPP_Server_handle reads cards and runs the library;   *)
(* CIMS_handle processes the frames of the CIMS board with its display and *)
(* sensors.  The board and its users are external.                         *)
(***************************************************************************)
EXTENDS SerialLink, FiniteSets

CONSTANTS
    Connectors,    \* the connectors of the board
    Cards,         \* the tags on cards
    ServerTag,     \* the tag of a remote start
    NoTag,         \* the empty tag
    NoTx,          \* a connector without a transaction
    Operations,    \* bound: the names of what a budget limits
    Scenarios      \* bound: what may happen how often

Free == 255
Slots == {1, 2}
Tags == Cards \cup {NoTag}

\* Frame IDs
ConnectorStatus == 23
HmiControlTransaction == 24
IdTag == 21
CurrentValue == 32

ASSUME StationAssumption ==
    /\ 1 \in Connectors /\ Connectors \subseteq 1..3
    /\ NoTag \notin Cards /\ ServerTag \notin Tags
    /\ {"tap", "frame", "plug", "early", "remote", "noise", "reboot"} \subseteq Operations
    /\ Scenarios \subseteq [Operations -> Nat]

VARIABLES
    isAuth,     \* RAM: somebody is logged in
    idTag,      \* RAM: the tag that was read last
    userDB,     \* RAM: the users, each with a connector or Free
    reader,     \* the OCPP task: what it does next with a card
    step,       \* the CIMS task: what it does next with the frame
    pending,    \* the library: Authorize requests, by the slot they are for
    tx,         \* the library: the transactions, active or about to go
    toCims,     \* the messages to the board
    hmi,        \* the display: whether it shows a login, of which connector, what it asked for
    cable,      \* the plugs, as the sensors see them
    odd,        \* history: what happened that the firmware is not made for
    budget      \* bound

rest == <<isAuth, idTag, userDB, reader, step, pending, tx, toCims, hmi, cable, odd>>
vars == <<linkVars, rest, budget>>

Spend(op) == budget[op] > 0 /\ budget' = [budget EXCEPT ![op] = @ - 1]
Odd(what, when) == odd' = IF when THEN odd \cup {what} ELSE odd

Login(connector) == [id |-> "login", connector |-> connector]
Confirmation(connector, done) == [id |-> "confirmation", connector |-> connector, done |-> done]
Remote(what) == [id |-> what]
Message == [id : {"login"}, connector : Byte] \cup [id : {"confirmation"}, connector : Byte, done : BOOLEAN]
           \cup [id : {"begin", "end"}]

Idle == [at |-> "idle", card |-> NoTag, slot |-> 0]
Active(c) == tx[c] # NoTx /\ tx[c].active
Inactive(c) == [tx EXCEPT ![c] = [@ EXCEPT !.active = FALSE]]

\* The other task processes a logout.
LoggingOut == Started(frame) /\ Id(frame) = IdTag

-----------------------------------------------------------------------------
(* OCPP_Server_handle: readPICC *)

\* A card is ignored while somebody is logged in or both users have a connector.  If reading
\* it fails, what was in the buffer is taken for its tag.
Full == \A i \in Slots : userDB[i].connectorID # Free

Tap(card) ==
    /\ reader.at = "idle"
    /\ Spend("tap")
    /\ isAuth = 0 /\ ~Full
    /\ reader' = [Idle EXCEPT !.at = "read", !.card = card]
    /\ odd' = odd \cup (IF pending # <<>> THEN {"second card"} ELSE {}) \cup (IF card = NoTag THEN {"misread"} ELSE {})
    /\ UNCHANGED <<isAuth, idTag, userDB, step, pending, tx, toCims, hmi, cable, linkVars>>

SetTag ==
    /\ reader.at = "read"
    /\ idTag' = reader.card /\ reader' = [reader EXCEPT !.at = "look"]
    /\ UNCHANGED <<isAuth, userDB, pending, toCims>>

\* The user's slot, if he is known, else the first one without a connector.
Known(tag) == {i \in Slots : userDB[i].idTag = tag}
Least(S) == CHOOSE i \in S : \A j \in S : i <= j

AskServer ==
    /\ reader.at = "look" /\ Known(idTag) # {}
    /\ pending' = Append(pending, Least(Known(idTag)))
    /\ reader' = Idle
    /\ UNCHANGED <<isAuth, idTag, userDB, toCims>>

AddUser ==
    LET i == IF userDB[1].connectorID = Free THEN 1 ELSE 2
    IN  /\ reader.at = "look" /\ Known(idTag) = {}
        /\ userDB' = [userDB EXCEPT ![i].idTag = idTag]
        /\ reader' = [reader EXCEPT !.at = "login", !.slot = i]
        /\ UNCHANGED <<isAuth, idTag, pending, toCims>>

\* Mutant: the display is shown the connector of the other user.
ShownFirst(i) == userDB[1].connectorID

\* The connector with which a login is shown.
Shown(i) == userDB[i].connectorID

LogIn ==
    /\ reader.at = "login"
    /\ isAuth' = 1 /\ toCims' = Append(toCims, Login(Shown(reader.slot)))
    /\ reader' = Idle
    /\ UNCHANGED <<idTag, userDB, pending>>

ReadCard ==
    /\ SetTag \/ AskServer \/ AddUser \/ LogIn
    /\ Odd("overlap", LoggingOut)
    /\ UNCHANGED <<step, tx, hmi, cable, linkVars, budget>>

-----------------------------------------------------------------------------
(* OCPP_Server_handle: mocpp_loop *)

\* The answer to an Authorize request; without one there is no callback.
Authorized ==
    /\ reader.at = "idle" /\ pending # <<>>
    /\ pending' = Tail(pending)
    /\ \/ isAuth' = 0 /\ UNCHANGED toCims
       \/ UNCHANGED <<isAuth, toCims>>
       \/ isAuth' = 1 /\ toCims' = Append(toCims, Login(Shown(Head(pending))))
    /\ Odd("overlap", LoggingOut)
    /\ UNCHANGED <<idTag, userDB, reader, step, tx, hmi, cable, linkVars, budget>>

\* The library gives a transaction up: rejected, not plugged in time, unplugged, stopped ...
GivesUp(c) == Active(c) /\ tx' = Inactive(c)
\* ... and leaves it when it is reported.
Leaves(c) == tx[c] # NoTx /\ ~tx[c].active /\ tx' = [tx EXCEPT ![c] = NoTx]

Library ==
    /\ reader.at = "idle" /\ \E c \in Connectors : GivesUp(c) \/ Leaves(c)
    /\ UNCHANGED <<isAuth, idTag, userDB, reader, step, pending, toCims, hmi, cable, odd, linkVars, budget>>

RemoteControl(c) ==
    /\ reader.at = "idle" /\ Spend("remote")
    /\ \/ tx[c] = NoTx /\ tx' = [tx EXCEPT ![c] = [tag |-> ServerTag, active |-> TRUE]]
          /\ toCims' = Append(toCims, Remote("begin"))
       \/ Active(c) /\ tx' = Inactive(c) /\ toCims' = Append(toCims, Remote("end"))
    /\ Odd("remote", TRUE)
    /\ UNCHANGED <<isAuth, idTag, userDB, reader, step, pending, hmi, cable, linkVars>>

-----------------------------------------------------------------------------
(* CIMS_handle: process.  A step of it is what it does between two looks at what the tasks *)
(* share; calls of the library are taken as one.                                           *)

Is(id, at) == Started(frame) /\ Id(frame) = id /\ step = at
Done == step' = "enter" /\ Processed
Proceed(at) == step' = at /\ UNCHANGED linkVars
OfConnector(c) == {i \in Slots : userDB[i].connectorID = c}

\* ID_TAG: the display logs out.
LogOut ==
    /\ Is(IdTag, "enter")
    /\ isAuth' = Data(frame) /\ Proceed("check")
    /\ UNCHANGED <<idTag, userDB, tx, toCims>>

ClearTag ==
    /\ Is(IdTag, "check")
    /\ IF isAuth = 0 THEN idTag' = NoTag /\ Proceed("clear") ELSE UNCHANGED idTag /\ Done
    /\ UNCHANGED <<isAuth, userDB, tx, toCims>>

ClearAuth ==
    /\ Is(IdTag, "clear")
    /\ isAuth' = 0 /\ Proceed("release")
    /\ UNCHANGED <<idTag, userDB, tx, toCims>>

\* Mutant: a user who charges is forgotten as well.
MayForgetAny(c) == TRUE

\* The user of a connector without a transaction is forgotten.
MayForget(c) == c \notin Connectors \/ tx[c] = NoTx

Release ==
    /\ Is(IdTag, "release")
    /\ userDB' = IF MayForget(Connector(frame)) /\ OfConnector(Connector(frame)) # {}
                 THEN [userDB EXCEPT ![Least(OfConnector(Connector(frame)))] = [idTag |-> NoTag, connectorID |-> Free]]
                 ELSE userDB
    /\ Done
    /\ UNCHANGED <<isAuth, idTag, tx, toCims>>

\* CONNECTOR_STATUS: a plugged cable becomes that of the user who is logged in.
Plugged ==
    /\ Is(ConnectorStatus, "enter")
    /\ IF Data(frame) # 0 THEN Proceed("bind") ELSE Done
    /\ UNCHANGED <<isAuth, idTag, userDB, tx, toCims>>

Bind ==
    /\ Is(ConnectorStatus, "bind")
    /\ userDB' = IF Known(idTag) = {} THEN userDB
                 ELSE [userDB EXCEPT ![Least(Known(idTag))].connectorID = Connector(frame)]
    /\ Done
    /\ UNCHANGED <<isAuth, idTag, tx, toCims>>

\* HMI_CONTROL_TRANSACTION: endTransaction of the library compares the tag with that of the
\* transaction of connector 1, whichever is to be ended.
Begin(c, ok) ==
    IF tx[c] # NoTx THEN UNCHANGED <<tx, toCims>>
    ELSE /\ tx' = IF ok THEN [tx EXCEPT ![c] = [tag |-> idTag, active |-> TRUE]] ELSE tx
         /\ toCims' = Append(toCims, Confirmation(c, ok))

\* Mutant: the comparison is the wrong way round.
MatchesInverted(tag) == tx[1] # NoTx /\ tx[1].tag # tag

Matches(tag) == tx[1] # NoTx /\ tx[1].tag = tag

End(c) ==
    /\ tx' = IF Active(c) /\ Matches(idTag) THEN Inactive(c) ELSE tx
    /\ toCims' = Append(toCims, Confirmation(c, tx[c] # NoTx))

\* Without a transaction at connector 1 there is no tag to compare with: the comparison may
\* read anything.
NothingToCompare(c) == Active(c) /\ tx[1] = NoTx

Control ==
    LET c == Connector(frame)
    IN  /\ Is(HmiControlTransaction, "enter")
        /\ IF Data(frame) = 0 THEN ~NothingToCompare(c) /\ End(c) ELSE \E ok \in BOOLEAN : Begin(c, ok)
        /\ Done
        /\ UNCHANGED <<isAuth, idTag, userDB>>

\* The values and states of the others are kept for the library.
Other ==
    /\ Started(frame) /\ Id(frame) \notin {IdTag, ConnectorStatus, HmiControlTransaction}
    /\ Done
    /\ UNCHANGED <<isAuth, idTag, userDB, tx, toCims>>

Process ==
    /\ LogOut \/ ClearTag \/ ClearAuth \/ Release \/ Plugged \/ Bind \/ Control \/ Other
    /\ Odd("overlap", LoggingOut /\ reader.at # "idle")
    /\ UNCHANGED <<reader, pending, hmi, cable, budget>>

ReadBytes == Read /\ UNCHANGED <<rest, budget>>

-----------------------------------------------------------------------------
(* The CIMS board and its users *)

Request(id, c, data) == Frame(<<id, 0, 0, c, data>>)
SendRequest(f) == Len(wire) <= Size /\ Send(f)

\* Somebody logs in, plugs a cable in, has the transaction begun and ended, and logs out.
DisplayHears ==
    LET m == Head(toCims)
    IN  /\ toCims # <<>> /\ toCims' = Tail(toCims)
        /\ hmi' = CASE m.id = "login" -> [shows |-> TRUE, connector |-> m.connector, asks |-> FALSE]
                     [] m.id = "confirmation" -> [hmi EXCEPT !.asks = FALSE]
                     [] OTHER -> hmi
        /\ UNCHANGED <<cable, odd, linkVars, budget>>

DisplayLogsOut ==
    /\ hmi.shows /\ Spend("frame")
    /\ SendRequest(Request(IdTag, hmi.connector, 0))
    /\ hmi' = [hmi EXCEPT !.shows = FALSE]
    /\ UNCHANGED <<cable, odd, toCims>>

DisplayAsks ==
    /\ hmi.shows /\ hmi.connector \in Connectors /\ ~hmi.asks /\ Spend("frame")
    /\ \E data \in {0, 1} : SendRequest(Request(HmiControlTransaction, hmi.connector, data))
    /\ hmi' = [hmi EXCEPT !.asks = TRUE]
    /\ UNCHANGED <<cable, odd, toCims>>

PlugIn(c) ==
    /\ ~cable[c] /\ hmi.shows /\ hmi.connector = Free /\ Spend("plug")
    /\ SendRequest(Request(ConnectorStatus, c, 1))
    /\ cable' = [cable EXCEPT ![c] = TRUE] /\ hmi' = [hmi EXCEPT !.connector = c]
    /\ UNCHANGED <<odd, toCims>>

\* A cable is plugged in without a login, or besides the one of the user.
PlugInEarly(c) ==
    /\ ~cable[c] /\ ~(hmi.shows /\ hmi.connector = Free) /\ Spend("early")
    /\ SendRequest(Request(ConnectorStatus, c, 1))
    /\ cable' = [cable EXCEPT ![c] = TRUE]
    /\ Odd("early", TRUE) /\ UNCHANGED <<hmi, toCims>>

Unplug(c) ==
    /\ cable[c] /\ ~Active(c) /\ Spend("plug")
    /\ SendRequest(Request(ConnectorStatus, c, 0))
    /\ cable' = [cable EXCEPT ![c] = FALSE]
    /\ UNCHANGED <<hmi, odd, toCims>>

Noisy ==
    /\ Spend("noise") /\ Disturb /\ Odd("noise", TRUE)
    /\ UNCHANGED <<hmi, cable, toCims>>

Board ==
    /\ \/ DisplayHears \/ DisplayLogsOut \/ DisplayAsks \/ Noisy
       \/ \E c \in Connectors : PlugIn(c) \/ PlugInEarly(c) \/ Unplug(c)
    /\ UNCHANGED <<isAuth, idTag, userDB, reader, step, pending, tx>>

-----------------------------------------------------------------------------

NoUsers == [i \in Slots |-> [idTag |-> NoTag, connectorID |-> Free]]

\* The station starts again; transactions are in flash.
Restart ==
    /\ isAuth' = 0 /\ idTag' = NoTag /\ userDB' = NoUsers
    /\ reader' = Idle /\ step' = "enter" /\ pending' = <<>> /\ toCims' = <<>>
    /\ LinkLost
    /\ Odd("reboot", TRUE)
    /\ UNCHANGED <<tx, hmi, cable>>

Reboot == Spend("reboot") /\ Restart

Crash ==
    /\ Is(HmiControlTransaction, "enter") /\ Data(frame) = 0 /\ NothingToCompare(Connector(frame))
    /\ Restart /\ UNCHANGED budget

Init ==
    /\ isAuth = 0 /\ idTag = NoTag /\ userDB = NoUsers
    /\ reader = Idle /\ step = "enter" /\ pending = <<>> /\ toCims = <<>>
    /\ tx = [c \in Connectors |-> NoTx]
    /\ hmi = [shows |-> FALSE, connector |-> Free, asks |-> FALSE]
    /\ cable = [c \in Connectors |-> FALSE] /\ odd = {}
    /\ budget \in Scenarios
    /\ LinkInit

Next ==
    \/ \E card \in Tags : Tap(card)
    \/ ReadCard \/ Authorized \/ Library
    \/ \E c \in Connectors : RemoteControl(c)
    \/ ReadBytes \/ Process
    \/ Board \/ Reboot \/ Crash

Spec == Init /\ [][Next]_vars

-----------------------------------------------------------------------------
(* Properties *)

Calm(what) == odd \cap what = {}
Quiet == wire = <<>> /\ frame = <<>> /\ toCims = <<>> /\ reader = Idle /\ pending = <<>>
User(tag, c) == \E i \in Slots : userDB[i] = [idTag |-> tag, connectorID |-> c]

\* The state has its types; the parser never holds more than a frame.  What noise looks like may be
\* a frame with any values in it; without noise the values are those that the board sends.
\* (CIMS_handle, readPICC)
TypeOK ==
    /\ LinkTypeOK
    /\ isAuth \in Byte /\ idTag \in Tags
    /\ userDB \in [Slots -> [idTag : Tags, connectorID : Byte]]
    /\ reader \in [at : {"idle", "read", "look", "login"}, card : Tags, slot : Slots \cup {0}]
    /\ step \in {"enter", "check", "clear", "release", "bind"}
    /\ pending \in Seq(Slots)
    /\ tx \in [Connectors -> {NoTx} \cup [tag : Tags \cup {ServerTag}, active : BOOLEAN]]
    /\ toCims \in Seq(Message)
    /\ hmi \in [shows : BOOLEAN, connector : Byte, asks : BOOLEAN]
    /\ cable \in [Connectors -> BOOLEAN]
    /\ Calm({"noise"}) => isAuth \in {0, 1} /\ \A i \in Slots : userDB[i].connectorID \in Connectors \cup {Free}

\* Wherever bytes are lost, the parser is in step again after one frame: of the frames that
\* are sent whole from then on at most the first is missed, as long as no header byte stands
\* within them; and none as long as nothing is lost.
\* (CIMS_handle)
Resync == missed <= IF "noise" \in odd THEN 1 ELSE 0

\* When nothing is under way, the display shows a login if and only if the station has one,
\* with the connector that the station keeps for the tag it has read.  Six incidents are exempt:
\* a card that is read while the other task processes a logout (overlap) or while an answer to
\* Authorize is due (second card), a plug without a login (early), bytes that are lost (noise), a
\* card that is not read properly (misread), a restart that the display does not notice (reboot).
\* (readPICC, process: ID_TAG, CONNECTOR_STATUS)
Agreed ==
    Quiet /\ Calm({"overlap", "second card", "noise", "reboot", "misread", "early"}) =>
        /\ hmi.shows <=> isAuth = 1
        /\ hmi.shows => User(idTag, hmi.connector)

\* As long as a transaction that a user began is active, the station keeps him with its
\* connector, over logouts, other users, remote stops and what the library gives up: his card is known
\* when he comes back.  The tasks interleave, but for the six incidents that Agreed exempts.
\* (process: ID_TAG, readPICC)
KeepsUser ==
    Calm({"overlap", "second card", "noise", "reboot", "misread", "early"}) =>
        \A c \in Connectors : Active(c) /\ tx[c].tag # ServerTag => User(tx[c].tag, c)

\* When the display is told that its request to end was carried out, the transaction ends:
\* at connector 1, with its only user.  Of two users who plugged in there one after the other, one
\* is told so although the transaction of the other goes on.
\* (hmiTranControl, endTransaction)
Confirmed ==
    [][ /\ Is(HmiControlTransaction, "enter") /\ Data(frame) = 0 /\ Connector(frame) = 1
        /\ \A i, j \in OfConnector(1) : i = j
        /\ Calm({"overlap", "second card", "noise", "reboot", "misread", "early", "remote"})
        /\ toCims' = Append(toCims, Confirmation(1, TRUE))
        => ~tx'[1].active ]_vars

=============================================================================
