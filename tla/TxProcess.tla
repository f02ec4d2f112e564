------------------------------ MODULE TxProcess ------------------------------
(***************************************************************************)
(* The transaction process of one Connector and its journal in flash       *)
(* (ConnectorTransactionStore): allocation of a transaction number,        *)
(* authorization, StartTransaction, StopTransaction, the clean-up of       *)
(* aborted and silent transactions, and the recovery after a reset.        *)
(*                                                                         *)
(* The requests of the process go through the request queue, of which this *)
(* module uses what RequestQueue shows: it is first-in first-out, and the  *)
(* StartTransactions and StopTransactions in it are op files that outlive  *)
(* a reset.  A transaction object is shared by the connector and by the    *)
(* requests about it; `obj' is the heap of these objects and `cache' the   *)
(* weak references by which the store finds them again.                    *)
(*                                                                         *)
(* A handler is split at its flash writes; `pc' says which comes next.     *)
(***************************************************************************)
EXTENDS Integers, Sequences, FiniteSets, SequencesExt

CONSTANTS
    TxCnt,           \* MAX_TX_CNT: transaction numbers, and file names, wrap here
    RecordSize,      \* MO_TXRECORD_SIZE: transactions the journal holds
    SilentOffline,   \* the values SilentOfflineTransactions may have, for the server sets it
    PreBoot,         \* the configuration PreBootTransactions
    StopOnInvalidId, \* the values StopTransactionOnInvalidId may have
    CutPoints,       \* the values of pc at which the power may be cut
    FirstTxNr,       \* the next transaction number at the beginning: 0 for a new device
    ObjId,           \* bound: the objects that exist at any time, positive numbers
    MaxSessions,     \* bound: sessions begun in a behaviour
    MaxPowerCuts     \* bound: power cuts in a behaviour

Places == {"idle", "trim", "trimmed", "alloc", "evicted", "created", "begin", "collect",
           "silent", "start1", "start2", "stop1", "stop2", "pop", "fetch", "skip"}

ASSUME TxAssumption ==
    /\ TxCnt \in Nat /\ RecordSize \in Nat \ {0} /\ RecordSize + 1 < TxCnt
    /\ FirstTxNr \in 0..(TxCnt - 1)
    /\ SilentOffline \subseteq BOOLEAN /\ StopOnInvalidId \subseteq BOOLEAN
    /\ PreBoot \in BOOLEAN
    /\ CutPoints \subseteq Places
    /\ ObjId \subseteq Nat \ {0}
    /\ MaxSessions \in Nat /\ MaxPowerCuts \in Nat

VARIABLES
    txBegin, txEnd, \* flash: the journal holds the numbers from txBegin up to txEnd
    file,           \* flash: the transaction files
    queue,          \* the pending requests; those that are not "auth" are also in flash
    tx,             \* RAM: the connector's transaction, or 0
    obj,            \* RAM: the transaction objects
    cache,          \* RAM: the store's weak references to them
    registered,     \* RAM: the server accepted this boot (and set the clock)
    pc, work,       \* the running handler, and what it works on
    sessions, cuts, \* sessions begun and boots ended so far
    opLog,          \* history: the op files written, in order
    closed,         \* history: sessions of which the server answered the StopTransaction
    lost,           \* history: sessions of which a message could not be restored
    stranded        \* history: sessions whose number was given back while their Authorize
                    \*   request was pending

flash == <<txBegin, txEnd, file>>
heap  == <<obj, cache>>
ctl   == <<pc, work>>
history == <<opLog, closed, lost, stranded>>
vars  == <<flash, queue, tx, heap, registered, ctl, sessions, cuts, history>>

-----------------------------------------------------------------------------

TxNr == 0..(TxCnt - 1)
BootNr == cuts + 1

\* `start' is the StartTx time: -1 not set, 0 known, b > 0 taken in boot b before the clock was set.
Tx == [txNr : TxNr, session : Nat, active : BOOLEAN, authorized : BOOLEAN,
       deauthorized : BOOLEAN, begun : BOOLEAN, start : Nat \cup {-1},
       startReq : BOOLEAN, startConf : BOOLEAN, stopReq : BOOLEAN, stopConf : BOOLEAN,
       silent : BOOLEAN]

\* The transaction of a fresh object.
NewTx(n, session, silent) ==
    [txNr |-> n, session |-> session, active |-> TRUE, authorized |-> FALSE,
     deauthorized |-> FALSE, begun |-> FALSE, start |-> -1,
     startReq |-> FALSE, startConf |-> FALSE, stopReq |-> FALSE, stopConf |-> FALSE,
     silent |-> silent]

NoTx == NewTx(0, 0, FALSE)

\* A pending request; o = 0: its operation was not restored from flash yet.
Request == [kind : {"auth", "start", "stop"}, o : ObjId \cup {0}, txNr : TxNr, session : Nat]
Op == [kind : {"start", "stop"}, session : Nat]
How == {"authorize", "preauthorized", "authorized"}
Work == [o : ObjId \cup {0}, how : How]
NoWork == [o |-> 0, how |-> "authorized"]

\* Mutants: a transaction runs once the server confirmed it; it is aborted whenever it ended.
IsRunningConfirmed(t) == t.startConf /\ ~t.stopReq
IsAbortedEnded(t) == ~t.active

IsRunning(t) == t.startReq /\ ~t.stopReq
IsAborted(t) == ~t.startReq /\ ~t.active
IsCompleted(t) == t.stopConf

NextNrUnwrapped(n) == n + 1   \* mutant: the transaction number does not wrap around
NextNr(n) == (n + 1) % TxCnt
PrevNr(n) == (n + TxCnt - 1) % TxCnt
Size == (txEnd + TxCnt - txBegin) % TxCnt

\* What is left of s if only the places in S are kept, in order.  (SelectSeq is recursive, so
\* that nothing could be proved of it.)
Nth(S, k) == CHOOSE i \in S : Cardinality({j \in S : j < i}) = k - 1
Keep(s, S) == [k \in 1..Cardinality(S) |-> s[Nth(S, k)]]

\* An object exists as long as the connector, a request or the running handler refers to it.
Alive(o) == o # 0 /\ (o \in {tx, work.o} \/ \E i \in DOMAIN queue : queue[i].o = o)

\* getTransaction looks at the newest reference first and then at the others, oldest first.
Finds(o, n) == Alive(o) /\ obj[o].txNr = n
Cached(n) ==
    IF cache # <<>> /\ Finds(Last(cache), n) THEN Last(cache)
    ELSE IF \E i \in DOMAIN cache : Finds(cache[i], n)
         THEN cache[CHOOSE i \in DOMAIN cache :
                        Finds(cache[i], n) /\ \A j \in 1..(i - 1) : ~Finds(cache[j], n)]
         ELSE 0

Exists(n) == Cached(n) # 0 \/ file[n] # NoTx
Look(n) == IF Cached(n) # 0 THEN obj[Cached(n)] ELSE file[n]

\* A new object (they are interchangeable: the first free one is taken).  The store collects
\* its references to objects that are gone.
Fresh(o) == ~Alive(o) /\ \A p \in ObjId : p < o => Alive(p)
AddObject(o, t) ==
    /\ obj' = [p \in ObjId |-> IF p = o THEN t ELSE IF Alive(p) THEN obj[p] ELSE NoTx]
    /\ cache' = Append(Keep(cache, {i \in DOMAIN cache : Alive(cache[i])}), o)

Commit(t) == file' = [file EXCEPT ![t.txNr] = t]
Delete(n) == file' = [file EXCEPT ![n] = NoTx]

\* An object is changed and committed.
Update(o, t) == obj' = [obj EXCEPT ![o] = t] /\ Commit(t)

\* A completed transaction, the history of a device that was in use before.
OldTx(n) == [NewTx(n, 0, FALSE) EXCEPT !.active = FALSE, !.authorized = TRUE, !.begun = TRUE,
                 !.start = 0, !.startReq = TRUE, !.startConf = TRUE,
                 !.stopReq = TRUE, !.stopConf = TRUE]

\* The device is off.  A new one has an empty journal, one that was in use has some history.
Init ==
    /\ txBegin = IF FirstTxNr = 0 THEN 0 ELSE FirstTxNr - 1
    /\ txEnd = FirstTxNr
    /\ file = [n \in TxNr |-> IF n = FirstTxNr - 1 THEN OldTx(n) ELSE NoTx]
    /\ queue = <<>>
    /\ tx = 0 /\ obj = [o \in ObjId |-> NoTx] /\ cache = <<>>
    /\ registered = FALSE
    /\ pc = "off" /\ work = NoWork
    /\ sessions = 0 /\ cuts = 0
    /\ opLog = <<>> /\ closed = {} /\ lost = {} /\ stranded = {}

-----------------------------------------------------------------------------
(* beginTransaction: allocate a number *)

Begin(how) ==
    /\ pc = "idle"
    /\ tx = 0
    /\ sessions < MaxSessions
    /\ sessions' = sessions + 1
    /\ pc' = "trim"
    /\ work' = [NoWork EXCEPT !.how = how]
    /\ UNCHANGED <<flash, queue, tx, heap, registered, cuts, history>>

\* Entries at the end of the journal that are of no use.
Trimmable(n) == ~Exists(n) \/ Look(n).silent \/ IsAborted(Look(n))

\* First the end of the journal is cleaned: the file goes, then txEnd is moved back.
Trim ==
    /\ pc = "trim"
    /\ Size > 0 /\ Trimmable(PrevNr(txEnd))
    /\ Delete(PrevNr(txEnd))
    /\ pc' = "trimmed"
    /\ UNCHANGED <<txBegin, txEnd, queue, tx, heap, registered, work, sessions, cuts, history>>

TrimSave ==
    /\ pc = "trimmed"
    /\ txEnd' = PrevNr(txEnd)
    /\ pc' = "trim"
    /\ UNCHANGED <<txBegin, file, queue, tx, heap, registered, work, sessions, cuts, history>>

TrimEnd ==
    /\ pc = "trim"
    /\ Size = 0 \/ ~Trimmable(PrevNr(txEnd))
    /\ pc' = "alloc"
    /\ UNCHANGED <<flash, queue, tx, heap, registered, work, sessions, cuts, history>>

\* createTransaction saves txEnd before it writes the file.
CreateTransaction(o, silent) ==
    /\ Fresh(o)
    /\ AddObject(o, NewTx(txEnd, sessions, silent))
    /\ txEnd' = NextNr(txEnd)
    /\ work' = [work EXCEPT !.o = o]
    /\ pc' = "created"
    /\ UNCHANGED <<txBegin, file, queue, tx, registered, sessions, cuts, history>>

Create(o) ==
    /\ pc = "alloc"
    /\ Size < RecordSize
    /\ CreateTransaction(o, FALSE)

\* The journal is full: its oldest entry makes room if it is history.
EvictableRequested(n) == ~Exists(n) \/ Look(n).stopReq \/ IsAborted(Look(n))   \* mutant
Evictable(n) == ~Exists(n) \/ IsCompleted(Look(n)) \/ IsAborted(Look(n))

Evict ==
    /\ pc = "alloc"
    /\ Size >= RecordSize /\ Evictable(txBegin)
    /\ Delete(txBegin)
    /\ pc' = "evicted"
    /\ UNCHANGED <<txBegin, txEnd, queue, tx, heap, registered, work, sessions, cuts, history>>

EvictSave ==
    /\ pc = "evicted"
    /\ txBegin' = NextNr(txBegin)
    /\ pc' = "alloc"
    /\ UNCHANGED <<txEnd, file, queue, tx, heap, registered, work, sessions, cuts, history>>

\* There is no room: charge without a real transaction, or not at all.
CreateSilent(o) ==
    /\ pc = "alloc"
    /\ Size >= RecordSize /\ ~Evictable(txBegin)
    /\ TRUE \in SilentOffline
    /\ CreateTransaction(o, TRUE)

Refuse ==
    /\ pc = "alloc"
    /\ Size >= RecordSize /\ ~Evictable(txBegin)
    /\ FALSE \in SilentOffline
    /\ pc' = "idle" /\ work' = NoWork
    /\ UNCHANGED <<flash, queue, tx, heap, registered, sessions, cuts, history>>

CreateCommit ==
    /\ pc = "created"
    /\ Commit(obj[work.o])
    /\ pc' = "begin"
    /\ UNCHANGED <<txBegin, txEnd, queue, tx, heap, registered, work, sessions, cuts, history>>

\* The ID tag and the begin time are known now; an Authorize request is sent unless the
\* caller vouches for the tag.
BeginCommit ==
    LET t == [obj[work.o] EXCEPT !.begun = registered,
                                 !.authorized = work.how # "authorize"]
    IN
    /\ pc = "begin"
    /\ Update(work.o, t)
    /\ tx' = work.o
    /\ queue' = IF work.how = "authorized" THEN queue
                ELSE Append(queue, [kind |-> "auth", o |-> work.o, txNr |-> t.txNr,
                                    session |-> t.session])
    /\ pc' = "idle" /\ work' = NoWork
    /\ UNCHANGED <<txBegin, txEnd, cache, registered, sessions, cuts, history>>

-----------------------------------------------------------------------------
(* Connector::loop *)

\* The connector loops once the server accepted the boot, or before if PreBootTransactions is
\* set.  The inputs (plug, faults, ready signals) may have any value, so that every stage of
\* the loop whose other conditions hold may or may not be executed.
Looping == pc = "idle" /\ (registered \/ PreBoot)
AuthPending(o) == \E i \in DOMAIN queue : queue[i].kind = "auth" /\ queue[i].o = o

\* The active transaction ends.
Deactivate ==
    /\ obj[tx].active
    /\ Update(tx, [obj[tx] EXCEPT !.active = FALSE])
    /\ UNCHANGED <<txBegin, txEnd, queue, tx, cache, registered, ctl, sessions, cuts, history>>

EndTransaction ==
    /\ pc = "idle"
    /\ tx # 0
    /\ Deactivate

EvDisconnects ==
    /\ Looping
    /\ tx # 0 /\ IsRunning(obj[tx])
    /\ Deactivate

ConnectionTimeout ==
    /\ Looping /\ registered
    /\ tx # 0 /\ ~obj[tx].startReq /\ obj[tx].begun
    /\ Deactivate

DeAuthorize ==
    /\ Looping
    /\ tx # 0 /\ obj[tx].deauthorized
    /\ ~IsRunning(obj[tx]) \/ TRUE \in StopOnInvalidId
    /\ Deactivate

\* Mutant: the file of an aborted transaction stays.
CollectAbortedKeepsFile ==
    /\ Looping
    /\ tx # 0 /\ IsAborted(obj[tx])
    /\ pc' = "collect"
    /\ UNCHANGED <<flash, queue, tx, heap, registered, work, sessions, cuts, history>>

\* An aborted transaction is wiped out: its file goes, then txEnd is rolled back.
CollectAborted ==
    /\ Looping
    /\ tx # 0 /\ IsAborted(obj[tx])
    /\ Delete(obj[tx].txNr)
    /\ pc' = "collect"
    /\ UNCHANGED <<txBegin, txEnd, queue, tx, heap, registered, work, sessions, cuts, history>>

RollBack ==
    /\ txEnd' = obj[tx].txNr
    /\ tx' = 0
    /\ pc' = "idle"
    /\ stranded' = IF AuthPending(tx) THEN stranded \cup {obj[tx].session} ELSE stranded
    /\ UNCHANGED <<txBegin, file, queue, heap, registered, work, sessions, cuts, opLog, closed, lost>>

CollectSave == pc = "collect" /\ RollBack

CollectCompleted ==
    /\ Looping
    /\ tx # 0 /\ ~IsAborted(obj[tx]) /\ IsCompleted(obj[tx])
    /\ tx' = 0
    /\ UNCHANGED <<flash, queue, heap, registered, ctl, sessions, cuts, history>>

MayStart(t) == ~IsRunning(t) /\ ~IsCompleted(t) /\ t.active /\ t.authorized
MayStopConfirmed(t) == IsRunning(t) /\ t.startConf /\ ~t.active   \* mutant
MayStop(t)  == IsRunning(t) /\ ~IsCompleted(t) /\ ~t.active

StartTx ==
    LET t == [obj[tx] EXCEPT !.start = IF @ = 0 \/ registered THEN 0 ELSE BootNr] IN
    /\ Looping
    /\ tx # 0 /\ MayStart(obj[tx]) /\ ~t.silent
    /\ Update(tx, t)
    /\ pc' = "start1" /\ work' = [work EXCEPT !.o = tx]
    /\ UNCHANGED <<txBegin, txEnd, queue, tx, cache, registered, sessions, cuts, history>>

StartSilent ==
    /\ Looping
    /\ tx # 0 /\ MayStart(obj[tx]) /\ obj[tx].silent
    /\ Update(tx, [obj[tx] EXCEPT !.start = IF @ = 0 \/ registered THEN 0 ELSE BootNr,
                                  !.startReq = TRUE, !.startConf = TRUE])
    /\ UNCHANGED <<txBegin, txEnd, queue, tx, cache, registered, ctl, sessions, cuts, history>>

\* The StopTransaction request takes the transaction over from the connector.
StopTx ==
    /\ Looping
    /\ tx # 0 /\ MayStop(obj[tx]) /\ ~obj[tx].silent
    /\ Commit(obj[tx])
    /\ pc' = "stop1" /\ work' = [work EXCEPT !.o = tx]
    /\ tx' = 0
    /\ UNCHANGED <<txBegin, txEnd, queue, heap, registered, sessions, cuts, history>>

StopSilent ==
    /\ Looping
    /\ tx # 0 /\ MayStop(obj[tx]) /\ obj[tx].silent
    /\ Delete(obj[tx].txNr)
    /\ pc' = "silent"
    /\ UNCHANGED <<txBegin, txEnd, queue, tx, heap, registered, work, sessions, cuts, history>>

SilentSave == pc = "silent" /\ RollBack

\* Request::initiate: the op file is written first ...
InitiateOp(kind, next) ==
    LET t == obj[work.o] IN
    /\ queue' = Append(queue, [kind |-> kind, o |-> work.o, txNr |-> t.txNr,
                               session |-> t.session])
    /\ opLog' = Append(opLog, [kind |-> kind, session |-> t.session])
    /\ pc' = next
    /\ UNCHANGED <<flash, tx, heap, registered, work, sessions, cuts, closed, lost, stranded>>

\* ... and the transaction notes it afterwards.
InitiateTx(t) ==
    /\ Update(work.o, t)
    /\ pc' = "idle" /\ work' = NoWork
    /\ UNCHANGED <<txBegin, txEnd, queue, tx, cache, registered, sessions, cuts, history>>

Initiate ==
    \/ pc = "start1" /\ InitiateOp("start", "start2")
    \/ pc = "start2" /\ InitiateTx([obj[work.o] EXCEPT !.startReq = TRUE])
    \/ pc = "stop1" /\ InitiateOp("stop", "stop2")
    \/ pc = "stop2" /\ InitiateTx([obj[work.o] EXCEPT !.stopReq = TRUE])

-----------------------------------------------------------------------------
(* Answers and timeouts *)

\* The callbacks of an Authorize request, whatever became of its transaction in the meantime:
\* the tag is accepted, rejected, or the session ends (reservation conflict, offline).
AuthResults == {"authorized", "deauthorized", "inactive"}
Decide(t, result) ==
    [t EXCEPT !.authorized = @ \/ result = "authorized",
              !.deauthorized = @ \/ result = "deauthorized",
              !.active = @ /\ result # "inactive"]

AuthCallback(i, result) ==
    /\ queue[i].kind = "auth"
    /\ Update(queue[i].o, Decide(obj[queue[i].o], result))
    /\ queue' = RemoveAt(queue, i)
    /\ UNCHANGED <<txBegin, txEnd, tx, cache, registered, ctl, sessions, cuts, history>>

AuthTimeout(i, result) ==
    /\ pc = "idle"
    /\ result # "deauthorized"
    /\ AuthCallback(i, result)

\* The head of the queue is with the server.
Served(kind) ==
    /\ pc = "idle" /\ registered
    /\ queue # <<>> /\ Head(queue).kind = kind /\ Head(queue).o # 0

AuthAnswer(result) == Served("auth") /\ AuthCallback(1, result)

\* Authorize has no error listener.
AuthError ==
    /\ Served("auth")
    /\ queue' = Tail(queue)
    /\ UNCHANGED <<flash, tx, heap, registered, ctl, sessions, cuts, history>>

\* An answer to the head is noted in its transaction before the op leaves the queue.
Confirm(t, next) ==
    /\ Update(Head(queue).o, t)
    /\ pc' = next
    /\ UNCHANGED <<txBegin, txEnd, queue, tx, cache, registered, work, sessions, cuts, opLog, lost,
                   stranded>>

StartConf(accepted) ==
    LET t == obj[Head(queue).o] IN
    /\ Served("start")
    /\ Confirm([t EXCEPT !.start = IF @ = BootNr THEN 0 ELSE @, !.startConf = TRUE,
                         !.deauthorized = @ \/ ~accepted], "pop")
    /\ UNCHANGED closed

StopConf(error) ==
    /\ Served("stop")
    /\ Confirm([obj[Head(queue).o] EXCEPT !.stopConf = TRUE], IF error THEN "idle" ELSE "pop")
    /\ closed' = closed \cup {Head(queue).session}

\* An error consumes a StartTransaction.
StartError ==
    /\ Served("start")
    /\ pc' = "pop"
    /\ UNCHANGED <<flash, queue, tx, heap, registered, work, sessions, cuts, history>>

\* The next op, if it is in flash only, is restored right away.
Pop ==
    /\ pc = "pop"
    /\ queue' = Tail(queue)
    /\ pc' = IF Len(queue) > 1 /\ queue[2].o = 0 THEN "fetch" ELSE "idle"
    /\ UNCHANGED <<flash, tx, heap, registered, work, sessions, cuts, history>>

-----------------------------------------------------------------------------
(* Resets *)

InFlashStart(r) == r.kind = "start"   \* mutant: a StopTransaction is not stored
InFlash(r) == r.kind # "auth"

\* Of the requests only the op files remain.
Reset(requests) ==
    /\ cuts' = cuts + 1
    /\ pc' = "off" /\ work' = NoWork
    /\ tx' = 0 /\ obj' = [o \in ObjId |-> NoTx] /\ cache' = <<>>
    /\ registered' = FALSE
    /\ queue' = LET ops == Keep(requests, {i \in DOMAIN requests : InFlash(requests[i])})
                IN  [i \in DOMAIN ops |-> [ops[i] EXCEPT !.o = 0]]
    /\ UNCHANGED <<flash, sessions, history>>

PowerCut ==
    /\ pc \in CutPoints
    /\ cuts < MaxPowerCuts
    /\ Reset(queue)

\* An op that could not be restored is skipped, and the search for the next one dereferences
\* the handler that was moved away: the microcontroller resets.
Panic == pc = "skip" /\ Reset(Tail(queue))

Load(o, n) == Fresh(o) /\ AddObject(o, file[n])

\* The connector goes on with the latest transaction of the journal.
Boot(o) ==
    /\ pc = "off"
    /\ IF file[PrevNr(txEnd)] # NoTx
       THEN Load(o, PrevNr(txEnd)) /\ tx' = o
       ELSE UNCHANGED <<tx, heap>>
    /\ pc' = "idle"
    /\ UNCHANGED <<flash, queue, registered, work, sessions, cuts, history>>

Register ==
    /\ pc = "idle" /\ ~registered
    /\ registered' = TRUE
    /\ UNCHANGED <<flash, queue, tx, heap, ctl, sessions, cuts, history>>

\* The head is in flash only: its operation is restored, the first one of a boot when the first
\* volatile request of that boot leaves the queue.
Unrestored == pc \in {"idle", "fetch"} /\ queue # <<>> /\ Head(queue).o = 0

\* restore refuses an op whose transaction is gone, a StopTransaction of a silent transaction,
\* and a StartTransaction from before the clock was set in an earlier boot.
Untimed(t) == t.start > 0 /\ t.start # BootNr
Restorable(r) ==
    /\ Exists(r.txNr)
    /\ r.kind = "start" => ~Untimed(Look(r.txNr))
    /\ r.kind = "stop" => ~Look(r.txNr).silent

Restore(o) ==
    LET n == Head(queue).txNr
        found == IF Cached(n) # 0 THEN Cached(n) ELSE o
    IN
    /\ Unrestored
    /\ Restorable(Head(queue))
    /\ IF Cached(n) = 0 THEN Load(o, n) ELSE UNCHANGED heap
    /\ queue' = [queue EXCEPT ![1].o = found]
    /\ pc' = "idle"
    /\ UNCHANGED <<flash, tx, registered, work, sessions, cuts, history>>

\* A transaction whose StartTransaction is refused becomes silent.
RestoreFails ==
    LET r == Head(queue)
        t == [Look(r.txNr) EXCEPT !.silent = TRUE, !.active = FALSE]
    IN
    /\ Unrestored
    /\ ~Restorable(r)
    /\ lost' = lost \cup {r.session}
    /\ IF r.kind = "start" /\ Exists(r.txNr)
       THEN /\ Commit(t)
            /\ obj' = IF Cached(r.txNr) = 0 THEN obj ELSE [obj EXCEPT ![Cached(r.txNr)] = t]
       ELSE UNCHANGED <<file, obj>>
    /\ pc' = IF \E i \in 2..Len(queue) : InFlash(queue[i]) THEN "skip" ELSE "pop"
    /\ UNCHANGED <<txBegin, txEnd, queue, tx, cache, registered, work, sessions, cuts, opLog, closed,
                   stranded>>

-----------------------------------------------------------------------------

Allocate ==
    \/ Trim \/ TrimSave \/ TrimEnd
    \/ Evict \/ EvictSave \/ Refuse
    \/ \E o \in ObjId : Create(o) \/ CreateSilent(o)
    \/ CreateCommit \/ BeginCommit

End == EndTransaction \/ EvDisconnects \/ ConnectionTimeout \/ DeAuthorize

Collect == CollectAborted \/ CollectSave \/ CollectCompleted

Charge == StartTx \/ StartSilent \/ StopTx \/ StopSilent \/ SilentSave \/ Initiate

Authorize ==
    \/ \E i \in DOMAIN queue, result \in AuthResults : AuthTimeout(i, result)
    \/ \E result \in AuthResults : AuthAnswer(result)
    \/ AuthError

Answer ==
    \/ \E accepted \in BOOLEAN : StartConf(accepted)
    \/ \E error \in BOOLEAN : StopConf(error)
    \/ StartError \/ Pop

Recover ==
    \/ Register
    \/ \E o \in ObjId : Boot(o) \/ Restore(o)
    \/ RestoreFails \/ Panic

Next ==
    \/ \E how \in How : Begin(how)
    \/ Allocate \/ End \/ Collect \/ Charge
    \/ Authorize \/ Answer
    \/ PowerCut \/ Recover

Spec == Init /\ [][Next]_vars

\* A handler that was started ends, the device boots and is accepted, the loop serves the
\* connector, an Authorize request times out if nothing else happens, and the server answers the
\* head of the queue in the end.  It need not ever accept a StartTransaction, only it must not
\* answer a StopTransaction with errors for ever.
Fairness ==
    /\ WF_vars(Allocate \/ CollectSave \/ SilentSave \/ Initiate \/ Pop)
    /\ WF_vars(Recover)
    /\ WF_vars(CollectAborted \/ CollectCompleted \/ StopTx \/ StopSilent)
    /\ WF_vars(\E i \in DOMAIN queue, result \in AuthResults : AuthTimeout(i, result))
    /\ WF_vars(StartConf(TRUE) \/ StartConf(FALSE) \/ StartError \/ StopConf(FALSE))

FairSpec == Spec /\ Fairness

-----------------------------------------------------------------------------
(* Properties *)

TypeOK ==
    /\ txBegin \in TxNr /\ txEnd \in TxNr
    /\ file \in [TxNr -> Tx]
    /\ queue \in Seq(Request)
    /\ tx \in ObjId \cup {0}
    /\ obj \in [ObjId -> Tx] /\ cache \in Seq(ObjId)
    /\ registered \in BOOLEAN
    /\ pc \in Places \cup {"off"} /\ work \in Work
    /\ sessions \in Nat /\ cuts \in Nat
    /\ opLog \in Seq(Op) /\ closed \subseteq Nat /\ lost \subseteq Nat /\ stranded \subseteq Nat

Logged(kind, s) == \E i \in DOMAIN opLog : opLog[i] = [kind |-> kind, session |-> s]
InJournal(n) == (n + TxCnt - txBegin) % TxCnt < Size

\* A session is reported to the server as one transaction: its start and its stop are written
\* to the queue at most once each.
ReportedOnce == \A i, j \in DOMAIN opLog : i # j => opLog[i] # opLog[j]

\* No message was lost, and no number was given back while an Authorize request of its session
\* was pending, the answer to which would write the file of that number again.
Undisturbed == lost = {} /\ stranded = {}

\* As long as the device is undisturbed: every transaction file lies inside the journal, none
\* leaks, but for a transaction whose StopTransaction was answered with an error: it counts as
\* complete and may be evicted, and the answer to the repeated message writes its file again.
NoLeak ==
    Undisturbed => \A n \in TxNr : file[n] # NoTx => InJournal(n) \/ file[n].session \in closed

\* As long as no message was lost: a session the server was or will be told of, and not told to
\* be over, is the latest transaction of the journal and marked as started, so that a reset at
\* any moment continues it.
OpenIsKept ==
    lost = {} =>
        \A s \in 1..sessions :
            Logged("start", s) /\ ~Logged("stop", s)
                => LET t == file[PrevNr(txEnd)] IN
                   t.session = s /\ (t.startReq \/ pc = "start2")

\* The same, as long as no number was given back under a pending Authorize request either.
OpenStays == stranded = {} => OpenIsKept

\* As long as the device is undisturbed: a pending message finds its own transaction in the journal,
\* unless the server answered the StopTransaction (an error answer makes the transaction
\* complete, but the message stays).
NoDangling ==
    Undisturbed =>
        \A i \in DOMAIN queue :
            LET r == queue[i] IN
            InFlash(r) => file[r.txNr].session = r.session \/ r.session \in closed

\* Each session whose stop was written to the queue is closed at the server in the end, unless a
\* message of it is lost: as there are MaxSessions of them, there is always a time at which all are.
Settled == []<>(\A s \in 1..MaxSessions : Logged("stop", s) => s \in closed \cup lost)

\* A transaction that ended releases the connector, also when a reset brings it back after its
\* StopTransaction was written to the queue: unless a message is lost ...
Ended == tx # 0 /\ ~obj[tx].active
Released == Ended ~> ~Ended \/ lost # {}

\* ... or in any case.
AlwaysReleased == Ended ~> ~Ended

=============================================================================
