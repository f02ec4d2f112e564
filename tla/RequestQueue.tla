---------------------------- MODULE RequestQueue ----------------------------
(***************************************************************************)
(* The outgoing request queue of MicroOcpp: PersistentRequestQueue (head   *)
(* and tail cache in RAM), RequestStore (the ring of op files in flash)    *)
(* and the parts of Request that decide who receives an answer (message    *)
(* IDs, timeouts, restore).  Transaction requests survive a power cut in   *)
(* flash; all the others live in RAM only.                                 *)
(*                                                                         *)
(* A handler that writes the flash more than once is split at its writes,  *)
(* so that a power cut can fall between any two of them; `pc' says where   *)
(* the running handler is, and nothing but PowerCut can interleave with    *)
(* it, for the library is single-threaded.                                 *)
(***************************************************************************)
EXTENDS Integers, Sequences, FiniteSets

CONSTANTS
    MaxOpNr,       \* MO_MAX_OPNR: op numbers, and file names, wrap here
    HistorySize,   \* MO_OPHISTORY_SIZE: delivered op files kept in flash
    MaxMisses,     \* missing files in a row that end the scan at boot
    SyncWindow,    \* how far ahead of opBegin advanceOpNr still follows
    CacheSize,     \* MO_OPERATIONCACHE_MAXSIZE: requests in the tail cache
    BootAttempts,  \* how many BootNotifications the first boot may take
    ExtraAttempts, \* how many more each later boot takes than the one before
    StatusFirst,   \* TRUE: a StatusNotification is the first push after a boot
    FirstOpNr,     \* opBegin and opEnd of the (empty) ring at the beginning
    MaxTx,         \* bound: transaction requests pushed in a behaviour
    MaxOther,      \* bound: other requests, beside the first one of each boot
    MaxPending,    \* bound: op numbers in use at any time
    MaxInbox,      \* bound: answers under way at any time
    MaxPowerCuts,  \* bound: power cuts in a behaviour
    MaxWriteFails  \* bound: op files that cannot be written

ASSUME QueueAssumption ==
    /\ {MaxOpNr, MaxMisses, SyncWindow, CacheSize} \subseteq Nat \ {0}
    /\ {HistorySize, MaxTx, MaxOther, MaxPending, MaxInbox} \subseteq Nat
    /\ {MaxPowerCuts, MaxWriteFails} \subseteq Nat
    /\ BootAttempts \subseteq Nat /\ ExtraAttempts \in Nat
    /\ StatusFirst \in BOOLEAN
    /\ FirstOpNr \in 0..(MaxOpNr - 1)
    /\ MaxPending + MaxMisses + HistorySize <= MaxOpNr

VARIABLES
    opBegin,   \* flash: first op number not yet answered
    file,      \* flash: op number -> the stored request, or NoFile
    opEnd,     \* RAM: next op number to hand out
    head,      \* RAM: the request being sent, or NoReq
    tail,      \* RAM: the requests cached behind it
    nextId,    \* RAM: Request::unique_id_counter
    first,     \* RAM: nothing was pushed since the boot
    pc,        \* where the running handler is
    handling,  \* what drop_if looks for
    erase,     \* the progress of advanceOpNr
    inbox,     \* answers of the server on their way to the device
    pushed, cuts,                     \* requests pushed and boots ended so far
    txs, others, writeFails,          \* counters for the bounds
    named,     \* history: the message ID of each request pushed, and the boot that gave it
    stored,    \* history: requests whose op file was written
    done,      \* history: requests the device considers answered
    dropped,   \* history: requests given up because restore refused them
    srv        \* history: requests in the order they reached the server

flash == <<opBegin, file>>
ram   == <<opEnd, head, tail, nextId, first>>
ctl   == <<pc, handling, erase>>
bounds  == <<pushed, cuts, txs, others, writeFails>>
history == <<named, stored, done, dropped, srv>>
vars  == <<flash, ram, ctl, inbox, bounds, history>>

-----------------------------------------------------------------------------

OpNr == 0..(MaxOpNr - 1)
TxKind == {"start", "stop"}
Kind == TxKind \cup {"other"}
Seqs == Nat \ {0}               \* a request's identity: its place in push order

NoReq  == [seq |-> 0, kind |-> "other", opNr |-> -1, id |-> -1]
NoFile == [seq |-> 0, kind |-> "other", id |-> -1, preBoot |-> -1]
Idle   == [by |-> "none", id |-> -1, error |-> FALSE, late |-> {}]
NoErase == [upTo |-> 0, n |-> 0, then |-> "fetch"]

Request == [seq : Nat, kind : Kind, opNr : OpNr \cup {-1}, id : Nat \cup {-1}]
OpFile == [seq : Nat, kind : Kind, id : Nat \cup {-1}, preBoot : Nat \cup {-1}]
Handling == [by : {"none", "answer", "timeout"}, id : Nat \cup {-1},
             error : BOOLEAN, late : SUBSET Nat]
Erase == [upTo : OpNr, n : Nat, then : {"fetch", "cached", "panic"}]
Answer == [id : Nat \cup {-1}, error : BOOLEAN]
Name == [id : Nat, boot : Nat]

\* The op number d places after opBegin, as the ring arithmetic of the code has it.
At(d) == (opBegin + d) % MaxOpNr

NextOpNrUnwrapped(n) == n + 1   \* mutant: the op number does not wrap around
NextOpNr(n) == (n + 1) % MaxOpNr

\* How many op numbers lie in [a, b) on the ring.
Distance(a, b) == (b + MaxOpNr - a) % MaxOpNr

IsStored(d) == file[At(d)] # NoFile

\* The scan of the RequestStore constructor: it starts at opBegin and stops after MaxMisses
\* missing files in a row, so it sees the file d places ahead if no such gap lies before it.
Scanned(d) ==
    /\ IsStored(d)
    /\ \A e \in 0..(d - MaxMisses) : \E k \in e..(e + MaxMisses - 1) : IsStored(k)

\* The scan puts opEnd d places after opBegin: one after the last file it saw.
ScanEnds(d) ==
    /\ d = 0 \/ Scanned(d - 1)
    /\ \A e \in d..(MaxOpNr - 1) : ~Scanned(e)

Init ==
    /\ opBegin = FirstOpNr
    /\ file = [n \in OpNr |-> NoFile]
    /\ opEnd = FirstOpNr
    /\ head = NoReq
    /\ tail = <<>>
    /\ nextId \in BootAttempts
    /\ first = TRUE
    /\ pc = "idle"
    /\ handling = Idle
    /\ erase = NoErase
    /\ inbox = <<>>
    /\ pushed = 0 /\ cuts = 0
    /\ txs = 0 /\ others = 0 /\ writeFails = 0
    /\ named = <<>> /\ stored = {} /\ done = {} /\ dropped = {}
    /\ srv = <<>>

-----------------------------------------------------------------------------
(* push_back *)

\* The place of a new request r: head if the queue is empty, else the end of the tail.  A full
\* tail first loses its oldest entry, of which a copy may be in flash.
Enqueue(r) ==
    IF head = NoReq
    THEN head' = r /\ UNCHANGED tail
    ELSE /\ tail' = Append(IF Len(tail) >= CacheSize THEN Tail(tail) ELSE tail, r)
         /\ UNCHANGED head

\* The counter gives a new request its message ID.
TakeId ==
    /\ nextId' = nextId + 1
    /\ named' = Append(named, [id |-> nextId, boot |-> cuts])

\* A request that lives in RAM only (StatusNotification, Heartbeat, Authorize, ...).
PushVolatile ==
    /\ pc = "idle"
    /\ first \/ others < MaxOther
    /\ others' = IF first THEN others ELSE others + 1
    /\ Enqueue([seq |-> pushed + 1, kind |-> "other", opNr |-> -1, id |-> nextId])
    /\ pushed' = pushed + 1
    /\ TakeId
    /\ first' = FALSE
    /\ UNCHANGED <<flash, opEnd, ctl, inbox, cuts, txs, writeFails, stored, done, dropped, srv>>

\* StartTransaction and StopTransaction: Request::initiate commits the op file under a fresh
\* op number before the request joins the queue.  `preBoot' is the boot in which the transaction
\* began if the clock was not set then, else -1.  A failed write consumes the op number and
\* leaves the request in RAM only.
PushTx(kind, preBoot) ==
    LET seq == pushed + 1 IN
    /\ pc = "idle"
    /\ txs < MaxTx
    /\ StatusFirst => ~first
    /\ kind = "start" => preBoot \in {-1, cuts}
    /\ Distance(opBegin, opEnd) < MaxPending
    /\ \/ /\ file' = [file EXCEPT ![opEnd] = [seq |-> seq, kind |-> kind, id |-> nextId,
                                              preBoot |-> preBoot]]
          /\ stored' = stored \cup {seq}
          /\ Enqueue([seq |-> seq, kind |-> kind, opNr |-> opEnd, id |-> nextId])
          /\ UNCHANGED writeFails
       \/ /\ writeFails < MaxWriteFails
          /\ writeFails' = writeFails + 1
          /\ Enqueue([seq |-> seq, kind |-> kind, opNr |-> -1, id |-> nextId])
          /\ UNCHANGED <<file, stored>>
    /\ opEnd' = NextOpNr(opEnd)
    /\ TakeId
    /\ pushed' = seq
    /\ txs' = txs + 1
    /\ first' = FALSE
    /\ UNCHANGED <<opBegin, ctl, inbox, cuts, others, done, dropped, srv>>

-----------------------------------------------------------------------------
(* The connection *)

Received(seq) == \E i \in DOMAIN srv : srv[i] = seq

\* RequestQueue::loop sends the head, again and again until it is answered; here it arrives
\* and the server answers.  (A message that is lost on its way changes nothing.)
Send(error) ==
    /\ pc = "idle"
    /\ head # NoReq
    /\ Len(inbox) < MaxInbox
    /\ inbox' = Append(inbox, [id |-> head.id, error |-> error])
    /\ srv' = IF Received(head.seq) THEN srv ELSE Append(srv, head.seq)
    /\ UNCHANGED <<flash, ram, ctl, bounds, named, stored, done, dropped>>

\* The connection drops: the answers that are under way never arrive.
Disconnect ==
    /\ inbox # <<>>
    /\ inbox' = <<>>
    /\ UNCHANGED <<flash, ram, ctl, bounds, history>>

\* RequestQueue::receiveResponse takes the next answer and offers it to every request.
Receive ==
    /\ pc = "idle"
    /\ inbox # <<>>
    /\ handling' = [Idle EXCEPT !.by = "answer", !.id = Head(inbox).id,
                                !.error = Head(inbox).error]
    /\ pc' = "drop"
    /\ inbox' = Tail(inbox)
    /\ UNCHANGED <<flash, ram, erase, bounds, history>>

\* The requests in RAM that can time out: transaction requests have their timeout disabled.
Queued == {head} \cup {tail[i] : i \in DOMAIN tail}
Expirable == {r.seq : r \in {q \in Queued : q # NoReq /\ q.kind = "other"}}

\* RequestQueue::loop finds some of them timed out.
Expire(late) ==
    /\ pc = "idle"
    /\ late # {}
    /\ handling' = [Idle EXCEPT !.by = "timeout", !.late = late]
    /\ pc' = "drop"
    /\ UNCHANGED <<flash, ram, erase, inbox, bounds, history>>

-----------------------------------------------------------------------------
(* drop_if and pop_front *)

\* Mutant: an answer is taken by the first request that is asked.
MatchesAny(r) == handling.by = "answer" \/ r.seq \in handling.late

\* Request::receiveResponse consumes an answer with its own message ID; StopTransaction does
\* not accept an error as the answer.
Matches(r) ==
    \/ /\ handling.by = "answer"
       /\ r.id = handling.id
       /\ ~(handling.error /\ r.kind = "stop")
    \/ /\ handling.by = "timeout"
       /\ r.seq \in handling.late

Finish(r) == done' = IF handling.by = "answer" THEN done \cup {r.seq} ELSE done

\* advanceOpNr works only for opBegin itself and for the op numbers a little ahead.
InSync(n) == Distance(opBegin, n) < SyncWindow

\* The head matches: pop_front first advances opBegin beyond a stored request.
DropHead ==
    /\ pc = "drop"
    /\ head # NoReq
    /\ Matches(head)
    /\ Finish(head)
    /\ IF head.opNr >= 0 /\ InSync(head.opNr)
       THEN pc' = "erase" /\ erase' = [upTo |-> head.opNr, n |-> 0, then |-> "fetch"]
       ELSE pc' = "fetch" /\ UNCHANGED erase
    /\ head' = NoReq
    /\ UNCHANGED <<flash, opEnd, tail, nextId, first, handling, inbox, bounds,
                   named, stored, dropped, srv>>

\* The file that leaves the history when opBegin passes the slot n places ahead.
PendingFile(n) == At(n + HistorySize)   \* mutant: looks ahead instead of back
HistoryFile(n) == At(n + MaxOpNr - HistorySize)

\* advanceOpNr removes the files that leave the history, one after the other ...
EraseFile ==
    /\ pc = "erase"
    /\ erase.n < Distance(opBegin, NextOpNr(erase.upTo))
    /\ file' = [file EXCEPT ![HistoryFile(erase.n)] = NoFile]
    /\ erase' = [erase EXCEPT !.n = @ + 1]
    /\ UNCHANGED <<opBegin, ram, pc, handling, inbox, bounds, history>>

\* ... and then saves the new opBegin.
SaveBegin ==
    /\ pc = "erase"
    /\ erase.n >= Distance(opBegin, NextOpNr(erase.upTo))
    /\ opBegin' = NextOpNr(erase.upTo)
    /\ pc' = erase.then
    /\ erase' = NoErase
    /\ UNCHANGED <<file, ram, handling, inbox, bounds, history>>

\* Mutants: the op number is compared before opBegin advanced; a pop with an empty cache does
\* not look into flash.
CacheHitBehind == \E i \in DOMAIN tail : NextOpNr(tail[i].opNr) = opBegin
CacheHitOrEmpty == tail = <<>> \/ \E i \in DOMAIN tail : tail[i].opNr = opBegin
CacheHit == \E i \in DOMAIN tail : tail[i].opNr = opBegin

\* Mutant: cached requests without a file are not taken.
TakeStored ==
    /\ head' = IF CacheHit THEN Head(tail) ELSE NoReq
    /\ tail' = IF CacheHit THEN Tail(tail) ELSE tail
TakeCached ==
    /\ head' = IF tail = <<>> THEN NoReq ELSE Head(tail)
    /\ tail' = IF tail = <<>> THEN tail ELSE Tail(tail)

InUse == Distance(opBegin, opEnd)

\* The next op file is d places ahead of opBegin.
FirstStored(d) == IsStored(d) /\ \A e \in 0..(d - 1) : ~IsStored(e)

\* Mutant: flash is consulted only when the cache is empty.
FetchCachedFirst ==
    /\ pc = "fetch"
    /\ tail # <<>> \/ \A d \in 0..(InUse - 1) : ~IsStored(d)
    /\ TakeCached
    /\ pc' = "drop"
    /\ UNCHANGED <<flash, opEnd, nextId, first, handling, erase, inbox, bounds, history>>

\* The cache holds the next stored request, or flash holds none: go on with the cache.
FetchCached ==
    /\ pc = "fetch"
    /\ CacheHit \/ \A d \in 0..(InUse - 1) : ~IsStored(d)
    /\ TakeCached
    /\ pc' = "drop"
    /\ UNCHANGED <<flash, opEnd, nextId, first, handling, erase, inbox, bounds, history>>

\* StartTransaction::restore refuses a transaction without a start time once its boot is over,
\* and silences it, so that StopTransaction::restore refuses it too.
Restorable(f) == f.preBoot \in {-1, cuts}

\* Request::restore keeps the ID counter ahead of the restored message ID.
BumpId(id) == IF id > nextId THEN id + 1 ELSE nextId

\* The next stored request is not in the cache: load it from flash to the head.
FetchFlash(d) ==
    LET f == file[At(d)] IN
    /\ pc = "fetch"
    /\ ~CacheHit
    /\ d < InUse
    /\ FirstStored(d)
    /\ Restorable(f)
    /\ head' = [seq |-> f.seq, kind |-> f.kind, opNr |-> At(d), id |-> f.id]
    /\ nextId' = BumpId(f.id)
    /\ pc' = "drop"
    /\ UNCHANGED <<flash, opEnd, tail, first, handling, erase, inbox, bounds, history>>

\* restore() fails: the op is skipped.  The handler that read it has been moved away, and the
\* loop goes on to use it: with further slots to look at, the device panics.
FetchFails(d) ==
    LET f == file[At(d)] IN
    /\ pc = "fetch"
    /\ ~CacheHit
    /\ d < InUse
    /\ FirstStored(d)
    /\ ~Restorable(f)
    /\ dropped' = dropped \cup {f.seq}
    /\ nextId' = BumpId(f.id)
    /\ LET next == IF d + 1 < InUse THEN "panic" ELSE "cached" IN
       IF InSync(At(d))
       THEN pc' = "erase" /\ erase' = [upTo |-> At(d), n |-> 0, then |-> next]
       ELSE pc' = next /\ UNCHANGED erase
    /\ UNCHANGED <<flash, opEnd, head, tail, first, handling, inbox, bounds,
                   named, stored, done, srv>>

\* The unrestorable op was the last one in flash: go on with the cache.
SkipToCached ==
    /\ pc = "cached"
    /\ TakeCached
    /\ pc' = "drop"
    /\ UNCHANGED <<flash, opEnd, nextId, first, handling, erase, inbox, bounds, history>>

RemoveAt(s, i) == [j \in 1..(Len(s) - 1) |-> IF j < i THEN s[j] ELSE s[j + 1]]

\* The head stays: drop_if goes on with the tail, in order.
DropTail(i) ==
    /\ pc = "drop"
    /\ head = NoReq \/ ~Matches(head)
    /\ Matches(tail[i]) /\ \A j \in 1..(i - 1) : ~Matches(tail[j])
    /\ tail' = RemoveAt(tail, i)
    /\ Finish(tail[i])
    /\ UNCHANGED <<flash, opEnd, head, nextId, first, ctl, inbox, bounds,
                   named, stored, dropped, srv>>

EndDrop ==
    /\ pc = "drop"
    /\ head = NoReq \/ ~Matches(head)
    /\ \A i \in DOMAIN tail : ~Matches(tail[i])
    /\ pc' = "idle"
    /\ handling' = Idle
    /\ UNCHANGED <<flash, ram, erase, inbox, bounds, history>>

-----------------------------------------------------------------------------
(* Resets *)

LoseRam ==
    /\ pc' = "off"
    /\ head' = NoReq /\ tail' = <<>> /\ opEnd' = 0 /\ nextId' = 0 /\ first' = TRUE
    /\ handling' = Idle /\ erase' = NoErase
    /\ inbox' = <<>>
    /\ cuts' = cuts + 1
    /\ UNCHANGED <<flash, pushed, txs, others, writeFails, history>>

PowerCut ==
    /\ pc # "off"
    /\ cuts < MaxPowerCuts
    /\ LoseRam

\* The null pointer is dereferenced: the microcontroller resets.
Panic ==
    /\ pc = "panic"
    /\ LoseRam

\* The RequestStore constructor loads opBegin and scans the files; the BootNotifications up to
\* the accepted one take their message IDs from the same counter.
Boot(d, attempts) ==
    /\ pc = "off"
    /\ ScanEnds(d)
    /\ opEnd' = At(d)
    /\ nextId' = attempts + cuts * ExtraAttempts
    /\ pc' = "idle"
    /\ UNCHANGED <<flash, head, tail, first, handling, erase, inbox, bounds, history>>

-----------------------------------------------------------------------------

PopStep ==
    \/ EraseFile \/ SaveBegin
    \/ FetchCached \/ SkipToCached
    \/ \E d \in OpNr : FetchFlash(d) \/ FetchFails(d)

DropStep ==
    \/ DropHead
    \/ \E i \in DOMAIN tail : DropTail(i)
    \/ EndDrop

Restart == \E d \in 0..MaxOpNr, attempts \in BootAttempts : Boot(d, attempts)

Next ==
    \/ PushVolatile
    \/ \E kind \in TxKind, preBoot \in -1..cuts : PushTx(kind, preBoot)
    \/ \E error \in BOOLEAN : Send(error)
    \/ Disconnect
    \/ Receive
    \/ \E late \in SUBSET Expirable : Expire(late)
    \/ DropStep
    \/ PopStep
    \/ PowerCut
    \/ Panic
    \/ Restart

Spec == Init /\ [][Next]_vars

-----------------------------------------------------------------------------
(* Properties *)

TypeOK ==
    /\ opBegin \in OpNr /\ opEnd \in OpNr
    /\ file \in [OpNr -> OpFile]
    /\ head \in Request /\ tail \in Seq(Request)
    /\ nextId \in Nat /\ first \in BOOLEAN
    /\ pc \in {"off", "idle", "drop", "erase", "fetch", "cached", "panic"}
    /\ handling \in Handling /\ erase \in Erase
    /\ inbox \in Seq(Answer)
    /\ pushed \in Nat /\ cuts \in Nat
    /\ txs \in Nat /\ others \in Nat /\ writeFails \in Nat
    /\ named \in Seq(Name)
    /\ stored \subseteq Seqs /\ done \subseteq Nat /\ dropped \subseteq Nat
    /\ srv \in Seq(Nat)

\* The stored requests the device still owes to the server.
Owed == stored \ (done \cup dropped)

\* A stored request that is neither answered nor given up is always within reach of the scan a
\* boot would start at this moment, whatever the interrupted handler has written so far.
NoLoss == \A s \in Owed : \E d \in OpNr : Scanned(d) /\ file[At(d)].seq = s

\* The queue never has requests cached behind an empty head (the state that push_back and
\* front call invalid), except while pop_front looks for the next head.
NoOrphanTail == pc \in {"off", "idle", "drop"} => (head = NoReq => tail = <<>>)

\* No stored request is in RAM twice, as the head and in the cache or twice in the cache.
NoTwin ==
    /\ \A i \in DOMAIN tail : head.opNr >= 0 => tail[i].opNr # head.opNr
    /\ \A i, j \in DOMAIN tail : i # j /\ tail[i].opNr >= 0 => tail[i].opNr # tail[j].opNr

\* A request counts as answered only if it had reached the server: no answer is taken by a
\* request it was not given to.
OwnAnswer == \A s \in done : Received(s)

\* Two requests have the same message ID, which different boots gave them.
SameName(s, t) == named[s].id = named[t].id /\ named[s].boot # named[t].boot

\* A request takes the answer to another one only if the other one was pushed in another boot and
\* has the same message ID; late answers, those to requests that timed out, and those that arrive
\* after others were restored do no further harm.
AnsweredById == \A s \in done : Received(s) \/ \E t \in DOMAIN named : Received(t) /\ SameName(s, t)

\* A stored request reaches the server for the first time only when every stored request
\* pushed before it was answered or given up: the server sees transactions in order, over
\* evictions from the cache and over resets.
OldestFirst ==
    [][\A s \in stored : (Received(s))' /\ ~Received(s)
            => \A t \in stored : t < s => t \in done \cup dropped]_vars

=============================================================================
