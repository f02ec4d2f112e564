------------------------- MODULE RequestQueueProofs -------------------------
(***************************************************************************)
(* What is proved of the request queue for every value of the constants:   *)
(* its types, that it never caches requests behind an empty head, and who  *)
(* receives an answer: a request takes one that it was not given only from *)
(* a request of another boot with the same message ID.                     *)
(*                                                                         *)
(* The second part: it loses no transaction message and sends them in      *)
(* order, for every size of the ring, the history and the cache and any    *)
(* number of requests and power cuts, as long as op files can be written.  *)
(* But for such answers it implements Outbox, as far as safety goes: the   *)
(* stored transaction requests enter at the end, and only the oldest one   *)
(* leaves.                                                                 *)
(*                                                                         *)
(* The third part: it loses none either when a few op files cannot be      *)
(* written, although the ring then has holes, the order may be lost and a  *)
(* request may be in RAM twice.                                            *)
(***************************************************************************)
EXTENDS QueueOutbox, FiniteSetTheorems, SequenceTheorems, TLAPS

\* The ring arithmetic stays within the op numbers.
LEMMA RingType ==
    /\ \A n \in Int : n % MaxOpNr \in OpNr
    /\ 0 \in OpNr
    /\ OpNr \subseteq Nat
<1>1. MaxOpNr \in Nat \ {0}
  BY QueueAssumption
<1> QED
  BY <1>1 DEF OpNr

\* The op number some places after opBegin is an op number.
LEMMA AtType ==
    ASSUME NEW d \in Int, opBegin \in OpNr
    PROVE  At(d) \in OpNr
<1>1. opBegin \in Int
  BY RingType
<1> QED
  BY <1>1, RingType DEF At

\* So is the slot that leaves the history when opBegin advances (advanceOpNr).
LEMMA HistoryType ==
    ASSUME NEW n \in Nat, opBegin \in OpNr
    PROVE  HistoryFile(n) \in OpNr
<1>1. n + MaxOpNr - HistorySize \in Int
  BY QueueAssumption
<1> QED
  BY <1>1, AtType DEF HistoryFile

\* So is the successor of an op number, also at the end of the ring (reserveOpNr).
LEMMA NextOpNrType ==
    ASSUME NEW n \in OpNr
    PROVE  NextOpNr(n) \in OpNr
<1>1. n + 1 \in Int
  BY RingType
<1> QED
  BY <1>1, RingType DEF NextOpNr

\* The placeholders have the type of what they stand for.
LEMMA PlaceholderTypes ==
    /\ NoReq \in Request
    /\ NoFile \in OpFile
    /\ Idle \in Handling
    /\ NoErase \in Erase
BY RingType DEF NoReq, NoFile, Idle, NoErase, Request, OpFile, Handling, Erase, Kind, TxKind

\* Removing an entry leaves a sequence over the same set.
LEMMA RemoveAtType ==
    ASSUME NEW S, NEW s \in Seq(S), NEW i \in DOMAIN s
    PROVE  RemoveAt(s, i) \in Seq(S)
<1>1. Len(s) \in Nat /\ i \in 1..Len(s) /\ Len(s) - 1 \in Nat
  OBVIOUS
<1>2. \A j \in 1..(Len(s) - 1) : (IF j < i THEN s[j] ELSE s[j + 1]) \in S
  BY <1>1
<1>3. RemoveAt(s, i) \in [1..(Len(s) - 1) -> S]
  BY <1>2 DEF RemoveAt
<1> QED
  BY <1>1, <1>3, SeqDef

\* A request that joins the queue leaves head and cache well-typed.
LEMMA EnqueueType ==
    ASSUME head \in Request, tail \in Seq(Request), NEW r \in Request, Enqueue(r)
    PROVE  head' \in Request /\ tail' \in Seq(Request)
<1>1. CASE head = NoReq
  BY <1>1 DEF Enqueue
<1>2. CASE head # NoReq /\ Len(tail) >= CacheSize
  <2>1. CacheSize \in Nat \ {0}
    BY QueueAssumption
  <2>2. tail # <<>>
    BY <1>2, <2>1
  <2>3. Tail(tail) \in Seq(Request)
    BY <2>2
  <2>4. tail' = Append(Tail(tail), r) /\ head' = head
    BY <1>2 DEF Enqueue
  <2> QED
    BY <2>3, <2>4
<1>3. CASE head # NoReq /\ ~(Len(tail) >= CacheSize)
  BY <1>3 DEF Enqueue
<1> QED
  BY <1>1, <1>2, <1>3

\* Taking the oldest request out of the cache leaves head and cache well-typed (pop_front).
LEMMA TakeCachedType ==
    ASSUME tail \in Seq(Request), TakeCached
    PROVE  head' \in Request /\ tail' \in Seq(Request)
BY PlaceholderTypes DEF TakeCached

-----------------------------------------------------------------------------

USE DEF Seqs

\* The initial states are well-typed.
LEMMA InitType == Init => TypeOK
<1> SUFFICES ASSUME Init PROVE TypeOK
  OBVIOUS
<1>1. FirstOpNr \in OpNr /\ BootAttempts \subseteq Nat
  BY QueueAssumption DEF OpNr
<1>2. tail \in Seq(Request) /\ inbox \in Seq(Answer) /\ srv \in Seq(Nat)
  BY DEF Init
<1> QED
  BY <1>1, <1>2, PlaceholderTypes DEF Init, TypeOK

\* The counter and the message IDs it gave keep their types.
LEMMA TakeIdType ==
    ASSUME TypeOK, TakeId
    PROVE  nextId' \in Nat /\ named' \in Seq(Name)
<1>1. [id |-> nextId, boot |-> cuts] \in Name
  BY DEF TypeOK, Name
<1> QED
  BY <1>1 DEF TypeOK, TakeId

\* A request that lives in RAM only joins the queue (push_back).
LEMMA PushVolatileType ==
    ASSUME TypeOK, PushVolatile
    PROVE  TypeOK'
<1> DEFINE r == [seq |-> pushed + 1, kind |-> "other", opNr |-> -1, id |-> nextId]
<1>1. r \in Request
  BY DEF TypeOK, Request, Kind
<1>2. Enqueue(r)
  BY DEF PushVolatile
<1>3. head' \in Request /\ tail' \in Seq(Request)
  <2> HIDE DEF r
  <2> QED
    BY <1>1, <1>2, EnqueueType DEF TypeOK
<1>4. /\ pushed' \in Nat /\ cuts' \in Nat
      /\ txs' \in Nat /\ others' \in Nat /\ writeFails' \in Nat
      /\ nextId' \in Nat /\ named' \in Seq(Name)
  BY TakeIdType DEF TypeOK, PushVolatile
<1>5. first' = FALSE
  BY DEF PushVolatile
<1>6. UNCHANGED <<flash, opEnd, ctl, inbox, stored, done, dropped, srv>>
  BY DEF PushVolatile
<1> QED
  BY <1>3, <1>4, <1>5, <1>6 DEF TypeOK, flash, ctl

\* A transaction request is stored, or not, and joins the queue (Request::initiate, push_back).
LEMMA PushTxType ==
    ASSUME TypeOK, NEW kind \in TxKind, NEW preBoot \in -1..cuts, PushTx(kind, preBoot)
    PROVE  TypeOK'
<1> DEFINE seq == pushed + 1
           f == [seq |-> seq, kind |-> kind, id |-> nextId, preBoot |-> preBoot]
           r(opNr) == [seq |-> seq, kind |-> kind, opNr |-> opNr, id |-> nextId]
<1>1. f \in OpFile /\ seq \in Nat /\ seq \in Seqs
  BY DEF TypeOK, OpFile, Kind
<1>2. r(opEnd) \in Request /\ r(-1) \in Request
  BY DEF TypeOK, Request, Kind
<1>3. head' \in Request /\ tail' \in Seq(Request)
  <2>1. Enqueue(r(opEnd)) \/ Enqueue(r(-1))
    BY DEF PushTx
  <2> HIDE DEF r
  <2> QED
    BY <1>2, <2>1, EnqueueType DEF TypeOK
<1>4. /\ file' \in [OpNr -> OpFile]
      /\ stored' \subseteq Seqs
      /\ writeFails' \in Nat
  <2>1. \/ file' = [file EXCEPT ![opEnd] = f] /\ stored' = stored \cup {seq}
           /\ writeFails' = writeFails
        \/ file' = file /\ stored' = stored /\ writeFails' = writeFails + 1
    BY DEF PushTx
  <2> HIDE DEF f, seq
  <2>2. opEnd \in OpNr /\ file \in [OpNr -> OpFile] /\ stored \subseteq Seqs /\ writeFails \in Nat
    BY DEF TypeOK
  <2>3. [file EXCEPT ![opEnd] = f] \in [OpNr -> OpFile]
    BY <1>1, <2>2
  <2>4. stored \cup {seq} \subseteq Seqs
    BY <1>1, <2>2
  <2> QED
    BY <2>1, <2>2, <2>3, <2>4
<1>5. opEnd' \in OpNr
  BY NextOpNrType DEF TypeOK, PushTx
<1>6. /\ pushed' \in Nat /\ txs' \in Nat
      /\ nextId' \in Nat /\ named' \in Seq(Name)
  BY TakeIdType DEF TypeOK, PushTx
<1>8. first' = FALSE
  BY DEF PushTx
<1>7. UNCHANGED <<opBegin, ctl, inbox, cuts, others, done, dropped, srv>>
  BY DEF PushTx
<1> QED
  BY <1>3, <1>4, <1>5, <1>6, <1>7, <1>8 DEF TypeOK, ctl

\* Sending, receiving and timing out keep the types (RequestQueue::loop, receiveResponse).
LEMMA ConnectionType ==
    ASSUME TypeOK,
           \/ \E error \in BOOLEAN : Send(error)
           \/ Disconnect
           \/ Receive
           \/ \E late \in SUBSET Expirable : Expire(late)
    PROVE  TypeOK'
<1>1. ASSUME NEW error \in BOOLEAN, Send(error) PROVE TypeOK'
  <2>1. [id |-> head.id, error |-> error] \in Answer /\ head.seq \in Nat
    BY DEF TypeOK, Request, Answer
  <2>2. inbox' \in Seq(Answer) /\ srv' \in Seq(Nat)
    BY <1>1, <2>1 DEF Send, TypeOK
  <2> QED
    BY <1>1, <2>2 DEF Send, TypeOK, flash, ram, ctl, bounds
<1>2. CASE Disconnect
  BY <1>2 DEF Disconnect, TypeOK, flash, ram, ctl, bounds, history
<1>3. CASE Receive
  <2>1. Head(inbox) \in Answer /\ Tail(inbox) \in Seq(Answer)
    BY <1>3 DEF Receive, TypeOK
  <2>2. handling' \in Handling
    BY <1>3, <2>1 DEF Receive, Handling, Answer, Idle
  <2> QED
    BY <1>3, <2>1, <2>2 DEF Receive, TypeOK, flash, ram, bounds, history
<1>4. ASSUME NEW late \in SUBSET Expirable, Expire(late) PROVE TypeOK'
  <2>1. \A i \in DOMAIN tail : tail[i] \in Request
    BY DEF TypeOK
  <2>2. Expirable \subseteq Nat
    BY <2>1 DEF Expirable, Queued, TypeOK, Request
  <2>3. handling' \in Handling
    BY <1>4, <2>2 DEF Expire, Handling, Idle
  <2> QED
    BY <1>4, <2>3 DEF Expire, TypeOK, flash, ram, bounds, history
<1> QED
  BY <1>1, <1>2, <1>3, <1>4

\* Dropping the requests that were answered or timed out keeps the types (drop_if).
LEMMA DropType ==
    ASSUME TypeOK, DropStep
    PROVE  TypeOK'
<1>1. CASE DropHead
  <2>1. head.seq \in Nat /\ head.opNr \in OpNr \cup {-1}
    BY DEF TypeOK, Request
  <2>2. done' \subseteq Nat
    BY <1>1, <2>1 DEF DropHead, Finish, TypeOK
  <2>3. pc' \in {"erase", "fetch"} /\ erase' \in Erase
    <3>1. head.opNr >= 0 => head.opNr \in OpNr
      BY <2>1
    <3> QED
      BY <1>1, <3>1 DEF DropHead, Erase, TypeOK
  <2> QED
    BY <1>1, <2>2, <2>3, PlaceholderTypes DEF DropHead, TypeOK, flash, bounds
<1>2. ASSUME NEW i \in DOMAIN tail, DropTail(i) PROVE TypeOK'
  <2>1. tail' \in Seq(Request)
    BY <1>2, RemoveAtType DEF DropTail, TypeOK
  <2>2. tail[i].seq \in Nat
    <3>1. tail \in Seq(Request)
      BY DEF TypeOK
    <3>2. tail[i] \in Request
      BY <3>1
    <3> QED
      BY <3>2 DEF Request
  <2>3. done' \subseteq Nat
    BY <1>2, <2>2 DEF DropTail, Finish, TypeOK
  <2> QED
    BY <1>2, <2>1, <2>3 DEF DropTail, TypeOK, flash, ctl, bounds
<1>3. CASE EndDrop
  BY <1>3, PlaceholderTypes DEF EndDrop, TypeOK, flash, ram, bounds, history
<1> QED
  BY <1>1, <1>2, <1>3 DEF DropStep

\* What a fetch reads from an op file.
LEMMA FileType ==
    ASSUME TypeOK, NEW d \in OpNr
    PROVE  /\ At(d) \in OpNr
           /\ file[At(d)] \in OpFile
           /\ BumpId(file[At(d)].id) \in Nat
<1>1. At(d) \in OpNr
  BY AtType, RingType DEF TypeOK
<1>2. file[At(d)] \in OpFile
  BY <1>1 DEF TypeOK
<1>3. file[At(d)].id \in Nat \cup {-1} /\ nextId \in Nat
  BY <1>2 DEF OpFile, TypeOK
<1>4. BumpId(file[At(d)].id) \in Nat
  BY <1>3 DEF BumpId
<1> QED
  BY <1>1, <1>2, <1>4

\* Every step of pop_front, the erasure of old op files included, keeps the types.
LEMMA PopType ==
    ASSUME TypeOK, PopStep
    PROVE  TypeOK'
<1>1. CASE EraseFile
  <2>1. erase.n \in Nat
    BY DEF TypeOK, Erase
  <2>2. file' \in [OpNr -> OpFile]
    BY <1>1, <2>1, HistoryType, PlaceholderTypes DEF EraseFile, TypeOK
  <2>3. erase' \in Erase
    <3>1. erase' = [erase EXCEPT !.n = @ + 1] /\ erase \in Erase
      BY <1>1 DEF EraseFile, TypeOK
    <3> QED
      BY <3>1 DEF Erase
  <2> QED
    BY <1>1, <2>2, <2>3 DEF EraseFile, TypeOK, ram, bounds, history
<1>2. CASE SaveBegin
  <2>1. erase.upTo \in OpNr /\ erase.then \in {"fetch", "cached", "panic"}
    BY DEF TypeOK, Erase
  <2>2. opBegin' \in OpNr
    BY <1>2, <2>1, NextOpNrType DEF SaveBegin
  <2> QED
    BY <1>2, <2>1, <2>2, PlaceholderTypes DEF SaveBegin, TypeOK, ram, bounds, history
<1>3. CASE FetchCached
  <2>1. head' \in Request /\ tail' \in Seq(Request)
    BY <1>3, TakeCachedType DEF FetchCached, TypeOK
  <2> QED
    BY <1>3, <2>1 DEF FetchCached, TypeOK, flash, bounds, history
<1>4. CASE SkipToCached
  <2>1. head' \in Request /\ tail' \in Seq(Request)
    BY <1>4, TakeCachedType DEF SkipToCached, TypeOK
  <2> QED
    BY <1>4, <2>1 DEF SkipToCached, TypeOK, flash, bounds, history
<1>5. ASSUME NEW d \in OpNr, FetchFlash(d) PROVE TypeOK'
  <2>1. head' \in Request
    BY <1>5, FileType DEF FetchFlash, Request, OpFile
  <2>2. nextId' \in Nat
    BY <1>5, FileType DEF FetchFlash
  <2> QED
    BY <1>5, <2>1, <2>2 DEF FetchFlash, TypeOK, flash, bounds, history
<1>6. ASSUME NEW d \in OpNr, FetchFails(d) PROVE TypeOK'
  <2>1. nextId' \in Nat
    BY <1>6, FileType DEF FetchFails
  <2>2. dropped' \subseteq Nat
    BY <1>6, FileType DEF FetchFails, TypeOK, OpFile
  <2>3. /\ erase' \in Erase
        /\ pc' \in {"erase", "panic", "cached"}
    BY <1>6, FileType DEF FetchFails, TypeOK, Erase
  <2> QED
    BY <1>6, <2>1, <2>2, <2>3 DEF FetchFails, TypeOK, flash, bounds
<1> QED
  BY <1>1, <1>2, <1>3, <1>4, <1>5, <1>6 DEF PopStep

\* So do power cuts, panics and boots (the RequestStore constructor).
LEMMA ResetType ==
    ASSUME TypeOK, PowerCut \/ Panic \/ Restart
    PROVE  TypeOK'
<1>1. CASE LoseRam
  BY <1>1, PlaceholderTypes, RingType DEF LoseRam, TypeOK, flash, history
<1>2. ASSUME NEW d \in 0..MaxOpNr, NEW attempts \in BootAttempts, Boot(d, attempts)
      PROVE  TypeOK'
  <2>1. d \in Int /\ attempts \in Nat /\ ExtraAttempts \in Nat
    BY QueueAssumption
  <2>2. cuts * ExtraAttempts \in Nat
    BY <2>1 DEF TypeOK
  <2>3. opEnd' \in OpNr /\ nextId' \in Nat
    BY <1>2, <2>1, <2>2, AtType DEF Boot, TypeOK
  <2> QED
    BY <1>2, <2>3 DEF Boot, TypeOK, flash, bounds, history
<1> QED
  BY <1>1, <1>2 DEF PowerCut, Panic, Restart

\* The type invariant is inductive.
LEMMA NextType == TypeOK /\ [Next]_vars => TypeOK'
<1> SUFFICES ASSUME TypeOK, [Next]_vars PROVE TypeOK'
  OBVIOUS
<1>1. CASE PushVolatile
  BY <1>1, PushVolatileType
<1>2. CASE \E kind \in TxKind, preBoot \in -1..cuts : PushTx(kind, preBoot)
  BY <1>2, PushTxType
<1>3. CASE \/ \E error \in BOOLEAN : Send(error)
           \/ Disconnect
           \/ Receive
           \/ \E late \in SUBSET Expirable : Expire(late)
  BY <1>3, ConnectionType
<1>4. CASE DropStep
  BY <1>4, DropType
<1>5. CASE PopStep
  BY <1>5, PopType
<1>6. CASE PowerCut \/ Panic \/ Restart
  BY <1>6, ResetType
<1>7. CASE UNCHANGED vars
  BY <1>7 DEF TypeOK, vars, flash, ram, ctl, bounds, history
<1> QED
  BY <1>1, <1>2, <1>3, <1>4, <1>5, <1>6, <1>7 DEF Next

\* The variables keep their types: in particular every op number, also after it wrapped
\* around, names a slot of the ring of op files.
THEOREM TypeCorrect == Spec => []TypeOK
BY InitType, NextType, PTL DEF Spec

-----------------------------------------------------------------------------

\* The inductive invariant behind NoOrphanTail.  A pop makes the first cached request, or the
\* one it reads from flash, the new head: both must be real requests, or the head would count
\* as empty with requests behind it.
RealRequests ==
    /\ \A i \in DOMAIN tail : tail[i].seq # 0
    /\ \A n \in OpNr : file[n] # NoFile => file[n].seq # 0

QueueInv == NoOrphanTail /\ RealRequests

\* A request with a place in the push order is not the empty head.
LEMMA RealHead ==
    ASSUME NEW r \in Request, r.seq # 0
    PROVE  r # NoReq
BY DEF NoReq

\* A real request that joins the queue leaves no cache behind an empty head (push_back).
LEMMA EnqueueReal ==
    ASSUME TypeOK, QueueInv, pc \in {"off", "idle", "drop"},
           NEW r \in Request, r.seq # 0, Enqueue(r)
    PROVE  /\ head' # NoReq
           /\ \A i \in DOMAIN tail' : tail'[i].seq # 0
<1>1. tail \in Seq(Request) /\ \A i \in DOMAIN tail : tail[i].seq # 0
  BY DEF TypeOK, QueueInv, RealRequests
<1>2. CASE head = NoReq
  BY <1>1, <1>2, RealHead DEF Enqueue
<1>3. CASE head # NoReq
  <2> DEFINE kept == IF Len(tail) >= CacheSize THEN Tail(tail) ELSE tail
  <2>1. CacheSize \in Nat \ {0}
    BY QueueAssumption
  <2>2. kept \in Seq(Request) /\ \A i \in DOMAIN kept : kept[i].seq # 0
    <3>1. CASE Len(tail) >= CacheSize
      <4>1. tail # <<>>
        BY <1>1, <2>1, <3>1
      <4> QED
        BY <1>1, <3>1, <4>1
    <3>2. CASE ~(Len(tail) >= CacheSize)
      BY <1>1, <3>2
    <3> QED
      BY <3>1, <3>2
  <2>3. tail' = Append(kept, r) /\ head' = head
    BY <1>3 DEF Enqueue
  <2> HIDE DEF kept
  <2> QED
    BY <1>3, <2>2, <2>3
<1> QED
  BY <1>2, <1>3

\* Taking the oldest request out of the cache does not either (pop_front).
LEMMA TakeCachedReal ==
    ASSUME TypeOK, QueueInv, TakeCached
    PROVE  /\ head' = NoReq => tail' = <<>>
           /\ \A i \in DOMAIN tail' : tail'[i].seq # 0
<1>1. tail \in Seq(Request) /\ \A i \in DOMAIN tail : tail[i].seq # 0
  BY DEF TypeOK, QueueInv, RealRequests
<1>2. CASE tail = <<>>
  BY <1>2 DEF TakeCached
<1>3. CASE tail # <<>>
  <2>1. Head(tail) \in Request /\ Head(tail).seq # 0
    BY <1>1, <1>3
  <2>2. \A i \in DOMAIN Tail(tail) : Tail(tail)[i].seq # 0
    BY <1>1, <1>3
  <2> QED
    BY <1>3, <2>1, <2>2, RealHead DEF TakeCached
<1> QED
  BY <1>2, <1>3

\* The queue is empty at the beginning.
LEMMA InitQueueInv == Init => QueueInv
BY DEF Init, QueueInv, NoOrphanTail, RealRequests

\* Both kinds of push keep the invariant of the queue.
LEMMA PushQueueInv ==
    ASSUME TypeOK, QueueInv,
           \/ PushVolatile
           \/ \E kind \in TxKind, preBoot \in -1..cuts : PushTx(kind, preBoot)
    PROVE  QueueInv'
<1>1. CASE PushVolatile
  <2> DEFINE r == [seq |-> pushed + 1, kind |-> "other", opNr |-> -1, id |-> nextId]
  <2>1. r \in Request /\ r.seq # 0
    BY DEF TypeOK, Request, Kind
  <2>2. Enqueue(r) /\ pc = "idle" /\ UNCHANGED <<flash, ctl>>
    BY <1>1 DEF PushVolatile
  <2> HIDE DEF r
  <2>3. head' # NoReq /\ \A i \in DOMAIN tail' : tail'[i].seq # 0
    BY <2>1, <2>2, EnqueueReal
  <2> QED
    BY <2>2, <2>3 DEF QueueInv, NoOrphanTail, RealRequests, flash
<1>2. ASSUME NEW kind \in TxKind, NEW preBoot \in -1..cuts, PushTx(kind, preBoot)
      PROVE  QueueInv'
  <2> DEFINE f == [seq |-> pushed + 1, kind |-> kind, id |-> nextId, preBoot |-> preBoot]
             r(opNr) == [seq |-> pushed + 1, kind |-> kind, opNr |-> opNr, id |-> nextId]
  <2>1. /\ r(opEnd) \in Request /\ r(opEnd).seq # 0
        /\ r(-1) \in Request /\ r(-1).seq # 0
        /\ f.seq # 0
    BY DEF TypeOK, Request, Kind
  <2>2. /\ pc = "idle"
        /\ Enqueue(r(opEnd)) \/ Enqueue(r(-1))
        /\ file' = [file EXCEPT ![opEnd] = f] \/ file' = file
    BY <1>2 DEF PushTx
  <2> HIDE DEF f, r
  <2>3. head' # NoReq /\ \A i \in DOMAIN tail' : tail'[i].seq # 0
    BY <2>1, <2>2, EnqueueReal
  <2>4. \A n \in OpNr : file'[n] # NoFile => file'[n].seq # 0
    BY <2>1, <2>2 DEF QueueInv, RealRequests, TypeOK
  <2> QED
    BY <2>3, <2>4 DEF QueueInv, NoOrphanTail, RealRequests
<1> QED
  BY <1>1, <1>2

\* drop_if keeps it: it empties the head only to fetch the next one.
LEMMA DropQueueInv ==
    ASSUME TypeOK, QueueInv, DropStep
    PROVE  QueueInv'
<1>1. CASE DropHead
  BY <1>1 DEF DropHead, QueueInv, NoOrphanTail, RealRequests, flash
<1>2. ASSUME NEW i \in DOMAIN tail, DropTail(i) PROVE QueueInv'
  <2>1. tail \in Seq(Request) /\ \A j \in DOMAIN tail : tail[j].seq # 0
    BY DEF TypeOK, QueueInv, RealRequests
  <2>2. head # NoReq
    BY <1>2 DEF DropTail, QueueInv, NoOrphanTail
  <2>3. Len(tail) \in Nat /\ DOMAIN tail = 1..Len(tail) /\ i \in 1..Len(tail)
    BY <2>1
  <2>4. \A j \in DOMAIN RemoveAt(tail, i) : RemoveAt(tail, i)[j].seq # 0
    BY <2>1, <2>3 DEF RemoveAt
  <2> QED
    BY <1>2, <2>2, <2>4 DEF DropTail, QueueInv, NoOrphanTail, RealRequests, flash
<1>3. CASE EndDrop
  BY <1>3 DEF EndDrop, QueueInv, NoOrphanTail, RealRequests, flash, ram
<1> QED
  BY <1>1, <1>2, <1>3 DEF DropStep

\* pop_front restores it: it ends with a head, or with an empty cache.
LEMMA PopQueueInv ==
    ASSUME TypeOK, QueueInv, PopStep
    PROVE  QueueInv'
<1>1. CASE EraseFile
  <2>1. file' = [file EXCEPT ![HistoryFile(erase.n)] = NoFile] /\ file \in [OpNr -> OpFile]
    BY <1>1 DEF EraseFile, TypeOK
  <2>2. \A n \in OpNr : file'[n] # NoFile => file'[n].seq # 0
    BY <2>1 DEF QueueInv, RealRequests
  <2> QED
    BY <1>1, <2>2 DEF EraseFile, QueueInv, NoOrphanTail, RealRequests, ram
<1>2. CASE SaveBegin
  <2>1. pc' \notin {"off", "idle", "drop"}
    BY <1>2 DEF SaveBegin, TypeOK, Erase
  <2> QED
    BY <1>2, <2>1 DEF SaveBegin, QueueInv, NoOrphanTail, RealRequests, ram
<1>3. CASE FetchCached
  BY <1>3, TakeCachedReal DEF FetchCached, QueueInv, NoOrphanTail, RealRequests, flash
<1>4. CASE SkipToCached
  BY <1>4, TakeCachedReal DEF SkipToCached, QueueInv, NoOrphanTail, RealRequests, flash
<1>5. ASSUME NEW d \in OpNr, FetchFlash(d) PROVE QueueInv'
  <2>1. At(d) \in OpNr /\ file[At(d)].seq # 0
    BY <1>5, FileType DEF FetchFlash, FirstStored, IsStored, QueueInv, RealRequests
  <2>2. head'.seq # 0
    BY <1>5, <2>1 DEF FetchFlash
  <2>3. head' # NoReq
    BY <2>2 DEF NoReq
  <2> QED
    BY <1>5, <2>3 DEF FetchFlash, QueueInv, NoOrphanTail, RealRequests, flash
<1>6. ASSUME NEW d \in OpNr, FetchFails(d) PROVE QueueInv'
  <2>1. pc' \notin {"off", "idle", "drop"}
    BY <1>6 DEF FetchFails
  <2> QED
    BY <1>6, <2>1 DEF FetchFails, QueueInv, NoOrphanTail, RealRequests, flash
<1> QED
  BY <1>1, <1>2, <1>3, <1>4, <1>5, <1>6 DEF PopStep

\* The invariant of the queue is inductive, relative to the types.
LEMMA NextQueueInv == TypeOK /\ QueueInv /\ [Next]_vars => QueueInv'
<1> SUFFICES ASSUME TypeOK, QueueInv, [Next]_vars PROVE QueueInv'
  OBVIOUS
<1>1. CASE \/ PushVolatile
           \/ \E kind \in TxKind, preBoot \in -1..cuts : PushTx(kind, preBoot)
  BY <1>1, PushQueueInv
<1>2. ASSUME NEW error \in BOOLEAN, Send(error) PROVE QueueInv'
  BY <1>2 DEF Send, QueueInv, NoOrphanTail, RealRequests, flash, ram, ctl
<1>3. CASE Disconnect
  BY <1>3 DEF Disconnect, QueueInv, NoOrphanTail, RealRequests, flash, ram, ctl
<1>4. CASE Receive
  BY <1>4 DEF Receive, QueueInv, NoOrphanTail, RealRequests, flash, ram
<1>5. ASSUME NEW late \in SUBSET Expirable, Expire(late) PROVE QueueInv'
  BY <1>5 DEF Expire, QueueInv, NoOrphanTail, RealRequests, flash, ram
<1>6. CASE DropStep
  BY <1>6, DropQueueInv
<1>7. CASE PopStep
  BY <1>7, PopQueueInv
<1>8. CASE PowerCut \/ Panic
  BY <1>8 DEF PowerCut, Panic, LoseRam, QueueInv, NoOrphanTail, RealRequests, flash
<1>9. CASE Restart
  BY <1>9 DEF Restart, Boot, QueueInv, NoOrphanTail, RealRequests, flash
<1>10. CASE UNCHANGED vars
  BY <1>10 DEF vars, QueueInv, NoOrphanTail, RealRequests, flash, ram, ctl
<1> QED
  BY <1>1, <1>2, <1>3, <1>4, <1>5, <1>6, <1>7, <1>8, <1>9, <1>10 DEF Next

\* push_back and front never meet the state they report as invalid, an empty head with
\* requests cached behind it: whichever pops, evictions, answers and resets came before.
THEOREM NeverOrphaned == Spec => []NoOrphanTail
<1>1. TypeOK /\ QueueInv /\ [Next]_vars => (TypeOK /\ QueueInv)'
  BY NextType, NextQueueInv
<1>2. QueueInv => NoOrphanTail
  BY DEF QueueInv
<1> QED
  BY InitType, InitQueueInv, <1>1, <1>2, PTL DEF Spec

-----------------------------------------------------------------------------
(* Who receives an answer *)

\* The message ID and the identity of every request in RAM or flash.
Tags ==
    {<<q.id, q.seq>> : q \in Queued \ {NoReq}}
        \cup {<<file[n].id, file[n].seq>> : n \in {m \in OpNr : file[m] # NoFile}}

\* The message IDs that answers under way, or the one being handled, carry.
Answered ==
    {inbox[i].id : i \in DOMAIN inbox} \cup {i \in {handling.id} : handling.by = "answer"}

\* The request s got this message ID when it was pushed.
Names(id, s) == s \in 1..pushed /\ named[s].id = id

\* It reached the server, or one did that another boot gave the same message ID.
Justified(s) ==
    /\ s \in 1..pushed
    /\ Received(s) \/ \E t \in 1..pushed : Received(t) /\ SameName(s, t)

\* A boot gives each message ID once: the counter is beyond those of this boot.
OncePerBoot ==
    /\ \A s, t \in 1..pushed :
          s # t /\ named[s].boot = named[t].boot => named[s].id # named[t].id
    /\ \A s \in 1..pushed :
          /\ named[s].boot <= cuts
          /\ named[s].boot = cuts => pc # "off" /\ named[s].id < nextId

\* Requests keep the message ID they were pushed with, over evictions and boots, and an answer
\* names a request that reached the server.
NameInv ==
    /\ Len(named) = pushed
    /\ \A t \in Tags : Names(t[1], t[2])
    /\ \A a \in Answered : \E s : Received(s) /\ Names(a, s)
    /\ \A s \in done : Justified(s)
    /\ OncePerBoot

-----------------------------------------------------------------------------
(* The requests a step leaves *)

\* What a step did to RAM and flash, without what it did to the message IDs.
LEMMA TagsKept ==
    ASSUME TypeOK,
           Queued' \subseteq Queued \cup {NoReq},
           \A n \in OpNr : file'[n] \in {file[n], NoFile}
    PROVE  Tags' \subseteq Tags
<1>1. \A q \in Queued' \ {NoReq} : q \in Queued \ {NoReq}
  OBVIOUS
<1>2. \A n \in OpNr : file'[n] # NoFile => file'[n] = file[n]
  OBVIOUS
<1>3. \A q \in Queued' \ {NoReq} : <<q.id, q.seq>> \in Tags
  BY <1>1 DEF Tags
<1>4. \A n \in {m \in OpNr : file'[m] # NoFile} : <<file'[n].id, file'[n].seq>> \in Tags
  BY <1>2 DEF Tags
<1> QED
  BY <1>3, <1>4 DEF Tags

\* The counter of a boot never goes back.
Later ==
    \/ cuts' = cuts + 1
    \/ cuts' = cuts /\ (pc = "off" \/ (pc' # "off" /\ nextId' >= nextId))

\* A step that pushes nothing keeps the invariant if the answers it leaves name requests that
\* reached the server.
LEMMA NamesKept ==
    ASSUME TypeOK, TypeOK', NameInv, Tags' \subseteq Tags, UNCHANGED <<named, pushed>>, Later,
           \A s : Received(s) => Received(s)',
           \A a \in Answered' : a \in Answered \/ \E s : Received(s)' /\ Names(a, s),
           \A s \in done' : s \in done \/ Justified(s)
    PROVE  NameInv'
<1>1. \A id, s : Names(id, s)' <=> Names(id, s)
  BY DEF Names
<1>2. \A s : Justified(s) => Justified(s)'
  BY DEF Justified, SameName
<1>3. \A t \in Tags' : Names(t[1], t[2])'
  BY <1>1 DEF NameInv
<1>4. \A a \in Answered' : \E s : Received(s)' /\ Names(a, s)'
  BY <1>1 DEF NameInv
<1>5. \A s \in done' : Justified(s)'
  BY <1>2 DEF NameInv
<1>6. OncePerBoot'
  <2>1. cuts \in Nat /\ nextId \in Nat /\ nextId' \in Nat /\ pushed \in Nat
    BY DEF TypeOK
  <2>2. ASSUME NEW s \in 1..pushed
        PROVE  /\ named[s].boot <= cuts'
               /\ named[s].boot = cuts' => pc' # "off" /\ named[s].id < nextId'
    <3>1. named[s] \in Name
      BY DEF TypeOK, NameInv
    <3>2. named[s].id \in Nat /\ named[s].boot \in Nat
      BY <3>1 DEF Name
    <3>3. named[s].boot <= cuts /\ (named[s].boot = cuts => pc # "off" /\ named[s].id < nextId)
      BY DEF NameInv, OncePerBoot
    <3> QED
      BY <2>1, <3>2, <3>3 DEF Later
  <2> QED
    BY <2>2 DEF NameInv, OncePerBoot
<1>7. Len(named') = pushed'
  BY DEF NameInv
<1> QED
  BY <1>3, <1>4, <1>5, <1>6, <1>7 DEF NameInv

\* A push leaves the requests that were there, but for an evicted one, and the new one.
LEMMA EnqueueQueued ==
    ASSUME TypeOK, NEW r \in Request, Enqueue(r)
    PROVE  Queued' \subseteq Queued \cup {r}
<1>1. tail \in Seq(Request)
  BY DEF TypeOK
<1>2. CASE head = NoReq
  BY <1>2 DEF Enqueue, Queued
<1>3. CASE head # NoReq
  <2> DEFINE kept == IF Len(tail) >= CacheSize THEN Tail(tail) ELSE tail
  <2>1. tail' = Append(kept, r) /\ head' = head
    BY <1>3 DEF Enqueue
  <2>2. kept \in Seq(Request) /\ \A i \in DOMAIN kept : kept[i] \in Queued
    <3>1. CASE Len(tail) >= CacheSize
      <4>1. tail # <<>>
        BY <1>1, <3>1, QueueAssumption
      <4>2. \A i \in DOMAIN Tail(tail) : i + 1 \in DOMAIN tail /\ Tail(tail)[i] = tail[i + 1]
        BY <1>1, <4>1
      <4> QED
        BY <1>1, <3>1, <4>1, <4>2 DEF Queued
    <3>2. CASE ~(Len(tail) >= CacheSize)
      BY <1>1, <3>2 DEF Queued
    <3> QED
      BY <3>1, <3>2
  <2> HIDE DEF kept
  <2>3. \A i \in DOMAIN tail' : tail'[i] \in Queued \cup {r}
    BY <2>1, <2>2
  <2>4. head' \in Queued
    BY <2>1 DEF Queued
  <2> QED
    BY <2>3, <2>4 DEF Queued
<1> QED
  BY <1>2, <1>3

\* So does a pop, but for the head that was popped before.
LEMMA TakeCachedQueued ==
    ASSUME TypeOK, TakeCached
    PROVE  Queued' \subseteq Queued \cup {NoReq}
<1>1. tail \in Seq(Request)
  BY DEF TypeOK
<1>2. CASE tail = <<>>
  BY <1>2 DEF TakeCached, Queued
<1>3. CASE tail # <<>>
  <2>1. head' = tail[1] /\ tail' = Tail(tail) /\ 1 \in DOMAIN tail
    BY <1>1, <1>3 DEF TakeCached
  <2>2. \A i \in DOMAIN Tail(tail) : i + 1 \in DOMAIN tail /\ Tail(tail)[i] = tail[i + 1]
    BY <1>1, <1>3
  <2> QED
    BY <2>1, <2>2 DEF Queued
<1> QED
  BY <1>2, <1>3

-----------------------------------------------------------------------------
(* The steps *)

LEMMA InitName == Init => NameInv
<1> SUFFICES ASSUME Init PROVE NameInv
  OBVIOUS
<1>1. Tags = {}
  BY InitType DEF Init, Tags, Queued, TypeOK
<1>2. Answered = {}
  BY DEF Init, Answered, Idle
<1> QED
  BY <1>1, <1>2 DEF Init, NameInv, OncePerBoot

\* A new request takes a message ID that no other of this boot has.
LEMMA FreshName ==
    ASSUME TypeOK, NameInv, pc = "idle", pc' = "idle", TakeId, pushed' = pushed + 1,
           Tags' \subseteq Tags \cup {<<nextId, pushed + 1>>},
           UNCHANGED <<inbox, handling, done, srv, cuts>>
    PROVE  NameInv'
<1> DEFINE new == [id |-> nextId, boot |-> cuts]
<1>1. /\ nextId \in Nat /\ pushed \in Nat /\ cuts \in Nat
      /\ named \in Seq(Name) /\ Len(named) = pushed
  BY DEF TypeOK, NameInv
<1>2. new \in Name /\ new.id = nextId /\ new.boot = cuts
  BY <1>1 DEF Name
<1>3. named' = Append(named, new) /\ nextId' = nextId + 1
  BY DEF TakeId
<1> HIDE DEF new
<1>4. /\ Len(named') = pushed' /\ named'[pushed + 1] = new
      /\ \A s \in 1..pushed : named'[s] = named[s] /\ named[s] \in Name
  BY <1>1, <1>2, <1>3
<1>5. \A s \in 1..pushed' : s \in 1..pushed \/ s = pushed + 1
  BY <1>1
<1>6. \A s \in 1..pushed : s \in 1..pushed'
  BY <1>1
<1>7. \A id, s : Names(id, s) => Names(id, s)'
  BY <1>4, <1>6 DEF Names
<1>8. \A s : Received(s)' <=> Received(s)
  BY DEF Received
<1>9. \A t \in Tags' : Names(t[1], t[2])'
  <2> PICK id : id = nextId
    OBVIOUS
  <2> PICK s : s = pushed + 1
    OBVIOUS
  <2>1. Names(id, s)'
    BY <1>1, <1>2, <1>4 DEF Names
  <2>2. \A t \in Tags' : t \in Tags \/ (t[1] = id /\ t[2] = s)
    OBVIOUS
  <2>3. \A t \in Tags : Names(t[1], t[2])'
    BY <1>7 DEF NameInv
  <2> QED
    BY <2>1, <2>2, <2>3
<1>10. \A a \in Answered' : \E s : Received(s)' /\ Names(a, s)'
  <2>1. Answered' = Answered
    BY DEF Answered
  <2> QED
    BY <1>7, <1>8, <2>1 DEF NameInv
<1>11. \A s \in done' : Justified(s)'
  <2>1. \A s \in done : Justified(s)
    BY DEF NameInv
  <2> QED
    BY <1>4, <1>6, <1>8, <2>1 DEF Justified, SameName
<1>12. OncePerBoot'
  <2>1. ASSUME NEW s \in 1..pushed
        PROVE  /\ named'[s].boot <= cuts /\ named'[s].id \in Nat
               /\ named'[s].boot = cuts => named'[s].id < nextId
    <3>1. named[s].id \in Nat
      BY <1>4 DEF Name
    <3> QED
      BY <1>4, <3>1 DEF NameInv, OncePerBoot
  <2>2. ASSUME NEW s \in 1..pushed', NEW t \in 1..pushed', s # t,
               named'[s].boot = named'[t].boot
        PROVE  named'[s].id # named'[t].id
    <3>1. CASE s \in 1..pushed /\ t \in 1..pushed
      BY <1>4, <2>2, <3>1 DEF NameInv, OncePerBoot
    <3>2. CASE s \in 1..pushed /\ t = pushed + 1
      BY <1>1, <1>2, <1>4, <2>1, <2>2, <3>2
    <3>3. CASE s = pushed + 1 /\ t \in 1..pushed
      BY <1>1, <1>2, <1>4, <2>1, <2>2, <3>3
    <3> QED
      BY <1>5, <2>2, <3>1, <3>2, <3>3
  <2>3. ASSUME NEW s \in 1..pushed'
        PROVE  /\ named'[s].boot <= cuts'
               /\ named'[s].boot = cuts' => pc' # "off" /\ named'[s].id < nextId'
    BY <1>1, <1>2, <1>3, <1>4, <1>5, <2>1
  <2> QED
    BY <2>2, <2>3 DEF OncePerBoot
<1> QED
  BY <1>4, <1>9, <1>10, <1>11, <1>12 DEF NameInv

LEMMA PushName ==
    ASSUME TypeOK, NameInv,
           \/ PushVolatile
           \/ \E kind \in TxKind, preBoot \in -1..cuts : PushTx(kind, preBoot)
    PROVE  NameInv'
<1>1. CASE PushVolatile
  <2> DEFINE r == [seq |-> pushed + 1, kind |-> "other", opNr |-> -1, id |-> nextId]
  <2>1. r \in Request /\ r.id = nextId /\ r.seq = pushed + 1
    BY DEF TypeOK, Request, Kind
  <2>2. /\ Enqueue(r) /\ pc = "idle" /\ pc' = "idle" /\ TakeId /\ pushed' = pushed + 1
        /\ UNCHANGED <<file, inbox, handling, done, srv, cuts>>
    BY <1>1 DEF PushVolatile, flash, ctl
  <2> HIDE DEF r
  <2>3. Queued' \subseteq Queued \cup {r}
    BY <2>1, <2>2, EnqueueQueued
  <2>4. Tags' \subseteq Tags \cup {<<nextId, pushed + 1>>}
    BY <2>1, <2>2, <2>3 DEF Tags
  <2> QED
    BY <2>2, <2>4, FreshName
<1>2. ASSUME NEW kind \in TxKind, NEW preBoot \in -1..cuts, PushTx(kind, preBoot)
      PROVE  NameInv'
  <2> DEFINE f == [seq |-> pushed + 1, kind |-> kind, id |-> nextId, preBoot |-> preBoot]
             r(opNr) == [seq |-> pushed + 1, kind |-> kind, opNr |-> opNr, id |-> nextId]
  <2>1. /\ r(opEnd) \in Request /\ r(opEnd).id = nextId /\ r(opEnd).seq = pushed + 1
        /\ r(-1) \in Request /\ r(-1).id = nextId /\ r(-1).seq = pushed + 1
        /\ f.id = nextId /\ f.seq = pushed + 1
    BY DEF TypeOK, Request, Kind
  <2>2. /\ Enqueue(r(opEnd)) \/ Enqueue(r(-1))
        /\ file' = [file EXCEPT ![opEnd] = f] \/ file' = file
        /\ pc = "idle" /\ pc' = "idle" /\ TakeId /\ pushed' = pushed + 1
        /\ UNCHANGED <<inbox, handling, done, srv, cuts>>
    BY <1>2 DEF PushTx, ctl
  <2> HIDE DEF f, r
  <2>3. Queued' \subseteq Queued \cup {r(opEnd), r(-1)}
    BY <2>1, <2>2, EnqueueQueued
  <2>4. \A n \in OpNr : file'[n] \in {file[n], f}
    BY <2>2 DEF TypeOK
  <2>5. Tags' \subseteq Tags \cup {<<nextId, pushed + 1>>}
    <3>1. \A q \in Queued' \ {NoReq} : <<q.id, q.seq>> \in Tags \cup {<<nextId, pushed + 1>>}
      BY <2>1, <2>3 DEF Tags
    <3>2. \A n \in {m \in OpNr : file'[m] # NoFile} :
            <<file'[n].id, file'[n].seq>> \in Tags \cup {<<nextId, pushed + 1>>}
      BY <2>1, <2>4 DEF Tags
    <3> QED
      BY <3>1, <3>2 DEF Tags
  <2> QED
    BY <2>2, <2>5, FreshName
<1> QED
  BY <1>1, <1>2

\* The server answers the request it received.
LEMMA SendName ==
    ASSUME TypeOK, TypeOK', NameInv, NEW error \in BOOLEAN, Send(error)
    PROVE  NameInv'
<1>1. /\ pc = "idle" /\ head # NoReq
      /\ inbox' = Append(inbox, [id |-> head.id, error |-> error])
      /\ srv' = srv \/ srv' = Append(srv, head.seq)
      /\ UNCHANGED <<file, head, tail, nextId, pc, handling, cuts, done, named, pushed>>
  BY DEF Send, flash, ram, ctl, bounds
<1>2. inbox \in Seq(Answer) /\ srv \in Seq(Nat) /\ nextId \in Nat
  BY DEF TypeOK
<1>3. \A s : Received(s) => Received(s)'
  <2>1. Len(srv) \in Nat /\ DOMAIN srv = 1..Len(srv)
    BY <1>2
  <2>2. \A i \in DOMAIN srv : i \in DOMAIN srv' /\ srv'[i] = srv[i]
    BY <1>1, <1>2, <2>1
  <2> QED
    BY <2>2 DEF Received
<1>4. Received(head.seq)'
  <2>1. CASE Received(head.seq)
    BY <1>1, <1>3, <2>1 DEF Received
  <2>2. CASE ~Received(head.seq)
    <3>1. srv' = Append(srv, head.seq)
      BY <2>2 DEF Send
    <3>2. Len(srv) + 1 \in DOMAIN srv' /\ srv'[Len(srv) + 1] = head.seq
      BY <1>2, <3>1
    <3> QED
      BY <1>1, <3>2 DEF Received
  <2> QED
    BY <2>1, <2>2
<1>5. Tags' = Tags /\ <<head.id, head.seq>> \in Tags
  BY <1>1 DEF Tags, Queued
<1>6. Names(head.id, head.seq)
  BY <1>5 DEF NameInv
<1>7. \A a \in Answered' : a \in Answered \/ a = head.id
  <2>1. \A i \in DOMAIN inbox' : (i \in DOMAIN inbox /\ inbox'[i] = inbox[i])
                                     \/ inbox'[i].id = head.id
    BY <1>1, <1>2
  <2> QED
    BY <1>1, <2>1 DEF Answered
<1>8. \A a \in Answered' : a \in Answered \/ \E s : Received(s)' /\ Names(a, s)
  <2>1. \E s : Received(s)' /\ Names(head.id, s)
    <3> PICK s : s = head.seq
      OBVIOUS
    <3>1. Received(s)'
      BY <1>1, <1>4 DEF Received
    <3>2. Names(head.id, s)
      BY <1>6
    <3> QED
      BY <3>1, <3>2
  <2> QED
    BY <1>7, <2>1
<1>9. Later
  BY <1>1, <1>2 DEF Later
<1> QED
  BY <1>1, <1>3, <1>5, <1>8, <1>9, NamesKept

\* Answers that are lost, or taken, and timeouts name no further request.
LEMMA ReceiveName ==
    ASSUME TypeOK, TypeOK', NameInv,
           \/ Receive
           \/ \E late \in SUBSET Expirable : Expire(late)
           \/ Disconnect
           \/ UNCHANGED vars
    PROVE  NameInv'
<1>1. /\ UNCHANGED <<file, head, tail, nextId, cuts, done, srv, named, pushed>>
      /\ pc' = pc \/ pc' = "drop"
  BY DEF Receive, Expire, Disconnect, vars, flash, ram, ctl, bounds, history
<1>2. Tags' = Tags
  BY <1>1 DEF Tags, Queued
<1>3. Answered' \subseteq Answered
  <2>1. CASE Receive
    <3>1. /\ inbox # <<>> /\ inbox \in Seq(Answer) /\ inbox' = Tail(inbox)
          /\ handling'.id = inbox[1].id
      BY <2>1 DEF Receive, TypeOK, Idle
    <3>2. 1 \in DOMAIN inbox /\ \A i \in DOMAIN inbox' : i + 1 \in DOMAIN inbox
                                                        /\ inbox'[i] = inbox[i + 1]
      BY <3>1
    <3> QED
      BY <3>1, <3>2 DEF Answered
  <2>2. ASSUME NEW late \in SUBSET Expirable, Expire(late)
        PROVE  Answered' \subseteq Answered
    BY <2>2 DEF Expire, Answered, Idle
  <2>3. CASE Disconnect \/ UNCHANGED vars
    <3>1. handling' = handling /\ inbox' \in {inbox, <<>>}
      BY <2>3 DEF Disconnect, vars, ctl
    <3> QED
      BY <3>1 DEF Answered
  <2> QED
    BY <2>1, <2>2, <2>3
<1>4. Later
  BY <1>1 DEF Later, TypeOK
<1>5. \A s : Received(s) => Received(s)'
  BY <1>1 DEF Received
<1> QED
  BY <1>1, <1>2, <1>3, <1>4, <1>5, NamesKept

\* The answer being handled is taken only by a request that has its message ID.
LEMMA MatchJustified ==
    ASSUME TypeOK, NameInv, NEW r \in Queued, r # NoReq, Matches(r), handling.by = "answer"
    PROVE  Justified(r.seq)
<1>1. handling.id \in Answered
  BY DEF Answered
<1>2. r.id = handling.id
  <2>1. handling.by # "timeout"
    OBVIOUS
  <2> QED
    BY <2>1 DEF Matches
<1>3. <<r.id, r.seq>> \in Tags
  BY DEF Tags
<1>4. Names(r.id, r.seq)
  BY <1>3 DEF NameInv
<1>5. PICK t : Received(t) /\ Names(r.id, t)
  BY <1>1, <1>2 DEF NameInv
<1>6. CASE t = r.seq
  BY <1>4, <1>5, <1>6 DEF Justified, Names
<1>7. CASE t # r.seq
  <2>1. /\ t \in 1..pushed /\ r.seq \in 1..pushed
        /\ named[r.seq].id = named[t].id
    BY <1>4, <1>5 DEF Names
  <2>2. named[r.seq].boot # named[t].boot
    BY <1>7, <2>1 DEF NameInv, OncePerBoot
  <2> QED
    BY <1>5, <2>1, <2>2 DEF Justified, SameName
<1> QED
  BY <1>6, <1>7

LEMMA DropName ==
    ASSUME TypeOK, TypeOK', QueueInv, NameInv, DropStep
    PROVE  NameInv'
<1>0. UNCHANGED <<file, nextId, inbox, cuts, srv, named, pushed>> /\ pc = "drop" /\ pc' # "off"
  BY DEF DropStep, DropHead, DropTail, EndDrop, flash, ram, ctl, bounds, history
<1>1. Later /\ \A s : Received(s) => Received(s)'
  BY <1>0 DEF Later, Received, TypeOK
<1>2. CASE DropHead
  <2>1. /\ head # NoReq /\ Matches(head) /\ head' = NoReq
        /\ UNCHANGED <<tail, handling>>
        /\ done' = IF handling.by = "answer" THEN done \cup {head.seq} ELSE done
    BY <1>2 DEF DropHead, Finish
  <2>2. Tags' \subseteq Tags
    BY <1>0, <2>1, TagsKept DEF Queued
  <2>3. Answered' = Answered
    BY <1>0, <2>1 DEF Answered
  <2>4. \A s \in done' : s \in done \/ Justified(s)
    BY <2>1, MatchJustified DEF Queued
  <2> QED
    BY <1>0, <1>1, <2>2, <2>3, <2>4, NamesKept
<1>3. ASSUME NEW i \in DOMAIN tail, DropTail(i) PROVE NameInv'
  <2>1. /\ Matches(tail[i]) /\ tail' = RemoveAt(tail, i)
        /\ UNCHANGED <<head, handling>>
        /\ done' = IF handling.by = "answer" THEN done \cup {tail[i].seq} ELSE done
    BY <1>3 DEF DropTail, Finish, ctl
  <2>2. tail \in Seq(Request) /\ Len(tail) \in Nat /\ DOMAIN tail = 1..Len(tail)
    BY DEF TypeOK
  <2>3. \A j \in DOMAIN tail' : tail'[j] \in Queued
    BY <2>1, <2>2 DEF RemoveAt, Queued
  <2>4. Tags' \subseteq Tags
    BY <1>0, <2>1, <2>3, TagsKept DEF Queued
  <2>5. Answered' = Answered
    BY <1>0, <2>1 DEF Answered
  <2>6. tail[i] \in Queued /\ tail[i] # NoReq
    BY DEF Queued, QueueInv, RealRequests, NoReq
  <2>7. \A s \in done' : s \in done \/ Justified(s)
    BY <2>1, <2>6, MatchJustified
  <2> QED
    BY <1>0, <1>1, <2>4, <2>5, <2>7, NamesKept
<1>4. CASE EndDrop
  <2>1. handling' = Idle /\ UNCHANGED <<head, tail, done>>
    BY <1>4 DEF EndDrop, ram, history
  <2>2. Tags' = Tags
    BY <1>0, <2>1 DEF Tags, Queued
  <2>3. Answered' \subseteq Answered
    BY <1>0, <2>1 DEF Answered, Idle
  <2> QED
    BY <1>0, <1>1, <2>1, <2>2, <2>3, NamesKept
<1> QED
  BY <1>2, <1>3, <1>4 DEF DropStep

\* A request loaded from flash has the message ID it was stored with.
LEMMA FetchName ==
    ASSUME TypeOK, TypeOK', NameInv, NEW d \in OpNr, FetchFlash(d) \/ FetchFails(d)
    PROVE  NameInv'
<1>1. /\ IsStored(d) /\ At(d) \in OpNr /\ pc = "fetch" /\ pc' # "off"
      /\ nextId' = BumpId(file[At(d)].id)
      /\ UNCHANGED <<file, tail, handling, inbox, cuts, done, srv, named, pushed>>
  BY FileType DEF FetchFlash, FetchFails, FirstStored, flash, bounds, history
<1>2. <<file[At(d)].id, file[At(d)].seq>> \in Tags
  BY <1>1 DEF Tags, IsStored
<1>3. nextId' >= nextId
  <2>1. file[At(d)] \in OpFile /\ nextId \in Nat
    BY <1>1 DEF TypeOK
  <2>2. file[At(d)].id \in Int
    BY <2>1 DEF OpFile
  <2> QED
    BY <1>1, <2>1, <2>2 DEF BumpId
<1>4. head' = head \/ (head'.id = file[At(d)].id /\ head'.seq = file[At(d)].seq)
  BY DEF FetchFlash, FetchFails
<1>5. Tags' \subseteq Tags
  <2>1. \A q \in Queued' \ {NoReq} : <<q.id, q.seq>> \in Tags
    BY <1>1, <1>2, <1>4 DEF Queued, Tags
  <2>2. \A n \in {m \in OpNr : file'[m] # NoFile} : <<file'[n].id, file'[n].seq>> \in Tags
    BY <1>1 DEF Tags
  <2> QED
    BY <2>1, <2>2 DEF Tags
<1>6. Answered' = Answered
  BY <1>1 DEF Answered
<1>7. Later /\ \A s : Received(s) => Received(s)'
  BY <1>1, <1>3 DEF Later, Received
<1> QED
  BY <1>1, <1>5, <1>6, <1>7, NamesKept

LEMMA PopName ==
    ASSUME TypeOK, TypeOK', NameInv, PopStep
    PROVE  NameInv'
<1>1. CASE EraseFile \/ SaveBegin
  <2>1. /\ pc = "erase" /\ pc' # "off"
        /\ UNCHANGED <<head, tail, nextId, handling, inbox, cuts, done, srv, named, pushed>>
    BY <1>1 DEF EraseFile, SaveBegin, TypeOK, Erase, ram, bounds, history
  <2>2. \A n \in OpNr : file'[n] \in {file[n], NoFile}
    BY <1>1 DEF EraseFile, SaveBegin, TypeOK
  <2>3. Tags' \subseteq Tags
    BY <2>1, <2>2, TagsKept DEF Queued
  <2>4. Answered' = Answered
    BY <2>1 DEF Answered
  <2>5. Later /\ \A s : Received(s) => Received(s)'
    BY <2>1 DEF Later, Received, TypeOK
  <2> QED
    BY <2>1, <2>3, <2>4, <2>5, NamesKept
<1>2. CASE FetchCached \/ SkipToCached
  <2>1. /\ pc # "off" /\ pc' # "off" /\ TakeCached
        /\ UNCHANGED <<file, nextId, handling, inbox, cuts, done, srv, named, pushed>>
    BY <1>2 DEF FetchCached, SkipToCached, flash, bounds, history
  <2>2. Tags' \subseteq Tags
    BY <2>1, TagsKept, TakeCachedQueued
  <2>3. Answered' = Answered
    BY <2>1 DEF Answered
  <2>4. Later /\ \A s : Received(s) => Received(s)'
    BY <2>1 DEF Later, Received, TypeOK
  <2> QED
    BY <2>1, <2>2, <2>3, <2>4, NamesKept
<1> QED
  BY <1>1, <1>2, FetchName DEF PopStep

\* A reset forgets the counter and all answers under way; the next boot starts it anew.
LEMMA ResetName ==
    ASSUME TypeOK, TypeOK', NameInv, PowerCut \/ Panic \/ Restart
    PROVE  NameInv'
<1>1. CASE LoseRam
  <2>1. /\ head' = NoReq /\ tail' = <<>> /\ handling' = Idle /\ inbox' = <<>>
        /\ cuts' = cuts + 1
        /\ UNCHANGED <<file, done, srv, named, pushed>>
    BY <1>1 DEF LoseRam, flash, history
  <2>2. Tags' \subseteq Tags
    BY <2>1, TagsKept DEF Queued
  <2>3. Answered' = {}
    BY <2>1 DEF Answered, Idle
  <2>4. Later /\ \A s : Received(s) => Received(s)'
    BY <2>1 DEF Later, Received
  <2> QED
    BY <2>1, <2>2, <2>3, <2>4, NamesKept
<1>2. ASSUME NEW d, NEW attempts, Boot(d, attempts) PROVE NameInv'
  <2>1. /\ pc = "off"
        /\ UNCHANGED <<file, head, tail, handling, inbox, cuts, done, srv, named, pushed>>
    BY <1>2 DEF Boot, flash, bounds, history
  <2>2. Tags' = Tags /\ Answered' = Answered
    BY <2>1 DEF Tags, Queued, Answered
  <2>3. Later /\ \A s : Received(s) => Received(s)'
    BY <2>1 DEF Later, Received
  <2> QED
    BY <2>1, <2>2, <2>3, NamesKept
<1> QED
  BY <1>1, <1>2 DEF PowerCut, Panic, Restart

-----------------------------------------------------------------------------

\* The invariant is inductive, relative to the types and to the shape of the queue.
LEMMA NextName == TypeOK /\ QueueInv /\ NameInv /\ [Next]_vars => NameInv'
<1> SUFFICES ASSUME TypeOK, QueueInv, NameInv, [Next]_vars PROVE NameInv'
  OBVIOUS
<1>0. TypeOK'
  BY NextType
<1>1. CASE \/ PushVolatile
           \/ \E kind \in TxKind, preBoot \in -1..cuts : PushTx(kind, preBoot)
  BY <1>1, PushName
<1>2. CASE \E error \in BOOLEAN : Send(error)
  BY <1>0, <1>2, SendName
<1>3. CASE \/ Receive
           \/ \E late \in SUBSET Expirable : Expire(late)
           \/ Disconnect
           \/ UNCHANGED vars
  BY <1>0, <1>3, ReceiveName
<1>4. CASE DropStep
  BY <1>0, <1>4, DropName
<1>5. CASE PopStep
  BY <1>0, <1>5, PopName
<1>6. CASE PowerCut \/ Panic \/ Restart
  BY <1>0, <1>6, ResetName
<1> QED
  BY <1>1, <1>2, <1>3, <1>4, <1>5, <1>6 DEF Next

\* A request counts as answered only if it had reached the server, or if another one had that an
\* earlier or a later boot gave the same message ID, whatever the boots' numbers of attempts: no
\* late answer to a request that timed out, no answer from before a reset and no restored request
\* mixes up the answers in any other way.  Before the first reset no answer is mixed up at all.
THEOREM AnsweredItself == Spec => [](AnsweredById /\ (cuts = 0 => OwnAnswer))
<1>1. Init => TypeOK /\ QueueInv /\ NameInv
  BY InitType, InitQueueInv, InitName
<1>2. TypeOK /\ QueueInv /\ NameInv /\ [Next]_vars => (TypeOK /\ QueueInv /\ NameInv)'
  BY NextType, NextQueueInv, NextName
<1>3. TypeOK /\ NameInv => AnsweredById /\ (cuts = 0 => OwnAnswer)
  <2> SUFFICES ASSUME TypeOK, NameInv PROVE AnsweredById /\ (cuts = 0 => OwnAnswer)
    OBVIOUS
  <2>1. DOMAIN named = 1..pushed /\ \A s \in 1..pushed : named[s] \in Name
    BY DEF TypeOK, NameInv
  <2>2. \A s \in 1..pushed : named[s].boot \in Nat /\ named[s].boot <= cuts
    BY <2>1 DEF Name, NameInv, OncePerBoot
  <2>3. cuts = 0 => \A s, t \in 1..pushed : ~SameName(s, t)
    BY <2>2 DEF SameName
  <2> QED
    BY <2>1, <2>3 DEF AnsweredById, OwnAnswer, NameInv, Justified
<1> QED
  BY <1>1, <1>2, <1>3, PTL DEF Spec

-----------------------------------------------------------------------------
(* The order of the requests *)

\* Every op file can be written, advanceOpNr keeps a history of op files (MO_OPHISTORY_SIZE is
\* positive), and the connectors report their status before anything else after a boot.
Orderly ==
    /\ MaxWriteFails = 0
    /\ HistorySize > 0
    /\ StatusFirst

-----------------------------------------------------------------------------
(* The inductive invariant *)

\* The first k op files from opBegin on are the stored requests in push order, those that are
\* owed among them; behind them the ring is empty, up to the history.
Gapless(k) ==
    /\ \A d \in 0..(k - 1) :
          IsStored(d) /\ file[At(d)].seq \in stored /\ file[At(d)].kind \in TxKind
    /\ \A d \in k..(MaxOpNr - HistorySize - 1) : ~IsStored(d)
    /\ \A d, e \in 0..(k - 1) : d < e => file[At(d)].seq < file[At(e)].seq
    /\ \A s \in Owed : \E d \in 0..(k - 1) : file[At(d)].seq = s

\* While the device is off nobody knows how many they are; else opEnd tells.
Ring ==
    IF pc = "off" THEN \E k \in 0..MaxPending : Gapless(k)
                  ELSE InUse <= MaxPending /\ Gapless(InUse)

\* A request in RAM has the op file its op number names, or none at all.
InFlash(r) ==
    /\ Distance(opBegin, r.opNr) < InUse
    /\ file[r.opNr].seq = r.seq
    /\ r.kind \in TxKind

Cached(r) == IF r.opNr = -1 THEN r.seq \in 1..pushed \ stored ELSE InFlash(r)

\* A head with an op file is the oldest request in flash.
HeadOldest ==
    head # NoReq =>
        /\ Cached(head)
        /\ head.opNr >= 0 => head.opNr = opBegin
        /\ pc \in {"idle", "drop"}
        /\ ~first

\* The head is empty only in an empty queue, before the first push of a boot and in pop_front.
HeadEmpty ==
    /\ head = NoReq /\ pc \in {"idle", "drop"} => tail = <<>> /\ (first \/ InUse = 0)
    /\ pc = "cached" => InUse = 0
    /\ pc = "off" => head = NoReq /\ tail = <<>> /\ first
    /\ first => pc \in {"off", "idle", "drop"} /\ head = NoReq

Entries == {tail[i] : i \in DOMAIN tail}

\* The cache holds its stored requests in the order of their op files ...
Ordered(b, s) ==
    \A i, j \in DOMAIN s :
        i < j /\ s[i].opNr >= 0 /\ s[j].opNr >= 0
            => Distance(b, s[i].opNr) < Distance(b, s[j].opNr)

\* ... and not the one that is the head or is being popped.
TailOrder ==
    /\ \A r \in Entries : Cached(r)
    /\ Ordered(opBegin, tail)
    /\ head.opNr >= 0 \/ pc = "erase" => ~CacheHit

\* advanceOpNr goes one step, and only over a request that is not owed any more.
Erasing ==
    pc = "erase" =>
        /\ erase.upTo = opBegin
        /\ InUse > 0
        /\ file[opBegin].seq \notin Owed
        /\ erase.n <= 1
        /\ erase.n = 1 => ~IsStored(MaxOpNr - HistorySize)
        /\ erase.then = "cached" => InUse = 1

\* Only requests without an op file time out, and only pushed ones were stored.
Volatile ==
    /\ handling.late \subseteq 1..pushed \ stored
    /\ stored \subseteq 1..pushed

OrderInv == Ring /\ HeadOldest /\ HeadEmpty /\ TailOrder /\ Erasing /\ Volatile

-----------------------------------------------------------------------------
(* The ring *)

\* The constants as integers, with the room that is left in the ring.
LEMMA Sizes ==
    /\ MaxOpNr \in Nat \ {0} /\ MaxMisses \in Nat \ {0} /\ SyncWindow \in Nat \ {0}
    /\ CacheSize \in Nat \ {0}
    /\ HistorySize \in Nat /\ MaxPending \in Nat
    /\ MaxPending + MaxMisses + HistorySize <= MaxOpNr
BY QueueAssumption

\* The remainders the ring arithmetic takes are those of sums below twice its size.
LEMMA Remainder ==
    \A n \in Nat : n < 2 * MaxOpNr => n % MaxOpNr = IF n < MaxOpNr THEN n ELSE n - MaxOpNr
<1> SUFFICES ASSUME NEW n \in Nat, n < 2 * MaxOpNr
             PROVE  n % MaxOpNr = IF n < MaxOpNr THEN n ELSE n - MaxOpNr
  OBVIOUS
<1>1. MaxOpNr \in Nat \ {0}
  BY Sizes
<1>2. CASE n < MaxOpNr
  BY <1>1, <1>2, SMT
<1>3. CASE n >= MaxOpNr
  BY <1>1, <1>3, SMT
<1> QED
  BY <1>1, <1>2, <1>3

\* At and Distance without remainders.
LEMMA AtIs ==
    ASSUME opBegin \in OpNr, NEW d \in OpNr
    PROVE  At(d) = IF opBegin + d < MaxOpNr THEN opBegin + d ELSE (opBegin + d) - MaxOpNr
<1>1. opBegin + d \in Nat /\ opBegin + d < 2 * MaxOpNr
  BY Sizes DEF OpNr
<1>2. (opBegin + d) % MaxOpNr
        = IF opBegin + d < MaxOpNr THEN opBegin + d ELSE (opBegin + d) - MaxOpNr
  BY <1>1, Remainder
<1> QED
  BY <1>2 DEF At

LEMMA DistanceIs ==
    ASSUME NEW a \in OpNr, NEW b \in OpNr
    PROVE  Distance(a, b) = IF b < a THEN b - a + MaxOpNr ELSE b - a
<1>1. b + MaxOpNr - a \in Nat /\ b + MaxOpNr - a < 2 * MaxOpNr
  BY Sizes DEF OpNr
<1>2. MaxOpNr \in Nat /\ a \in Int /\ b \in Int
  BY Sizes DEF OpNr
<1>3. (b + MaxOpNr - a) - MaxOpNr = b - a
  BY <1>2
<1> QED
  BY <1>1, <1>2, <1>3, Remainder DEF Distance

\* Counting from opBegin, op numbers and distances are the same thing.
LEMMA RoundTrip ==
    ASSUME opBegin \in OpNr
    PROVE  /\ \A d \in OpNr : At(d) \in OpNr /\ Distance(opBegin, At(d)) = d
           /\ \A n \in OpNr : Distance(opBegin, n) \in OpNr /\ At(Distance(opBegin, n)) = n
           /\ At(0) = opBegin /\ Distance(opBegin, opBegin) = 0
           /\ \A n \in OpNr : Distance(opBegin, n) = 0 => n = opBegin
<1>1. ASSUME NEW d \in OpNr
      PROVE  At(d) \in OpNr /\ Distance(opBegin, At(d)) = d
  <2>1. At(d) = IF opBegin + d < MaxOpNr THEN opBegin + d ELSE (opBegin + d) - MaxOpNr
    BY AtIs
  <2>2. At(d) \in OpNr
    BY <2>1, Sizes DEF OpNr
  <2>3. Distance(opBegin, At(d))
          = IF At(d) < opBegin THEN At(d) - opBegin + MaxOpNr ELSE At(d) - opBegin
    BY <2>2, DistanceIs
  <2> QED
    BY <2>1, <2>2, <2>3, Sizes DEF OpNr
<1>2. ASSUME NEW n \in OpNr
      PROVE  /\ Distance(opBegin, n) \in OpNr /\ At(Distance(opBegin, n)) = n
             /\ Distance(opBegin, n) = 0 => n = opBegin
  <2>1. Distance(opBegin, n) \in OpNr
    BY DistanceIs, Sizes DEF OpNr
  <2>2. At(Distance(opBegin, n)) = n
    <3>1. Distance(opBegin, n) = IF n < opBegin THEN n - opBegin + MaxOpNr ELSE n - opBegin
      BY DistanceIs
    <3>2. \A d \in OpNr : At(d) = IF opBegin + d < MaxOpNr THEN opBegin + d ELSE (opBegin + d) - MaxOpNr
      BY AtIs
    <3> QED
      BY <2>1, <3>1, <3>2, Sizes DEF OpNr
  <2>3. Distance(opBegin, n) = 0 => n = opBegin
    BY DistanceIs, Sizes DEF OpNr
  <2> QED
    BY <2>1, <2>2, <2>3
<1>3. At(0) = opBegin /\ Distance(opBegin, opBegin) = 0
  <2>1. 0 \in OpNr /\ opBegin \in 0..(MaxOpNr - 1)
    BY Sizes DEF OpNr
  <2>2. Distance(opBegin, opBegin) = 0
    BY <2>1, DistanceIs
  <2> QED
    BY <1>2, <2>2
<1> QED
  BY <1>1, <1>2, <1>3

\* When the successor of an op number takes the place of opBegin or opEnd, distances change by
\* one.
LEMMA NextDistance ==
    ASSUME NEW a \in OpNr, NEW b \in OpNr
    PROVE  /\ Distance(a, b) < MaxOpNr - 1 => Distance(a, NextOpNr(b)) = Distance(a, b) + 1
           /\ Distance(a, b) > 0 => Distance(NextOpNr(a), b) = Distance(a, b) - 1
<1>1. ASSUME NEW n \in OpNr
      PROVE  NextOpNr(n) \in OpNr /\ NextOpNr(n) = IF n = MaxOpNr - 1 THEN 0 ELSE n + 1
  <2>1. n + 1 \in Nat /\ n + 1 < 2 * MaxOpNr
    BY Sizes DEF OpNr
  <2> QED
    BY <2>1, Remainder, NextOpNrType, Sizes DEF NextOpNr, OpNr
<1>2. Distance(a, b) = IF b < a THEN b - a + MaxOpNr ELSE b - a
  BY DistanceIs
<1>3. Distance(a, NextOpNr(b))
        = IF NextOpNr(b) < a THEN NextOpNr(b) - a + MaxOpNr ELSE NextOpNr(b) - a
  BY <1>1, DistanceIs
<1>4. Distance(NextOpNr(a), b)
        = IF b < NextOpNr(a) THEN b - NextOpNr(a) + MaxOpNr ELSE b - NextOpNr(a)
  BY <1>1, DistanceIs
<1>5. Distance(a, b) < MaxOpNr - 1 => Distance(a, NextOpNr(b)) = Distance(a, b) + 1
  BY <1>1, <1>2, <1>3, Sizes DEF OpNr
<1>6. Distance(a, b) > 0 => Distance(NextOpNr(a), b) = Distance(a, b) - 1
  BY <1>1, <1>2, <1>4, Sizes DEF OpNr
<1> QED
  BY <1>5, <1>6

\* When opBegin advances by one, every slot comes one place nearer.
LEMMA NextAt ==
    ASSUME opBegin \in OpNr, opBegin' = NextOpNr(opBegin), NEW d \in OpNr, d < MaxOpNr - 1
    PROVE  At(d)' = At(d + 1)
<1>1. d + 1 \in OpNr /\ At(d + 1) \in OpNr /\ Distance(opBegin, At(d + 1)) = d + 1
  BY RoundTrip, Sizes DEF OpNr
<1>2. NextOpNr(opBegin) \in OpNr /\ Distance(NextOpNr(opBegin), At(d + 1)) = d
  BY <1>1, NextDistance, NextOpNrType, Sizes DEF OpNr
<1>3. \A b \in OpNr : (b + Distance(b, At(d + 1))) % MaxOpNr = At(d + 1)
  <2> SUFFICES ASSUME NEW b \in OpNr
               PROVE  (b + Distance(b, At(d + 1))) % MaxOpNr = At(d + 1)
    OBVIOUS
  <2>1. Distance(b, At(d + 1))
          = IF At(d + 1) < b THEN At(d + 1) - b + MaxOpNr ELSE At(d + 1) - b
    BY <1>1, DistanceIs
  <2>2. CASE At(d + 1) < b
    <3>1. b + Distance(b, At(d + 1)) = At(d + 1) + MaxOpNr
      BY <1>1, <2>1, <2>2, Sizes DEF OpNr
    <3> QED
      BY <1>1, <3>1, Remainder, Sizes DEF OpNr
  <2>3. CASE ~(At(d + 1) < b)
    <3>1. b + Distance(b, At(d + 1)) = At(d + 1)
      BY <1>1, <2>1, <2>3, Sizes DEF OpNr
    <3> QED
      BY <1>1, <3>1, Remainder, Sizes DEF OpNr
  <2> QED
    BY <2>2, <2>3
<1>4. (NextOpNr(opBegin) + d) % MaxOpNr = At(d + 1)
  BY <1>2, <1>3
<1> QED
  BY <1>4 DEF At

-----------------------------------------------------------------------------
(* What the invariant says *)

\* The requests in RAM, with their op numbers.
LEMMA RamTypes ==
    ASSUME TypeOK
    PROVE  /\ head.opNr \in OpNr \cup {-1}
           /\ Len(tail) \in Nat /\ DOMAIN tail = 1..Len(tail)
           /\ \A i \in DOMAIN tail : tail[i] \in Request /\ tail[i].opNr \in OpNr \cup {-1}
           /\ Entries \subseteq Request
           /\ InUse \in OpNr /\ At(InUse) = opEnd
<1>1. head \in Request /\ tail \in Seq(Request)
  BY DEF TypeOK
<1>2. \A i \in DOMAIN tail : tail[i] \in Request
  BY <1>1
<1>3. InUse \in OpNr /\ At(InUse) = opEnd
  BY RoundTrip DEF TypeOK, InUse
<1>4. Entries \subseteq Request
  BY <1>2 DEF Entries
<1> QED
  BY <1>1, <1>2, <1>3, <1>4 DEF Request

\* A request that is in its place in RAM is a real one.
LEMMA CachedReal ==
    ASSUME TypeOK, OrderInv, pc # "off", NEW r \in Request, Cached(r)
    PROVE  /\ r.seq \in 1..pushed /\ r # NoReq
           /\ r.opNr >= 0 => r.seq \in stored
<1>1. pushed \in Nat /\ r.opNr \in OpNr \cup {-1}
  BY DEF TypeOK, Request
<1>2. CASE r.opNr = -1
  BY <1>1, <1>2 DEF Cached, NoReq
<1>3. CASE r.opNr \in OpNr
  <2>1. InFlash(r)
    BY <1>3 DEF Cached, OpNr
  <2> DEFINE d == Distance(opBegin, r.opNr)
  <2>2. d \in OpNr /\ At(d) = r.opNr /\ InUse \in OpNr /\ d < InUse
    BY <1>3, <2>1, RoundTrip, RamTypes DEF TypeOK, InFlash
  <2>3. d \in 0..(InUse - 1)
    BY <2>2, Sizes DEF OpNr
  <2>4. file[r.opNr].seq \in stored
    BY <2>2, <2>3 DEF OrderInv, Ring, Gapless
  <2>5. r.seq \in stored
    BY <2>1, <2>4 DEF InFlash
  <2>6. r.seq \in 1..pushed
    BY <2>5 DEF OrderInv, Volatile
  <2>7. r # NoReq
    BY <1>1, <2>6 DEF NoReq
  <2> QED
    BY <2>5, <2>6, <2>7
<1> QED
  BY <1>1, <1>2, <1>3

\* With requests in flash, the oldest of them is at opBegin.
LEMMA OldestStored ==
    ASSUME TypeOK, OrderInv, pc # "off", InUse > 0
    PROVE  /\ IsStored(0) /\ At(0) = opBegin
           /\ file[opBegin].seq \in stored /\ file[opBegin].kind \in TxKind
<1>1. 0 \in 0..(InUse - 1)
  <2>1. InUse \in Nat
    BY RamTypes, RingType
  <2> QED
    BY <2>1
<1> QED
  BY <1>1, RoundTrip DEF OrderInv, Ring, Gapless, TypeOK

\* The scan at boot sees every op file in use ...
LEMMA ScanSees ==
    ASSUME NEW k \in 0..MaxPending, Gapless(k), NEW d \in 0..(k - 1)
    PROVE  d \in OpNr /\ Scanned(d)
<1>1. d \in OpNr /\ IsStored(d)
  BY Sizes DEF Gapless, OpNr
<1>2. ASSUME NEW e \in 0..(d - MaxMisses)
      PROVE  \E j \in e..(e + MaxMisses - 1) : IsStored(j)
  <2>1. e \in e..(e + MaxMisses - 1) /\ e \in 0..(k - 1)
    BY Sizes
  <2> QED
    BY <2>1 DEF Gapless
<1> QED
  BY <1>1, <1>2 DEF Scanned

\* ... and ends behind the last of them.
LEMMA ScanFinds ==
    ASSUME NEW k \in 0..MaxPending, Gapless(k), NEW d \in 0..MaxOpNr, ScanEnds(d)
    PROVE  d = k
<1>1. k \in Nat /\ d \in Nat
  OBVIOUS
<1>2. ~(d < k)
  <2> SUFFICES ASSUME d < k PROVE FALSE
    OBVIOUS
  <2>1. k - 1 \in 0..(k - 1) /\ k - 1 \in d..(MaxOpNr - 1)
    BY Sizes
  <2>2. Scanned(k - 1)
    BY <2>1, ScanSees
  <2> QED
    BY <2>1, <2>2 DEF ScanEnds
<1>3. ~(d > k)
  <2> SUFFICES ASSUME d > k PROVE FALSE
    OBVIOUS
  <2>1. Scanned(d - 1)
    BY DEF ScanEnds
  <2>2. d - 1 >= MaxOpNr - HistorySize
    <3>1. IsStored(d - 1)
      BY <2>1 DEF Scanned
    <3>2. d - 1 \notin k..(MaxOpNr - HistorySize - 1)
      BY <3>1 DEF Gapless
    <3> QED
      BY <3>2, Sizes
  <2>3. k \in 0..((d - 1) - MaxMisses)
    BY <2>2, Sizes
  <2>4. PICK j \in k..(k + MaxMisses - 1) : IsStored(j)
    BY <2>1, <2>3 DEF Scanned
  <2>5. j \in k..(MaxOpNr - HistorySize - 1)
    BY <2>2, <2>3, Sizes
  <2> QED
    BY <2>4, <2>5 DEF Gapless
<1> QED
  BY <1>1, <1>2, <1>3

\* What a boot would find is what is owed.
LEMMA RingReach ==
    ASSUME NEW k \in 0..MaxPending, Gapless(k)
    PROVE  NoLoss
<1> SUFFICES ASSUME NEW s \in Owed
             PROVE  \E d \in OpNr : Scanned(d) /\ file[At(d)].seq = s
  BY DEF NoLoss
<1>1. PICK d \in 0..(k - 1) : file[At(d)].seq = s
  BY DEF Gapless
<1> QED
  BY <1>1, ScanSees

-----------------------------------------------------------------------------
(* The cache *)

\* Appending the youngest request keeps the order ...
LEMMA OrderedAppend ==
    ASSUME NEW b, NEW s \in Seq(Request), Ordered(b, s), NEW r \in Request,
           \A i \in DOMAIN s :
              s[i].opNr >= 0 /\ r.opNr >= 0 => Distance(b, s[i].opNr) < Distance(b, r.opNr)
    PROVE  Ordered(b, Append(s, r))
<1>1. /\ Append(s, r) \in Seq(Request) /\ Len(Append(s, r)) = Len(s) + 1 /\ Len(s) \in Nat
      /\ \A i \in 1..Len(s) : Append(s, r)[i] = s[i]
      /\ Append(s, r)[Len(s) + 1] = r
  OBVIOUS
<1>2. \A i, j \in 1..(Len(s) + 1) : i < j => i \in 1..Len(s) /\ (j \in 1..Len(s) \/ j = Len(s) + 1)
  BY <1>1
<1>3. DOMAIN s = 1..Len(s) /\ DOMAIN Append(s, r) = 1..(Len(s) + 1)
  BY <1>1
<1> HIDE DEF Request
<1> QED
  BY <1>1, <1>2, <1>3 DEF Ordered

\* ... and so does removing any.
LEMMA OrderedRemove ==
    ASSUME NEW b, NEW s \in Seq(Request), Ordered(b, s)
    PROVE  /\ \A i \in DOMAIN s : Ordered(b, RemoveAt(s, i))
           /\ s # <<>> => Ordered(b, Tail(s))
<1>1. Len(s) \in Nat /\ DOMAIN s = 1..Len(s)
  OBVIOUS
<1>2. ASSUME NEW i \in DOMAIN s
      PROVE  Ordered(b, RemoveAt(s, i))
  <2> DEFINE old(j) == IF j < i THEN j ELSE j + 1
  <2>1. DOMAIN RemoveAt(s, i) = 1..(Len(s) - 1)
    BY DEF RemoveAt
  <2>2. \A j \in 1..(Len(s) - 1) : old(j) \in DOMAIN s /\ RemoveAt(s, i)[j] = s[old(j)]
    BY <1>1 DEF RemoveAt
  <2>3. \A j, k \in 1..(Len(s) - 1) : j < k => old(j) < old(k)
    BY <1>1
  <2> HIDE DEF old
  <2> QED
    BY <2>1, <2>2, <2>3 DEF Ordered
<1>3. ASSUME s # <<>>
      PROVE  Ordered(b, Tail(s))
  <2>1. DOMAIN Tail(s) = 1..(Len(s) - 1)
    BY <1>3
  <2>2. \A j \in 1..(Len(s) - 1) : j + 1 \in DOMAIN s /\ Tail(s)[j] = s[j + 1]
    BY <1>1, <1>3
  <2>3. \A j, k \in 1..(Len(s) - 1) : j < k => j + 1 < k + 1
    BY <1>1
  <2> QED
    BY <2>1, <2>2, <2>3 DEF Ordered
<1> QED
  BY <1>2, <1>3

\* What a push does to head and cache, the eviction of the oldest cached request included.
LEMMA EnqueueEntries ==
    ASSUME TypeOK, NEW r \in Request, Enqueue(r)
    PROVE  /\ head = NoReq => head' = r /\ tail' = tail
           /\ head # NoReq => head' = head
           /\ head # NoReq => \E kept \in {tail, Tail(tail)} :
                                 /\ tail' = Append(kept, r)
                                 /\ kept \in Seq(Request)
                                 /\ kept = tail \/ tail # <<>>
                                 /\ \A i \in DOMAIN kept : kept[i] \in Entries
           /\ Entries' \subseteq Entries \cup {r}
<1>1. CASE head = NoReq
  BY <1>1 DEF Enqueue, Entries
<1>2. CASE head # NoReq
  <2> DEFINE kept == IF Len(tail) >= CacheSize THEN Tail(tail) ELSE tail
  <2>1. tail' = Append(kept, r) /\ head' = head
    BY <1>2 DEF Enqueue
  <2>2. /\ kept \in {tail, Tail(tail)} /\ kept \in Seq(Request) /\ (kept = tail \/ tail # <<>>)
        /\ \A i \in DOMAIN kept : kept[i] \in Entries
    <3>1. CASE Len(tail) >= CacheSize
      <4>1. tail # <<>> /\ tail \in Seq(Request)
        BY <3>1, Sizes DEF TypeOK
      <4>2. Tail(tail) \in Seq(Request)
        BY <4>1
      <4>3. \A i \in DOMAIN Tail(tail) : Tail(tail)[i] \in Entries
        BY <4>1 DEF Entries
      <4> QED
        BY <3>1, <4>1, <4>2, <4>3
    <3>2. CASE ~(Len(tail) >= CacheSize)
      BY <3>2 DEF TypeOK, Entries
    <3> QED
      BY <3>1, <3>2
  <2> HIDE DEF kept
  <2>3. \A i \in DOMAIN Append(kept, r) : Append(kept, r)[i] \in Entries \cup {r}
    BY <2>2
  <2>4. Entries' \subseteq Entries \cup {r}
    BY <2>1, <2>3 DEF Entries
  <2> QED
    BY <1>2, <2>1, <2>2, <2>4
<1> QED
  BY <1>1, <1>2

LEMMA EnqueueOrder ==
    ASSUME TypeOK, Ordered(opBegin, tail), NEW r \in Request, Enqueue(r),
           \A q \in Entries :
              q.opNr >= 0 /\ r.opNr >= 0 => Distance(opBegin, q.opNr) < Distance(opBegin, r.opNr)
    PROVE  Ordered(opBegin, tail')
<1>1. CASE head = NoReq
  BY <1>1, EnqueueEntries
<1>2. CASE head # NoReq
  <2>1. PICK kept \in {tail, Tail(tail)} :
               /\ tail' = Append(kept, r)
               /\ kept \in Seq(Request)
               /\ kept = tail \/ tail # <<>>
               /\ \A i \in DOMAIN kept : kept[i] \in Entries
    BY <1>2, EnqueueEntries
  <2>2. Ordered(opBegin, kept)
    BY <2>1, OrderedRemove DEF TypeOK
  <2> QED
    BY <2>1, <2>2, OrderedAppend
<1> QED
  BY <1>1, <1>2

\* What a pop does to them.
LEMMA TakeCachedOrder ==
    ASSUME TypeOK, TakeCached, Ordered(opBegin, tail)
    PROVE  /\ tail = <<>> => head' = NoReq /\ tail' = <<>>
           /\ tail # <<>> => head' \in Entries /\ head' = tail[1]
           /\ Entries' \subseteq Entries
           /\ Ordered(opBegin, tail')
           /\ \A i \in DOMAIN tail' : i + 1 \in DOMAIN tail /\ tail'[i] = tail[i + 1]
<1>1. tail \in Seq(Request)
  BY DEF TypeOK
<1>2. CASE tail = <<>>
  BY <1>1, <1>2 DEF TakeCached, Entries
<1>3. CASE tail # <<>>
  <2>1. head' = tail[1] /\ tail' = Tail(tail) /\ 1 \in DOMAIN tail
    BY <1>1, <1>3 DEF TakeCached
  <2>2. \A i \in DOMAIN Tail(tail) : i + 1 \in DOMAIN tail /\ Tail(tail)[i] = tail[i + 1]
    BY <1>1, <1>3
  <2>3. Ordered(opBegin, Tail(tail))
    BY <1>1, <1>3, OrderedRemove
  <2> QED
    BY <1>3, <2>1, <2>2, <2>3 DEF Entries
<1> QED
  BY <1>2, <1>3

-----------------------------------------------------------------------------
(* Steps that leave the ring alone *)

\* While the flash stays as it is, fewer requests may be owed, but none moves.
LEMMA GaplessKept ==
    ASSUME UNCHANGED <<flash, stored>>, Owed' \subseteq Owed, NEW k, Gapless(k)
    PROVE  Gapless(k)'
BY DEF Gapless, IsStored, At, flash

LEMMA RingKept ==
    ASSUME Ring, UNCHANGED <<flash, opEnd, stored>>, Owed' \subseteq Owed,
           pc # "off", pc' # "off"
    PROVE  Ring' /\ InUse' = InUse
<1>1. InUse' = InUse
  BY DEF InUse, flash
<1>2. InUse <= MaxPending /\ Gapless(InUse)
  BY DEF Ring
<1>3. Gapless(InUse)'
  <2>1. ASSUME NEW k, k = InUse
        PROVE  Gapless(k)'
    BY <1>2, <2>1, GaplessKept
  <2> QED
    BY <1>1, <2>1 DEF Gapless
<1> QED
  BY <1>1, <1>2, <1>3 DEF Ring

\* Requests that are answered or given up are not owed any more.
LEMMA OwedShrinks ==
    ASSUME stored' = stored, done \subseteq done', dropped \subseteq dropped'
    PROVE  Owed' \subseteq Owed
BY DEF Owed

\* The place of a request depends on nothing else.
LEMMA CachedKept ==
    ASSUME UNCHANGED <<flash, opEnd, stored, pushed>>
    PROVE  \A r : Cached(r)' = Cached(r)
BY DEF Cached, InFlash, InUse, flash

-----------------------------------------------------------------------------
(* push_back *)

\* At the beginning the ring is empty.
LEMMA InitOrder == Init => OrderInv
<1> SUFFICES ASSUME Init PROVE OrderInv
  OBVIOUS
<1>1. TypeOK
  BY InitType
<1>2. InUse = 0 /\ pc = "idle"
  BY <1>1, RoundTrip DEF Init, InUse, TypeOK
<1>3. \A d \in OpNr : ~IsStored(d)
  BY <1>1, RoundTrip DEF Init, IsStored, TypeOK
<1>4. Ring
  <2>1. Owed = {}
    BY DEF Init, Owed
  <2>2. \A d \in 0..(MaxOpNr - HistorySize - 1) : ~IsStored(d)
    BY <1>3, Sizes DEF OpNr
  <2>3. Gapless(0)
    BY <2>1, <2>2 DEF Gapless
  <2> QED
    BY <1>2, <2>3, Sizes DEF Ring
<1>5. HeadOldest /\ HeadEmpty
  BY <1>2 DEF Init, HeadOldest, HeadEmpty
<1>6. TailOrder
  BY <1>2 DEF Init, TailOrder, Entries, Ordered, NoReq
<1>7. Erasing /\ Volatile
  BY <1>2 DEF Init, Erasing, Volatile, Idle
<1> QED
  BY <1>4, <1>5, <1>6, <1>7 DEF OrderInv

\* The queue after a push: the new request r is in its place behind all others.
LEMMA PushOrder ==
    ASSUME TypeOK, OrderInv, pc = "idle", pc' = "idle", ~first', handling' = handling,
           opBegin' = opBegin, NEW r \in Request, r.seq # 0, Enqueue(r),
           \A q \in Request : Cached(q) => Cached(q)',
           Cached(r)',
           r.opNr >= 0 => ~first /\ Distance(opBegin, r.opNr) = InUse
    PROVE  HeadOldest' /\ HeadEmpty' /\ TailOrder' /\ Erasing'
<1>1. \A q \in Entries : q \in Request /\ Cached(q) /\ (q.opNr >= 0 => q.opNr \in OpNr)
  BY RamTypes DEF OrderInv, TailOrder, Request
<1>2. head = NoReq => tail = <<>> /\ Entries = {}
  BY DEF OrderInv, HeadEmpty, Entries
<1>3. InUse \in Nat /\ r.opNr \in OpNr \cup {-1} /\ OpNr \subseteq Nat
  BY RamTypes, RingType DEF Request
<1>4. \A q \in Entries : q.opNr >= 0 => /\ Distance(opBegin, q.opNr) \in Nat
                                        /\ Distance(opBegin, q.opNr) < InUse
  <2>1. \A q \in Entries : q.opNr >= 0 => InFlash(q)
    BY <1>1 DEF Cached
  <2>2. \A q \in Entries : q.opNr >= 0 => Distance(opBegin, q.opNr) \in OpNr
    BY <1>1, RoundTrip DEF TypeOK
  <2> QED
    BY <1>3, <2>1, <2>2 DEF InFlash
<1>5. Ordered(opBegin, tail)
  BY DEF OrderInv, TailOrder
<1>6. /\ head = NoReq => head' = r /\ tail' = tail
      /\ head # NoReq => head' = head
      /\ Entries' \subseteq Entries \cup {r}
      /\ Ordered(opBegin, tail')
  <2>1. \A q \in Entries :
          q.opNr >= 0 /\ r.opNr >= 0 => Distance(opBegin, q.opNr) < Distance(opBegin, r.opNr)
    <3> SUFFICES ASSUME NEW q \in Entries, q.opNr >= 0, r.opNr >= 0
                 PROVE  Distance(opBegin, q.opNr) < Distance(opBegin, r.opNr)
      OBVIOUS
    <3>1. Distance(opBegin, r.opNr) = InUse
      OBVIOUS
    <3> QED
      BY <1>4, <3>1
  <2> QED
    BY <1>5, <2>1, EnqueueEntries, EnqueueOrder
<1>7. head # NoReq => head \in Request /\ Cached(head) /\ (head.opNr >= 0 => head.opNr = opBegin)
  BY DEF OrderInv, HeadOldest, TypeOK
<1>8. head' # NoReq
  BY <1>6, RealHead
<1>9. HeadOldest'
  <2>1. CASE head = NoReq
    <3>1. r.opNr >= 0 => r.opNr = opBegin
      <4> SUFFICES ASSUME r.opNr >= 0 PROVE r.opNr = opBegin
        OBVIOUS
      <4>1. InUse = 0
        BY <2>1 DEF OrderInv, HeadEmpty
      <4>2. Distance(opBegin, r.opNr) = 0 /\ r.opNr \in OpNr
        BY <1>3, <4>1
      <4> QED
        BY <4>2, RoundTrip DEF TypeOK
    <3>2. head' = r
      BY <1>6, <2>1
    <3> QED
      BY <3>1, <3>2 DEF HeadOldest, Cached, InFlash, InUse
  <2>2. CASE head # NoReq
    <3>1. head' = head /\ Cached(head)'
      BY <1>6, <1>7, <2>2
    <3> QED
      BY <1>7, <2>2, <3>1 DEF HeadOldest
  <2> QED
    BY <2>1, <2>2
<1>10. \A q \in Entries' : Cached(q)'
  BY <1>1, <1>6
<1>11. head'.opNr >= 0 => ~CacheHit'
  <2> SUFFICES ASSUME head'.opNr >= 0 PROVE ~CacheHit'
    OBVIOUS
  <2>1. CASE head = NoReq
    BY <1>2, <1>6, <2>1 DEF CacheHit
  <2>2. CASE head # NoReq
    <3>1. \A q \in Entries : q.opNr # opBegin
      BY <1>6, <2>2 DEF OrderInv, TailOrder, CacheHit, Entries
    <3>2. r.opNr # opBegin
      <4>1. opBegin \in Nat /\ opBegin # -1 /\ Distance(opBegin, opBegin) = 0
        BY RoundTrip, RingType DEF TypeOK
      <4>2. InUse > 0
        BY <1>6, <1>7, <2>2, <4>1, RamTypes DEF Cached, InFlash
      <4>3. CASE r.opNr >= 0
        BY <4>1, <4>2, <4>3
      <4>4. CASE ~(r.opNr >= 0)
        BY <4>1, <4>4
      <4> QED
        BY <4>3, <4>4
    <3>3. \A q \in Entries' : q.opNr # opBegin'
      BY <1>6, <3>1, <3>2
    <3> QED
      BY <3>3 DEF CacheHit, Entries
  <2> QED
    BY <2>1, <2>2
<1>12. HeadEmpty'
  BY <1>8 DEF HeadEmpty
<1>13. TailOrder'
  BY <1>6, <1>10, <1>11 DEF TailOrder
<1>14. Erasing'
  BY DEF Erasing
<1> QED
  BY <1>9, <1>12, <1>13, <1>14

LEMMA PushVolatileOrder ==
    ASSUME TypeOK, OrderInv, PushVolatile
    PROVE  OrderInv'
<1> DEFINE new == [seq |-> pushed + 1, kind |-> "other", opNr |-> -1, id |-> nextId]
<1>0. new \in Request
  BY DEF TypeOK, Request, Kind
<1> PICK r \in Request : r = new
  BY <1>0, Zenon
<1>1. r.seq = pushed + 1 /\ r.seq # 0 /\ r.opNr = -1
  BY DEF TypeOK
<1>2. /\ pc = "idle" /\ pc' = "idle" /\ ~first' /\ handling' = handling
      /\ UNCHANGED <<flash, opEnd, stored, done, dropped>> /\ pushed' = pushed + 1
      /\ Enqueue(r)
  BY DEF PushVolatile, ctl, history
<1>3. opBegin' = opBegin /\ Owed' \subseteq Owed /\ pushed \in Nat
  BY <1>2, OwedShrinks DEF flash, TypeOK
<1>4. stored \subseteq 1..pushed /\ handling.late \subseteq 1..pushed \ stored
  BY DEF OrderInv, Volatile
<1>5. Ring'
  BY <1>2, <1>3, RingKept DEF OrderInv
<1>6. \A q \in Request : Cached(q) => Cached(q)'
  BY <1>2, <1>3 DEF Cached, InFlash, InUse, flash
<1>7. Cached(r)'
  BY <1>1, <1>2, <1>3, <1>4 DEF Cached
<1>8. HeadOldest' /\ HeadEmpty' /\ TailOrder' /\ Erasing'
  BY <1>1, <1>2, <1>3, <1>6, <1>7, PushOrder
<1>9. Volatile'
  BY <1>2, <1>3, <1>4 DEF Volatile
<1> QED
  BY <1>5, <1>8, <1>9 DEF OrderInv

\* The op file of a transaction request takes the first free place (Request::initiate).
LEMMA PushTxRing ==
    ASSUME Orderly, TypeOK, OrderInv, NEW kind \in TxKind, NEW preBoot, PushTx(kind, preBoot)
    PROVE  /\ InUse' = InUse + 1 /\ InUse' <= MaxPending
           /\ file'[opEnd].seq = pushed + 1
           /\ \A n \in OpNr \ {opEnd} : file'[n] = file[n]
           /\ Gapless(InUse)'
<1> DEFINE k == InUse
           f == [seq |-> pushed + 1, kind |-> kind, id |-> nextId, preBoot |-> preBoot]
<1>1. /\ k \in OpNr /\ At(k) = opEnd /\ k < MaxPending /\ opBegin' = opBegin
      /\ opBegin \in OpNr /\ opEnd \in OpNr
      /\ k \in Nat
  BY RamTypes, RingType DEF PushTx, InUse, TypeOK
<1>2. k + 1 < MaxOpNr - HistorySize
  BY <1>1, Sizes
<1>3. InUse' = k + 1
  <2>1. Distance(opBegin, NextOpNr(opEnd)) = Distance(opBegin, opEnd) + 1
    BY <1>1, <1>2, NextDistance, Sizes DEF InUse
  <2> QED
    BY <1>1, <2>1 DEF PushTx, InUse
<1>4. file' = [file EXCEPT ![opEnd] = f] /\ stored' = stored \cup {pushed + 1}
  BY Sizes DEF PushTx, Orderly, TypeOK
<1>5. /\ f.seq = pushed + 1 /\ f.kind = kind /\ f # NoFile
      /\ pushed \in Nat
  BY DEF NoFile, TypeOK
<1>6. /\ file'[opEnd] = f
      /\ \A n \in OpNr \ {opEnd} : file'[n] = file[n]
  BY <1>1, <1>4 DEF TypeOK
<1> HIDE DEF f
<1>7. \A d \in OpNr : /\ At(d)' = At(d) /\ At(d) \in OpNr
                      /\ d = k => file'[At(d)] = f
                      /\ d # k => file'[At(d)] = file[At(d)]
  <2> SUFFICES ASSUME NEW d \in OpNr
               PROVE  /\ At(d)' = At(d) /\ At(d) \in OpNr
                      /\ d = k => file'[At(d)] = f
                      /\ d # k => file'[At(d)] = file[At(d)]
    OBVIOUS
  <2>1. At(d)' = At(d)
    BY <1>1 DEF At
  <2>2. At(d) \in OpNr /\ Distance(opBegin, At(d)) = d /\ Distance(opBegin, opEnd) = k
    BY <1>1, RoundTrip DEF InUse
  <2>3. d # k => At(d) # opEnd
    BY <2>2
  <2> QED
    BY <1>1, <1>6, <2>1, <2>2, <2>3
<1>8. Gapless(k) /\ stored \subseteq 1..pushed
  BY <1>1 DEF OrderInv, Ring, Volatile, PushTx
<1> HIDE DEF k
<1>9. \A d \in 0..k : d \in OpNr /\ (d # k => d \in 0..(k - 1))
  BY <1>1, <1>2, Sizes DEF OpNr
<1>10. \A d \in 0..k : IsStored(d)' /\ file'[At(d)'].seq \in stored'
                         /\ file'[At(d)'].kind \in TxKind
  BY <1>4, <1>5, <1>7, <1>8, <1>9 DEF Gapless, IsStored
<1>11. \A d \in (k + 1)..(MaxOpNr - HistorySize - 1) : ~IsStored(d)'
  <2> SUFFICES ASSUME NEW d \in (k + 1)..(MaxOpNr - HistorySize - 1)
               PROVE  ~IsStored(d)'
    OBVIOUS
  <2>1. d \in OpNr /\ d # k /\ d \in k..(MaxOpNr - HistorySize - 1)
    BY <1>1, Sizes DEF OpNr
  <2> QED
    BY <1>7, <1>8, <2>1 DEF Gapless, IsStored
<1>12. \A d, e \in 0..k : d < e => file'[At(d)'].seq < file'[At(e)'].seq
  <2> SUFFICES ASSUME NEW d \in 0..k, NEW e \in 0..k, d < e
               PROVE  file'[At(d)'].seq < file'[At(e)'].seq
    OBVIOUS
  <2>1. d \in 0..(k - 1) /\ d # k /\ d \in OpNr /\ e \in OpNr
    BY <1>1, <1>9
  <2>2. file'[At(d)'].seq = file[At(d)].seq /\ file[At(d)].seq \in 1..pushed
    BY <1>7, <1>8, <2>1 DEF Gapless
  <2>3. CASE e = k
    BY <1>5, <1>7, <2>1, <2>2, <2>3
  <2>4. CASE e # k
    BY <1>7, <1>8, <1>9, <2>1, <2>2, <2>4 DEF Gapless
  <2> QED
    BY <2>3, <2>4
<1>13. \A s \in Owed' : \E d \in 0..k : file'[At(d)'].seq = s
  <2> SUFFICES ASSUME NEW s \in Owed'
               PROVE  \E d \in 0..k : file'[At(d)'].seq = s
    OBVIOUS
  <2>1. s \in Owed \/ s = pushed + 1
    BY <1>4 DEF Owed, PushTx
  <2>2. CASE s = pushed + 1
    <3>1. k \in 0..k
      BY <1>1
    <3> QED
      BY <1>5, <1>7, <1>9, <2>2, <3>1
  <2>3. CASE s \in Owed
    <3>1. PICK d \in 0..(k - 1) : file[At(d)].seq = s
      BY <1>8, <2>3 DEF Gapless
    <3>2. d \in 0..k /\ d # k /\ d \in OpNr
      BY <1>1, <1>9, <3>1
    <3> QED
      BY <1>7, <3>1, <3>2
  <2> QED
    BY <2>1, <2>2, <2>3
<1>14. k + 1 - 1 = k
  BY <1>1
<1>15. Gapless(InUse)'
  <2>1. ASSUME NEW m, m = k + 1
        PROVE  Gapless(m)'
    <3>1. m - 1 = k
      BY <1>1, <2>1
    <3> QED
      BY <1>10, <1>11, <1>12, <1>13, <2>1, <3>1 DEF Gapless
  <2> QED
    BY <1>3, <2>1 DEF Gapless
<1>16. k + 1 <= MaxPending
  BY <1>1, Sizes
<1> QED
  BY <1>3, <1>5, <1>6, <1>15, <1>16 DEF k

LEMMA PushTxOrder ==
    ASSUME Orderly, TypeOK, OrderInv, NEW kind \in TxKind, NEW preBoot \in -1..cuts,
           PushTx(kind, preBoot)
    PROVE  OrderInv'
<1> DEFINE new == [seq |-> pushed + 1, kind |-> kind, opNr |-> opEnd, id |-> nextId]
<1>0. new \in Request
  BY DEF TypeOK, Request, Kind
<1> PICK r \in Request : r = new
  BY <1>0, Zenon
<1>1. /\ r.seq = pushed + 1 /\ r.seq # 0 /\ r.opNr = opEnd /\ r.kind = kind
      /\ pushed \in Nat /\ opBegin \in OpNr /\ opEnd \in OpNr
  BY DEF TypeOK
<1>2. /\ Enqueue(r) /\ stored' = stored \cup {pushed + 1}
      /\ pc = "idle" /\ pc' = "idle" /\ ~first' /\ ~first /\ handling' = handling
      /\ opBegin' = opBegin /\ pushed' = pushed + 1
      /\ InUse < MaxPending
  BY Sizes DEF PushTx, Orderly, TypeOK, ctl, InUse
<1> HIDE DEF new
<1>3. /\ InUse' = InUse + 1 /\ InUse' <= MaxPending
      /\ file'[opEnd].seq = pushed + 1
      /\ \A n \in OpNr \ {opEnd} : file'[n] = file[n]
      /\ Gapless(InUse)'
  BY PushTxRing
<1>4. Ring'
  BY <1>2, <1>3 DEF Ring
<1>5. Distance(opBegin, r.opNr) = InUse
  BY <1>1 DEF InUse
<1>6. stored \subseteq 1..pushed /\ handling.late \subseteq 1..pushed \ stored
  BY DEF OrderInv, Volatile
<1>7. \A q \in Request : Cached(q) => Cached(q)'
  <2> SUFFICES ASSUME NEW q \in Request, Cached(q)
               PROVE  Cached(q)'
    OBVIOUS
  <2>1. CASE q.opNr = -1
    BY <1>1, <1>2, <1>6, <2>1 DEF Cached
  <2>2. CASE q.opNr # -1
    <3>1. q.opNr \in OpNr /\ InFlash(q)
      BY <2>2 DEF Cached, Request
    <3>3. Distance(opBegin, q.opNr) \in Nat /\ InUse \in Nat
      BY <3>1, RoundTrip, RamTypes, RingType DEF TypeOK
    <3>2. Distance(opBegin, q.opNr) < InUse /\ q.opNr # opEnd
      BY <3>1, <3>3 DEF InFlash, InUse
    <3>4. Distance(opBegin, q.opNr) < InUse'
      BY <1>3, <3>2, <3>3
    <3>5. file'[q.opNr] = file[q.opNr]
      BY <1>3, <3>1, <3>2
    <3> QED
      BY <1>2, <2>2, <3>1, <3>4, <3>5 DEF Cached, InFlash
  <2> QED
    BY <2>1, <2>2
<1>8. Cached(r)'
  <2>1. r.opNr # -1 /\ InUse \in Nat
    BY <1>1, RamTypes, RingType DEF OpNr
  <2> QED
    BY <1>1, <1>2, <1>3, <1>5, <2>1 DEF Cached, InFlash
<1>9. HeadOldest' /\ HeadEmpty' /\ TailOrder' /\ Erasing'
  BY <1>1, <1>2, <1>5, <1>7, <1>8, PushOrder
<1>10. Volatile'
  <2> 1..pushed \cup {pushed + 1} = 1..(pushed + 1) /\ pushed + 1 \notin 1..pushed
    BY <1>1
  <2>1. stored' \subseteq 1..pushed'
    BY <1>2, <1>6
  <2>2. handling'.late \subseteq 1..pushed' \ stored'
    BY <1>2, <1>6
  <2> QED
    BY <2>1, <2>2 DEF Volatile
<1> QED
  BY <1>4, <1>9, <1>10 DEF OrderInv

-----------------------------------------------------------------------------
(* The connection and drop_if *)

\* Sending, receiving and timing out change nothing in the queue; only requests that live in
\* RAM time out.
LEMMA ConnectionOrder ==
    ASSUME TypeOK, OrderInv,
           \/ \E error \in BOOLEAN : Send(error)
           \/ Disconnect
           \/ Receive
           \/ \E late \in SUBSET Expirable : Expire(late)
           \/ UNCHANGED vars
    PROVE  OrderInv'
<1>1. /\ UNCHANGED <<flash, ram, erase, pushed, stored, done, dropped>>
      /\ pc' = pc \/ (pc = "idle" /\ pc' = "drop")
      /\ handling'.late \subseteq handling.late \cup Expirable
  <2>1. ASSUME NEW error \in BOOLEAN, Send(error)
        PROVE  UNCHANGED <<flash, ram, ctl, pushed, stored, done, dropped>>
    BY <2>1 DEF Send, bounds
  <2>2. CASE Disconnect
    BY <2>2 DEF Disconnect, ctl, bounds, history
  <2>3. CASE Receive
    <3>1. handling'.late = {}
      BY <2>3 DEF Receive, Idle
    <3> QED
      BY <2>3, <3>1 DEF Receive, bounds, history
  <2>4. ASSUME NEW late \in SUBSET Expirable, Expire(late)
        PROVE  /\ UNCHANGED <<flash, ram, erase, pushed, stored, done, dropped>>
               /\ pc = "idle" /\ pc' = "drop" /\ handling'.late \subseteq Expirable
    BY <2>4 DEF Expire, Idle, bounds, history
  <2>5. CASE UNCHANGED vars
    BY <2>5 DEF vars, ctl, bounds, history
  <2> QED
    BY <2>1, <2>2, <2>3, <2>4, <2>5 DEF ctl
<1>2. Owed' = Owed
  BY <1>1 DEF Owed
<1>3. Ring'
  <2>1. CASE pc = "off"
    <3>1. pc' = "off"
      BY <1>1, <2>1
    <3>2. PICK k \in 0..MaxPending : Gapless(k)
      BY <2>1 DEF OrderInv, Ring
    <3>3. Gapless(k)'
      BY <1>1, <1>2, <3>2, GaplessKept
    <3> QED
      BY <3>1, <3>3 DEF Ring
  <2>2. CASE pc # "off"
    BY <1>1, <1>2, <2>2, RingKept DEF OrderInv, ram
  <2> QED
    BY <2>1, <2>2
<1>4. \A r : Cached(r)' = Cached(r)
  BY <1>1, CachedKept DEF ram
<1>5. InUse' = InUse /\ Entries' = Entries /\ CacheHit' = CacheHit
  BY <1>1 DEF InUse, Entries, CacheHit, flash, ram
<1>6. HeadOldest'
  BY <1>1, <1>4 DEF OrderInv, HeadOldest, flash, ram, Cached, InFlash, InUse
<1>7. HeadEmpty'
  BY <1>1, <1>5 DEF OrderInv, HeadEmpty, ram
<1>8. TailOrder'
  BY <1>1, <1>4, <1>5 DEF OrderInv, TailOrder, flash, ram
<1>9. Erasing'
  BY <1>1, <1>2, <1>5 DEF OrderInv, Erasing, flash, IsStored, At
<1>10. Volatile'
  <2>1. ASSUME NEW r \in Request, r # NoReq, r.kind = "other", Cached(r)
        PROVE  r.seq \in 1..pushed \ stored
    BY <2>1 DEF Cached, InFlash, TxKind
  <2>2. head # NoReq => Cached(head) /\ pc # "off"
    BY DEF OrderInv, HeadOldest
  <2>3. \A r \in Entries : Cached(r) /\ r \in Request
    BY RamTypes DEF OrderInv, TailOrder
  <2>4. \A q \in Queued : q # NoReq => q \in Request /\ Cached(q)
    BY <2>2, <2>3 DEF Queued, Entries, TypeOK
  <2>5. Expirable \subseteq 1..pushed \ stored
    BY <2>1, <2>4 DEF Expirable
  <2> QED
    BY <1>1, <2>5 DEF OrderInv, Volatile
<1> QED
  BY <1>3, <1>6, <1>7, <1>8, <1>9, <1>10 DEF OrderInv

\* The head is answered or timed out: advanceOpNr begins if it has an op file.
LEMMA DropHeadOrder ==
    ASSUME TypeOK, OrderInv, DropHead
    PROVE  OrderInv'
<1>1. /\ pc = "drop" /\ head # NoReq /\ Matches(head) /\ head' = NoReq
      /\ UNCHANGED <<flash, opEnd, tail, first, handling, pushed, stored, dropped>>
      /\ done' = IF handling.by = "answer" THEN done \cup {head.seq} ELSE done
      /\ pc' \in {"erase", "fetch"}
  BY DEF DropHead, Finish, bounds
<1>2. Cached(head) /\ (head.opNr >= 0 => head.opNr = opBegin) /\ ~first
  BY <1>1 DEF OrderInv, HeadOldest
<1>3. Owed' \subseteq Owed /\ UNCHANGED <<opBegin, file>>
  BY <1>1, OwedShrinks DEF flash
<1>4. Ring' /\ InUse' = InUse
  BY <1>1, <1>3, RingKept DEF OrderInv
<1>5. \A r : Cached(r)' = Cached(r)
  BY <1>1, CachedKept
<1>6. HeadOldest' /\ HeadEmpty'
  BY <1>1, <1>2 DEF HeadOldest, HeadEmpty
<1>7. Volatile'
  BY <1>1 DEF OrderInv, Volatile
<1>8. CASE head.opNr >= 0
  <2>1. head.opNr = opBegin /\ opBegin \in OpNr /\ InUse \in Nat /\ OpNr \subseteq Nat
    BY <1>2, <1>8, RamTypes, RingType DEF TypeOK
  <2>2. InSync(head.opNr)
    BY <2>1, RoundTrip, Sizes DEF InSync
  <2>3. pc' = "erase" /\ erase' = [upTo |-> opBegin, n |-> 0, then |-> "fetch"]
    BY <1>8, <2>1, <2>2 DEF DropHead
  <2>4. InFlash(head)
    BY <1>2, <2>1 DEF Cached
  <2>5. InUse > 0
    <3>1. Distance(opBegin, opBegin) = 0
      BY <2>1, RoundTrip
    <3> QED
      BY <2>1, <2>4, <3>1 DEF InFlash
  <2>6. file[opBegin].seq = head.seq /\ head.seq \in stored
    BY <1>1, <1>2, <1>8, <2>1, <2>4, CachedReal DEF InFlash, TypeOK
  <2>7. head.seq \in done'
    <3>1. handling.by = "answer"
      BY <1>1, <2>6 DEF Matches, OrderInv, Volatile
    <3> QED
      BY <1>1, <3>1
  <2>8. Erasing'
    BY <1>3, <1>4, <2>3, <2>5, <2>6, <2>7 DEF Erasing, Owed
  <2>9. TailOrder'
    BY <1>1, <1>3, <1>5, <1>8 DEF OrderInv, TailOrder, CacheHit, Entries
  <2> QED
    BY <1>4, <1>6, <1>7, <2>8, <2>9 DEF OrderInv
<1>9. CASE ~(head.opNr >= 0)
  <2>1. pc' = "fetch"
    BY <1>9 DEF DropHead
  <2>2. Erasing'
    BY <2>1 DEF Erasing
  <2>3. TailOrder'
    BY <1>1, <1>3, <1>5, <2>1 DEF OrderInv, TailOrder, Entries, NoReq
  <2> QED
    BY <1>4, <1>6, <1>7, <2>2, <2>3 DEF OrderInv
<1> QED
  BY <1>8, <1>9

\* A cached request is answered or timed out.
LEMMA DropTailOrder ==
    ASSUME TypeOK, OrderInv, NEW i \in DOMAIN tail, DropTail(i)
    PROVE  OrderInv'
<1>1. /\ pc = "drop" /\ tail' = RemoveAt(tail, i)
      /\ UNCHANGED <<flash, opEnd, head, first, pc, handling, erase, pushed, stored, dropped>>
      /\ done \subseteq done'
  BY DEF DropTail, Finish, ctl, bounds
<1>2. Owed' \subseteq Owed /\ UNCHANGED <<opBegin, file>>
  BY <1>1, OwedShrinks DEF flash
<1>3. Ring' /\ InUse' = InUse
  BY <1>1, RingKept, <1>2 DEF OrderInv
<1>4. \A r : Cached(r)' = Cached(r)
  BY <1>1, CachedKept
<1>5. tail \in Seq(Request) /\ Len(tail) \in Nat /\ DOMAIN tail = 1..Len(tail)
  BY DEF TypeOK
<1>6. Entries' \subseteq Entries
  <2>1. \A j \in DOMAIN tail' : tail'[j] \in Entries
    BY <1>1, <1>5 DEF RemoveAt, Entries
  <2> QED
    BY <2>1 DEF Entries
<1>7. HeadOldest'
  BY <1>1, <1>2, <1>4 DEF OrderInv, HeadOldest, Cached, InFlash, InUse
<1>8. HeadEmpty'
  <2>1. tail # <<>>
    BY <1>5
  <2> QED
    BY <1>1, <1>3, <2>1 DEF OrderInv, HeadEmpty
<1>9. TailOrder'
  <2>1. Ordered(opBegin, tail')
    BY <1>1, <1>5, OrderedRemove DEF OrderInv, TailOrder
  <2>2. CacheHit' => CacheHit
    BY <1>2, <1>6 DEF CacheHit, Entries
  <2> QED
    BY <1>1, <1>2, <1>4, <1>6, <2>1, <2>2 DEF OrderInv, TailOrder
<1>10. Erasing' /\ Volatile'
  BY <1>1 DEF OrderInv, Erasing, Volatile
<1> QED
  BY <1>3, <1>7, <1>8, <1>9, <1>10 DEF OrderInv

\* The handler ends.
LEMMA EndDropOrder ==
    ASSUME TypeOK, OrderInv, EndDrop
    PROVE  OrderInv'
<1>1. /\ pc = "drop" /\ pc' = "idle" /\ handling' = Idle
      /\ UNCHANGED <<flash, ram, pushed, stored, done, dropped>>
  BY DEF EndDrop, bounds, history
<1>2. Owed' \subseteq Owed /\ UNCHANGED <<opBegin, file, opEnd, head, tail, first>>
  BY <1>1, OwedShrinks DEF flash, ram
<1>3. Ring' /\ InUse' = InUse
  BY <1>1, <1>2, RingKept DEF OrderInv
<1>4. \A r : Cached(r)' = Cached(r)
  BY <1>1, <1>2, CachedKept
<1>5. HeadOldest'
  BY <1>1, <1>2, <1>4 DEF OrderInv, HeadOldest, Cached, InFlash, InUse
<1>6. HeadEmpty' /\ Erasing'
  BY <1>1, <1>2, <1>3 DEF OrderInv, HeadEmpty, Erasing
<1>7. TailOrder'
  BY <1>1, <1>2, <1>4 DEF OrderInv, TailOrder, Entries, CacheHit
<1>8. Volatile'
  BY <1>1 DEF OrderInv, Volatile, Idle
<1> QED
  BY <1>3, <1>5, <1>6, <1>7, <1>8 DEF OrderInv

-----------------------------------------------------------------------------
(* pop_front *)

\* advanceOpNr erases one file, which lies beyond the ones in use.
LEMMA EraseFileOrder ==
    ASSUME Orderly, TypeOK, OrderInv, EraseFile
    PROVE  OrderInv'
<1> DEFINE far == MaxOpNr - HistorySize
<1>1. /\ pc = "erase" /\ erase.upTo = opBegin /\ InUse > 0 /\ file[opBegin].seq \notin Owed
      /\ erase.then = "cached" => InUse = 1
      /\ erase.n < Distance(opBegin, NextOpNr(erase.upTo)) /\ erase.n \in Nat
      /\ head = NoReq
  BY DEF EraseFile, OrderInv, Erasing, HeadOldest, TypeOK, Erase
<1>2. far \in OpNr /\ far \in Nat /\ far > MaxPending /\ InUse \in Nat /\ InUse <= MaxPending
  BY <1>1, Sizes, RamTypes, RingType DEF Orderly, OpNr, OrderInv, Ring
<1>3. erase.n = 0
  <2>1. Distance(opBegin, NextOpNr(opBegin)) = 1
    <3>1. opBegin \in OpNr /\ 0 < MaxOpNr - 1
      BY Sizes DEF TypeOK, Orderly
    <3>2. Distance(opBegin, opBegin) = 0
      BY <3>1, RoundTrip
    <3>3. Distance(opBegin, opBegin) < MaxOpNr - 1
      BY <3>1, <3>2
    <3>4. Distance(opBegin, NextOpNr(opBegin)) = Distance(opBegin, opBegin) + 1
      BY <3>1, <3>3, NextDistance, Zenon
    <3> QED
      BY <3>2, <3>4
  <2> QED
    BY <1>1, <2>1
<1>4. /\ file' = [file EXCEPT ![At(far)] = NoFile] /\ erase' = [erase EXCEPT !.n = 1]
      /\ UNCHANGED <<opBegin, opEnd, head, tail, first, pc, handling, pushed, stored, Owed>>
  <2>1. HistoryFile(0) = At(far)
    BY Sizes DEF HistoryFile
  <2>2. file' = [file EXCEPT ![At(far)] = NoFile]
    BY <1>3, <2>1 DEF EraseFile
  <2>3. erase' = [erase EXCEPT !.n = 1]
    BY <1>3 DEF EraseFile
  <2>4. UNCHANGED <<opBegin, opEnd, head, tail, first, pc, handling, pushed, stored, Owed>>
    BY DEF EraseFile, ram, bounds, history, Owed
  <2> QED
    BY <2>2, <2>3, <2>4
<1>5. \A d \in OpNr : /\ At(d)' = At(d) /\ At(d) \in OpNr
                      /\ d # far => file'[At(d)] = file[At(d)]
                      /\ d = far => file'[At(d)] = NoFile
  <2> SUFFICES ASSUME NEW d \in OpNr
               PROVE  /\ At(d)' = At(d) /\ At(d) \in OpNr
                      /\ d # far => file'[At(d)] = file[At(d)]
                      /\ d = far => file'[At(d)] = NoFile
    OBVIOUS
  <2>1. At(d)' = At(d)
    BY <1>4 DEF At
  <2>2. /\ At(d) \in OpNr /\ Distance(opBegin, At(d)) = d
        /\ At(far) \in OpNr /\ Distance(opBegin, At(far)) = far
    BY <1>2, RoundTrip DEF TypeOK
  <2>3. d # far => At(d) # At(far)
    BY <2>2
  <2> HIDE DEF far
  <2> QED
    BY <1>4, <2>1, <2>2, <2>3 DEF TypeOK
<1> HIDE DEF far
<1>6. InUse' = InUse
  BY <1>4 DEF InUse
<1>7. Gapless(InUse)
  BY <1>1 DEF OrderInv, Ring
<1>8. \A d \in 0..(far - 1) : d \in OpNr /\ d # far
  BY <1>2, Sizes DEF far, OpNr
<1>9. \A d \in 0..(InUse - 1) : d \in 0..(far - 1)
  BY <1>2, Sizes
<1>10. \A d \in InUse..(far - 1) : d \in 0..(far - 1)
  BY <1>2, Sizes
<1>11. Gapless(InUse)'
  <2>1. \A d \in 0..(InUse - 1) : file'[At(d)'] = file[At(d)]
    BY <1>5, <1>8, <1>9
  <2>2. \A d \in InUse..(far - 1) : file'[At(d)'] = file[At(d)]
    BY <1>5, <1>8, <1>10
  <2> QED
    BY <1>4, <1>6, <1>7, <2>1, <2>2 DEF Gapless, IsStored, far
<1>12. Ring'
  BY <1>1, <1>2, <1>4, <1>6, <1>11 DEF Ring
<1>13. HeadOldest' /\ HeadEmpty'
  BY <1>1, <1>4 DEF OrderInv, HeadOldest, HeadEmpty
<1>14. \A r \in Request : Cached(r) => Cached(r)'
  <2> SUFFICES ASSUME NEW r \in Request, Cached(r)
               PROVE  Cached(r)'
    OBVIOUS
  <2>1. CASE r.opNr = -1
    BY <1>4, <2>1 DEF Cached
  <2>2. CASE r.opNr # -1
    <3>1. r.opNr \in OpNr /\ InFlash(r)
      BY <2>2 DEF Cached, Request
    <3> DEFINE d == Distance(opBegin, r.opNr)
    <3>2. d \in OpNr /\ At(d) = r.opNr /\ d < InUse
      BY <3>1, RoundTrip DEF TypeOK, InFlash
    <3>3. d # far
      <4>1. d \in Nat
        BY <3>2, RingType
      <4> HIDE DEF d
      <4> QED
        BY <1>2, <3>2, <4>1, Sizes
    <3>4. file'[r.opNr] = file[r.opNr]
      BY <1>5, <3>2, <3>3
    <3> QED
      BY <1>4, <1>6, <2>2, <3>1, <3>4 DEF Cached, InFlash
  <2> QED
    BY <2>1, <2>2
<1>15. TailOrder'
  <2>1. Entries' = Entries /\ CacheHit' = CacheHit
    BY <1>4 DEF Entries, CacheHit
  <2>2. Entries \subseteq Request
    BY RamTypes
  <2> QED
    BY <1>1, <1>4, <1>14, <2>1, <2>2 DEF OrderInv, TailOrder
<1>16. Erasing'
  <2>1. ~IsStored(far)'
    BY <1>2, <1>5 DEF IsStored
  <2>2. ~IsStored(MaxOpNr - HistorySize)'
    BY <2>1 DEF far
  <2>3. file'[opBegin] = file[opBegin]
    <3>1. 0 \in OpNr /\ 0 # far /\ At(0) = opBegin
      BY <1>2, RingType, RoundTrip, Sizes DEF TypeOK
    <3> QED
      BY <1>5, <3>1
  <2>4. erase'.n = 1 /\ erase'.upTo = erase.upTo /\ erase'.then = erase.then
    BY <1>4 DEF TypeOK, Erase
  <2> QED
    BY <1>1, <1>4, <1>6, <2>2, <2>3, <2>4 DEF Erasing
<1>17. Volatile'
  BY <1>4 DEF OrderInv, Volatile
<1> QED
  BY <1>12, <1>13, <1>15, <1>16, <1>17 DEF OrderInv

\* When opBegin is saved, every op file and every request comes one place nearer.
LEMMA SaveBeginRing ==
    ASSUME Orderly, TypeOK, OrderInv, SaveBegin
    PROVE  /\ opBegin' = NextOpNr(opBegin) /\ opBegin' \in OpNr
           /\ InUse' = InUse - 1
           /\ Gapless(InUse)'
<1>1. /\ pc = "erase" /\ erase.upTo = opBegin /\ InUse > 0 /\ file[opBegin].seq \notin Owed
      /\ erase.n >= Distance(opBegin, NextOpNr(erase.upTo))
      /\ erase.n \in Nat /\ erase.n <= 1 /\ (erase.n = 1 => ~IsStored(MaxOpNr - HistorySize))
  BY DEF SaveBegin, OrderInv, Erasing, TypeOK, Erase
<1>2. opBegin' = NextOpNr(opBegin) /\ opBegin' \in OpNr /\ opBegin \in OpNr
  BY <1>1, NextOpNrType DEF SaveBegin, TypeOK
<1>3. UNCHANGED <<file, opEnd, stored, Owed>>
  BY DEF SaveBegin, ram, history, Owed
<1>4. InUse \in Nat /\ InUse <= MaxPending
  BY <1>1, RamTypes, RingType DEF OrderInv, Ring
<1>5. erase.n = 1
  <2>1. Distance(opBegin, NextOpNr(opBegin)) = 1
    BY <1>2, RoundTrip, NextDistance, Sizes DEF Orderly
  <2> QED
    BY <1>1, <2>1
<1>6. InUse' = InUse - 1
  BY <1>1, <1>2, <1>3, NextDistance DEF InUse, TypeOK
<1>7. \A d \in OpNr : d < MaxOpNr - 1 => At(d)' = At(d + 1)
  BY <1>2, NextAt
<1>9. Gapless(InUse)
  BY <1>1 DEF OrderInv, Ring
<1>10. \A d \in 0..(InUse' - 1) : /\ d + 1 \in 0..(InUse - 1)
                                  /\ At(d)' = At(d + 1)
  <2> SUFFICES ASSUME NEW d \in 0..(InUse' - 1)
               PROVE  d + 1 \in 0..(InUse - 1) /\ At(d)' = At(d + 1)
    OBVIOUS
  <2>1. d + 1 \in 0..(InUse - 1) /\ d \in OpNr /\ d < MaxOpNr - 1
    BY <1>4, <1>6, Sizes DEF OpNr
  <2> QED
    BY <1>7, <2>1
<1>11. \A d \in 0..(InUse' - 1) : /\ IsStored(d)' /\ file'[At(d)'].seq \in stored'
                                  /\ file'[At(d)'].kind \in TxKind
  BY <1>3, <1>9, <1>10 DEF Gapless, IsStored
<1>12. \A d \in InUse'..(MaxOpNr - HistorySize - 1) : ~IsStored(d)'
  <2> SUFFICES ASSUME NEW d \in InUse'..(MaxOpNr - HistorySize - 1)
               PROVE  ~IsStored(d)'
    OBVIOUS
  <2>1. d \in OpNr /\ d < MaxOpNr - 1 /\ d + 1 >= InUse /\ d \in Nat
    BY <1>1, <1>4, <1>6, Sizes DEF OpNr, Orderly
  <2>2. ~IsStored(d + 1)
    <3>1. CASE d = MaxOpNr - HistorySize - 1
      <4>1. d + 1 = MaxOpNr - HistorySize
        BY <3>1, Sizes
      <4> QED
        BY <1>1, <1>5, <4>1
    <3>2. CASE d # MaxOpNr - HistorySize - 1
      <4>1. d + 1 \in InUse..(MaxOpNr - HistorySize - 1)
        BY <1>4, <2>1, <3>2, Sizes
      <4> QED
        BY <1>9, <4>1 DEF Gapless
    <3> QED
      BY <3>1, <3>2
  <2> QED
    BY <1>3, <1>7, <2>1, <2>2 DEF IsStored
<1>13. \A d, e \in 0..(InUse' - 1) : d < e => file'[At(d)'].seq < file'[At(e)'].seq
  <2> SUFFICES ASSUME NEW d \in 0..(InUse' - 1), NEW e \in 0..(InUse' - 1), d < e
               PROVE  file'[At(d)'].seq < file'[At(e)'].seq
    OBVIOUS
  <2>1. d + 1 < e + 1
    OBVIOUS
  <2> QED
    BY <1>3, <1>9, <1>10, <2>1 DEF Gapless
<1>14. \A s \in Owed' : \E d \in 0..(InUse' - 1) : file'[At(d)'].seq = s
  <2> SUFFICES ASSUME NEW s \in Owed'
               PROVE  \E d \in 0..(InUse' - 1) : file'[At(d)'].seq = s
    OBVIOUS
  <2>1. PICK e \in 0..(InUse - 1) : file[At(e)].seq = s
    BY <1>3, <1>9 DEF Gapless
  <2>2. e # 0
    BY <1>1, <1>2, <1>3, <2>1, RoundTrip
  <2>3. e - 1 \in 0..(InUse' - 1) /\ (e - 1) + 1 = e
    BY <1>4, <1>6, <2>2
  <2>4. At(e - 1)' = At(e)
    BY <1>10, <2>3
  <2> QED
    BY <1>3, <2>1, <2>3, <2>4
<1> QED
  BY <1>2, <1>6, <1>11, <1>12, <1>13, <1>14 DEF Gapless

LEMMA SaveBeginOrder ==
    ASSUME Orderly, TypeOK, OrderInv, SaveBegin
    PROVE  OrderInv'
<1>1. /\ pc = "erase" /\ head = NoReq /\ ~first /\ ~CacheHit /\ InUse > 0
      /\ erase.then = "cached" => InUse = 1
  BY DEF SaveBegin, OrderInv, Erasing, HeadOldest, HeadEmpty, TailOrder
<1>2. /\ opBegin' = NextOpNr(opBegin) /\ opBegin' \in OpNr
      /\ InUse' = InUse - 1
      /\ Gapless(InUse)'
  BY SaveBeginRing
<1>3. /\ UNCHANGED <<file, opEnd, head, tail, first, handling, pushed, stored>>
      /\ pc' = erase.then /\ pc' \in {"fetch", "cached", "panic"}
  BY DEF SaveBegin, ram, bounds, history, TypeOK, Erase
<1>4. InUse \in Nat /\ InUse <= MaxPending /\ opBegin \in OpNr /\ OpNr \subseteq Nat
  BY <1>1, RamTypes, RingType DEF OrderInv, Ring, TypeOK
<1>5. Ring'
  BY <1>2, <1>3, <1>4, Sizes DEF Ring
<1>6. HeadOldest' /\ HeadEmpty'
  BY <1>1, <1>2, <1>3, <1>4 DEF HeadOldest, HeadEmpty
<1>7. \A n \in OpNr : n # opBegin => /\ Distance(opBegin', n) = Distance(opBegin, n) - 1
                                     /\ Distance(opBegin, n) \in Nat
  <2> SUFFICES ASSUME NEW n \in OpNr, n # opBegin
               PROVE  /\ Distance(opBegin', n) = Distance(opBegin, n) - 1
                      /\ Distance(opBegin, n) \in Nat
    OBVIOUS
  <2>1. Distance(opBegin, n) \in Nat /\ Distance(opBegin, n) # 0
    BY <1>4, RoundTrip
  <2> QED
    BY <1>2, <1>4, <2>1, NextDistance
<1>8. \A i \in DOMAIN tail : tail[i].opNr >= 0 => tail[i].opNr \in OpNr /\ tail[i].opNr # opBegin
  BY <1>1, RamTypes DEF CacheHit
<1>9. \A r \in Entries : Cached(r)'
  <2> SUFFICES ASSUME NEW r \in Entries
               PROVE  Cached(r)'
    OBVIOUS
  <2>1. Cached(r) /\ r.opNr \in OpNr \cup {-1}
    BY RamTypes DEF OrderInv, TailOrder, Request
  <2>2. CASE r.opNr = -1
    BY <1>3, <2>1, <2>2 DEF Cached
  <2>3. CASE r.opNr # -1
    <3>1. r.opNr \in OpNr /\ InFlash(r)
      BY <2>1, <2>3 DEF Cached
    <3>2. r.opNr # opBegin
      BY <1>1 DEF CacheHit, Entries
    <3>3. Distance(opBegin', r.opNr) < InUse'
      <4>1. /\ Distance(opBegin', r.opNr) = Distance(opBegin, r.opNr) - 1
            /\ Distance(opBegin, r.opNr) \in Nat /\ Distance(opBegin, r.opNr) < InUse
        BY <1>7, <3>1, <3>2 DEF InFlash
      <4> QED
        BY <1>2, <1>4, <4>1
    <3> QED
      BY <1>3, <2>3, <3>1, <3>3 DEF Cached, InFlash
  <2> QED
    BY <2>2, <2>3
<1>10. Ordered(opBegin', tail)
  <2>1. Ordered(opBegin, tail)
    BY DEF OrderInv, TailOrder
  <2> SUFFICES ASSUME NEW i \in DOMAIN tail, NEW j \in DOMAIN tail,
                      i < j, tail[i].opNr >= 0, tail[j].opNr >= 0
               PROVE  Distance(opBegin', tail[i].opNr) < Distance(opBegin', tail[j].opNr)
    BY DEF Ordered
  <2>2. Distance(opBegin, tail[i].opNr) < Distance(opBegin, tail[j].opNr)
    BY <2>1 DEF Ordered
  <2> QED
    BY <1>7, <1>8, <2>2
<1>11. TailOrder'
  <2>1. Entries' = Entries
    BY <1>3 DEF Entries
  <2>2. ~(head'.opNr >= 0) /\ pc' # "erase"
    BY <1>1, <1>3 DEF NoReq
  <2> QED
    BY <1>3, <1>9, <1>10, <2>1, <2>2 DEF TailOrder
<1>12. Erasing' /\ Volatile'
  BY <1>3 DEF OrderInv, Erasing, Volatile
<1> QED
  BY <1>5, <1>6, <1>11, <1>12 DEF OrderInv

\* pop_front goes on with the cache: it holds the oldest stored request, or flash holds none.
LEMMA TakeOrder ==
    ASSUME TypeOK, OrderInv, head = NoReq, pc \in {"fetch", "cached"},
           CacheHit \/ InUse = 0, TakeCached, pc' = "drop",
           UNCHANGED <<flash, opEnd, first, handling, pushed, stored, done, dropped>>
    PROVE  OrderInv'
<1>1. tail \in Seq(Request) /\ Len(tail) \in Nat /\ DOMAIN tail = 1..Len(tail)
  BY DEF TypeOK
<1>2. Ordered(opBegin, tail)
  BY DEF OrderInv, TailOrder
<1>3. /\ tail = <<>> => head' = NoReq /\ tail' = <<>>
      /\ tail # <<>> => head' \in Entries /\ head' = tail[1]
      /\ Entries' \subseteq Entries
      /\ Ordered(opBegin, tail')
      /\ \A i \in DOMAIN tail' : i + 1 \in DOMAIN tail /\ tail'[i] = tail[i + 1]
  BY <1>2, TakeCachedOrder
<1>4. Owed' \subseteq Owed /\ UNCHANGED <<opBegin, file>>
  BY OwedShrinks DEF flash
<1>5. Ring' /\ InUse' = InUse
  BY <1>4, RingKept DEF OrderInv
<1>6. \A r : Cached(r)' = Cached(r)
  BY CachedKept
<1>7. \A r \in Entries : Cached(r) /\ r \in Request /\ r # NoReq
  BY RamTypes, CachedReal DEF OrderInv, TailOrder
<1>8. opBegin \in OpNr /\ OpNr \subseteq Nat /\ InUse \in Nat
  BY RamTypes, RingType DEF TypeOK
<1>9. \A i \in DOMAIN tail : tail[i].opNr >= 0 => /\ tail[i].opNr \in OpNr
                                                  /\ Distance(opBegin, tail[i].opNr) \in Nat
                                                  /\ Distance(opBegin, tail[i].opNr) < InUse
  <2> SUFFICES ASSUME NEW i \in DOMAIN tail, tail[i].opNr >= 0
               PROVE  /\ tail[i].opNr \in OpNr
                      /\ Distance(opBegin, tail[i].opNr) \in Nat
                      /\ Distance(opBegin, tail[i].opNr) < InUse
    OBVIOUS
  <2>1. tail[i].opNr \in OpNr
    BY RamTypes
  <2>2. InFlash(tail[i])
    <3>1. tail[i] \in Entries
      BY DEF Entries
    <3> QED
      BY <1>7, <2>1, <1>8, <3>1 DEF Cached
  <2> QED
    BY <1>8, <2>1, <2>2, RoundTrip DEF InFlash
<1>10. tail # <<>> => 1 \in DOMAIN tail
  BY <1>1
<1>11. tail # <<>> /\ head'.opNr >= 0 => head'.opNr = opBegin
  <2> SUFFICES ASSUME tail # <<>>, tail[1].opNr >= 0
               PROVE  Distance(opBegin, tail[1].opNr) = 0
    BY <1>3, <1>8, <1>9, <1>10, RoundTrip
  <2>1. InUse # 0
    BY <1>8, <1>9, <1>10
  <2>2. PICK i \in DOMAIN tail : tail[i].opNr = opBegin
    BY <2>1 DEF CacheHit
  <2>3. Distance(opBegin, tail[i].opNr) = 0 /\ tail[i].opNr >= 0
    BY <1>8, <2>2, RoundTrip
  <2>4. i = 1
    <3> SUFFICES ASSUME 1 < i PROVE FALSE
      BY <1>1
    <3>1. Distance(opBegin, tail[1].opNr) < Distance(opBegin, tail[i].opNr)
      BY <1>2, <1>10, <2>3 DEF Ordered
    <3> QED
      BY <1>9, <1>10, <2>3, <3>1
  <2> QED
    BY <2>3, <2>4
<1>12. HeadOldest'
  <2> SUFFICES ASSUME head' # NoReq PROVE HeadOldest'
    BY DEF HeadOldest
  <2>1. tail # <<>> /\ head' \in Entries
    BY <1>3
  <2>2. head'.opNr >= 0 => head'.opNr = opBegin
    BY <1>11, <2>1
  <2>3. ~first
    BY DEF OrderInv, HeadEmpty
  <2>4. Cached(head)'
    BY <1>4, <1>5, <1>7, <2>1 DEF Cached, InFlash
  <2> QED
    BY <1>4, <2>2, <2>3, <2>4 DEF HeadOldest
<1>13. HeadEmpty'
  <2>1. head' = NoReq => tail = <<>>
    BY <1>3, <1>7
  <2>2. tail = <<>> => InUse = 0 /\ tail' = <<>>
    BY <1>3 DEF CacheHit
  <2>3. ~first
    BY DEF OrderInv, HeadEmpty
  <2> QED
    BY <1>5, <2>1, <2>2, <2>3 DEF HeadEmpty
<1>14. head'.opNr >= 0 => ~CacheHit'
  <2> SUFFICES ASSUME head'.opNr >= 0, NEW i \in DOMAIN tail', tail'[i].opNr = opBegin
               PROVE  FALSE
    BY <1>4 DEF CacheHit
  <2>1. i + 1 \in DOMAIN tail /\ tail[i + 1].opNr = opBegin
    BY <1>3
  <2>2. tail # <<>>
    BY <2>1
  <2>3. 1 \in DOMAIN tail /\ 1 < i + 1 /\ tail[1].opNr = opBegin
    BY <1>1, <1>3, <1>10, <1>11, <2>1, <2>2
  <2>4. Distance(opBegin, opBegin) < Distance(opBegin, opBegin)
    BY <1>2, <1>8, <2>1, <2>3 DEF Ordered
  <2> QED
    BY <1>8, <2>4, RoundTrip
<1>15. TailOrder'
  BY <1>3, <1>4, <1>6, <1>7, <1>14 DEF TailOrder
<1>16. Erasing' /\ Volatile'
  BY DEF OrderInv, Erasing, Volatile
<1> QED
  BY <1>5, <1>12, <1>13, <1>15, <1>16 DEF OrderInv

\* While pop_front looks for the next head there is none, and the first stored request is the
\* one at opBegin.
LEMMA FetchState ==
    ASSUME TypeOK, OrderInv, pc \in {"fetch", "cached"}
    PROVE  /\ head = NoReq /\ ~first
           /\ InUse \in Nat /\ InUse <= MaxPending
           /\ (\A d \in 0..(InUse - 1) : ~IsStored(d)) => InUse = 0
           /\ \A d \in OpNr : FirstStored(d) /\ d < InUse => d = 0
<1>1. head = NoReq /\ ~first
  BY DEF OrderInv, HeadOldest, HeadEmpty
<1>2. InUse \in Nat /\ InUse <= MaxPending
  BY RamTypes, RingType DEF OrderInv, Ring
<1>3. InUse > 0 => IsStored(0)
  BY OldestStored
<1>4. (\A d \in 0..(InUse - 1) : ~IsStored(d)) => InUse = 0
  BY <1>2, <1>3
<1>5. ASSUME NEW d \in OpNr, FirstStored(d), d < InUse
      PROVE  d = 0
  <2>1. d \in Nat
    BY RingType
  <2>2. d # 0 => 0 \in 0..(d - 1)
    BY <2>1
  <2> QED
    BY <1>2, <1>3, <1>5, <2>1, <2>2 DEF FirstStored
<1> QED
  BY <1>1, <1>2, <1>4, <1>5

LEMMA FetchCachedOrder ==
    ASSUME TypeOK, OrderInv, FetchCached \/ SkipToCached
    PROVE  OrderInv'
<1>1. CASE FetchCached
  <2>1. /\ pc = "fetch" /\ pc' = "drop" /\ TakeCached
        /\ UNCHANGED <<flash, opEnd, first, handling, pushed, stored, done, dropped>>
    BY <1>1 DEF FetchCached, bounds, history
  <2>2. head = NoReq /\ (CacheHit \/ InUse = 0)
    BY <1>1, <2>1, FetchState DEF FetchCached
  <2> QED
    BY <2>1, <2>2, TakeOrder
<1>2. CASE SkipToCached
  <2>1. /\ pc = "cached" /\ pc' = "drop" /\ TakeCached
        /\ UNCHANGED <<flash, opEnd, first, handling, pushed, stored, done, dropped>>
    BY <1>2 DEF SkipToCached, bounds, history
  <2>2. head = NoReq /\ InUse = 0
    BY <2>1, FetchState DEF OrderInv, HeadEmpty
  <2> QED
    BY <2>1, <2>2, TakeOrder
<1> QED
  BY <1>1, <1>2

\* The oldest stored request is loaded from flash.
LEMMA FetchFlashOrder ==
    ASSUME TypeOK, OrderInv, NEW d \in OpNr, FetchFlash(d)
    PROVE  OrderInv'
<1>1. /\ pc = "fetch" /\ pc' = "drop" /\ ~CacheHit /\ d < InUse /\ FirstStored(d)
      /\ head' = [seq |-> file[At(d)].seq, kind |-> file[At(d)].kind, opNr |-> At(d),
                  id |-> file[At(d)].id]
      /\ UNCHANGED <<flash, opEnd, tail, first, handling, pushed, stored, done, dropped>>
  BY DEF FetchFlash, bounds, history
<1>2. /\ d = 0 /\ head = NoReq /\ ~first /\ InUse \in Nat /\ InUse > 0
      /\ opBegin \in OpNr /\ opBegin >= 0
  BY <1>1, FetchState, RingType DEF TypeOK
<1>3. /\ At(0) = opBegin /\ file[opBegin].seq \in stored /\ file[opBegin].kind \in TxKind
      /\ Distance(opBegin, opBegin) = 0
  BY <1>1, <1>2, OldestStored, RoundTrip
<1>4. Owed' \subseteq Owed /\ UNCHANGED <<opBegin, file>>
  BY <1>1, OwedShrinks DEF flash
<1>5. Ring' /\ InUse' = InUse
  BY <1>1, <1>4, RingKept DEF OrderInv
<1>6. \A r : Cached(r)' = Cached(r)
  BY <1>1, CachedKept
<1>7. head'.opNr = opBegin /\ head'.seq = file[opBegin].seq /\ head'.kind = file[opBegin].kind
  BY <1>1, <1>2, <1>3
<1>8. Cached(head)'
  <2>1. head'.opNr # -1
    BY <1>2, <1>7
  <2> QED
    BY <1>2, <1>3, <1>4, <1>5, <1>7, <2>1 DEF Cached, InFlash
<1>9. head' # NoReq
  BY <1>2, <1>7 DEF NoReq
<1>10. HeadOldest' /\ HeadEmpty'
  BY <1>1, <1>2, <1>4, <1>7, <1>8, <1>9 DEF HeadOldest, HeadEmpty
<1>11. TailOrder'
  BY <1>1, <1>4, <1>6 DEF OrderInv, TailOrder, Entries, CacheHit
<1>12. Erasing' /\ Volatile'
  BY <1>1 DEF OrderInv, Erasing, Volatile
<1> QED
  BY <1>5, <1>10, <1>11, <1>12 DEF OrderInv

\* The oldest stored request cannot be restored: it is given up.
LEMMA FetchFailsOrder ==
    ASSUME TypeOK, OrderInv, NEW d \in OpNr, FetchFails(d)
    PROVE  OrderInv'
<1>1. /\ pc = "fetch" /\ ~CacheHit /\ d < InUse /\ FirstStored(d)
      /\ dropped' = dropped \cup {file[At(d)].seq}
      /\ UNCHANGED <<flash, opEnd, head, tail, first, handling, pushed, stored, done>>
  BY DEF FetchFails, bounds
<1>2. /\ d = 0 /\ head = NoReq /\ ~first /\ InUse \in Nat /\ InUse > 0
      /\ opBegin \in OpNr
  BY <1>1, FetchState, RingType DEF TypeOK
<1>3. At(0) = opBegin /\ Distance(opBegin, opBegin) = 0
  BY <1>2, RoundTrip
<1>4. /\ pc' = "erase"
      /\ erase' = [upTo |-> opBegin, n |-> 0, then |-> IF 1 < InUse THEN "panic" ELSE "cached"]
  <2>1. InSync(At(d))
    BY <1>2, <1>3, Sizes DEF InSync
  <2> QED
    BY <1>2, <1>3, <2>1 DEF FetchFails
<1>5. Owed' \subseteq Owed /\ UNCHANGED <<opBegin, file>> /\ file[opBegin].seq \notin Owed'
  <2>1. Owed' \subseteq Owed
    BY <1>1, OwedShrinks
  <2> QED
    BY <1>1, <1>2, <1>3, <2>1 DEF flash, Owed
<1>6. Ring' /\ InUse' = InUse
  BY <1>1, <1>4, <1>5, RingKept DEF OrderInv
<1>7. \A r : Cached(r)' = Cached(r)
  BY <1>1, CachedKept
<1>8. HeadOldest' /\ HeadEmpty'
  BY <1>1, <1>2, <1>4 DEF HeadOldest, HeadEmpty
<1>9. TailOrder'
  BY <1>1, <1>5, <1>7 DEF OrderInv, TailOrder, Entries, CacheHit
<1>10. Erasing'
  <2>1. erase'.then = "cached" => InUse = 1
    BY <1>2, <1>4
  <2> QED
    BY <1>2, <1>4, <1>5, <1>6, <2>1 DEF Erasing
<1>11. Volatile'
  BY <1>1 DEF OrderInv, Volatile
<1> QED
  BY <1>6, <1>8, <1>9, <1>10, <1>11 DEF OrderInv

-----------------------------------------------------------------------------
(* Resets *)

\* A power cut or a panic leaves the flash as it is, whatever the handler was about to write.
LEMMA LoseRamOrder ==
    ASSUME TypeOK, OrderInv, pc # "off", LoseRam
    PROVE  OrderInv'
<1>1. /\ pc' = "off" /\ head' = NoReq /\ tail' = <<>> /\ first' /\ handling' = Idle
      /\ UNCHANGED <<flash, pushed, stored, Owed>>
  BY DEF LoseRam, history, Owed
<1>2. InUse \in 0..MaxPending /\ Gapless(InUse)
  <2>1. InUse \in Nat
    BY RamTypes, RingType
  <2> QED
    BY <2>1, Sizes DEF OrderInv, Ring
<1>3. Ring'
  <2>1. PICK k \in 0..MaxPending : Gapless(k)
    BY <1>2
  <2>2. Gapless(k)'
    BY <1>1, <2>1, GaplessKept
  <2> QED
    BY <1>1, <2>2 DEF Ring
<1>4. HeadOldest' /\ HeadEmpty' /\ Erasing' /\ Volatile'
  BY <1>1 DEF OrderInv, HeadOldest, HeadEmpty, Erasing, Volatile, Idle
<1>5. TailOrder'
  BY <1>1 DEF TailOrder, Entries, Ordered, NoReq
<1> QED
  BY <1>3, <1>4, <1>5 DEF OrderInv

\* The scan finds the end of the ring again (the RequestStore constructor).
LEMMA BootOrder ==
    ASSUME TypeOK, OrderInv, NEW d \in 0..MaxOpNr, NEW attempts, Boot(d, attempts)
    PROVE  OrderInv'
<1>1. /\ pc = "off" /\ ScanEnds(d) /\ opEnd' = At(d) /\ pc' = "idle"
      /\ UNCHANGED <<flash, head, tail, first, handling, pushed, stored, Owed>>
  BY DEF Boot, bounds, history, Owed
<1>2. PICK k \in 0..MaxPending : Gapless(k)
  BY <1>1 DEF OrderInv, Ring
<1>3. d = k
  BY <1>1, <1>2, ScanFinds
<1>4. k \in OpNr
  BY Sizes DEF OpNr
<1>5. InUse' = k
  BY <1>1, <1>3, <1>4, RoundTrip DEF InUse, flash, TypeOK
<1>6. Gapless(k)'
  BY <1>1, <1>2, GaplessKept
<1>7. Ring'
  BY <1>1, <1>5, <1>6 DEF Ring, Gapless
<1>8. head = NoReq /\ tail = <<>> /\ first
  BY <1>1 DEF OrderInv, HeadEmpty
<1>9. first'
  BY <1>1, <1>8
<1>10. HeadOldest' /\ HeadEmpty' /\ Erasing' /\ Volatile'
  BY <1>1, <1>8, <1>9 DEF OrderInv, HeadOldest, HeadEmpty, Erasing, Volatile
<1>11. TailOrder'
  BY <1>1, <1>8 DEF TailOrder, Entries, Ordered, NoReq
<1> QED
  BY <1>7, <1>10, <1>11 DEF OrderInv

-----------------------------------------------------------------------------
(* The theorems *)

\* The invariant is inductive, relative to the types.
LEMMA NextOrder == Orderly /\ TypeOK /\ OrderInv /\ [Next]_vars => OrderInv'
<1> SUFFICES ASSUME Orderly, TypeOK, OrderInv, [Next]_vars PROVE OrderInv'
  OBVIOUS
<1>1. CASE PushVolatile
  BY <1>1, PushVolatileOrder
<1>2. CASE \E kind \in TxKind, preBoot \in -1..cuts : PushTx(kind, preBoot)
  BY <1>2, PushTxOrder
<1>3. CASE \/ \E error \in BOOLEAN : Send(error)
           \/ Disconnect
           \/ Receive
           \/ \E late \in SUBSET Expirable : Expire(late)
           \/ UNCHANGED vars
  BY <1>3, ConnectionOrder
<1>4. CASE DropStep
  BY <1>4, DropHeadOrder, DropTailOrder, EndDropOrder DEF DropStep
<1>5. CASE PopStep
  BY <1>5, EraseFileOrder, SaveBeginOrder, FetchCachedOrder, FetchFlashOrder, FetchFailsOrder
     DEF PopStep
<1>6. CASE PowerCut \/ Panic
  BY <1>6, LoseRamOrder DEF PowerCut, Panic
<1>7. CASE Restart
  BY <1>7, BootOrder DEF Restart
<1> QED
  BY <1>1, <1>2, <1>3, <1>4, <1>5, <1>6, <1>7 DEF Next

THEOREM OrderInvariant ==
    ASSUME Orderly
    PROVE  Spec => [](TypeOK /\ OrderInv)
<1>1. Init => TypeOK /\ OrderInv
  BY InitType, InitOrder
<1>2. TypeOK /\ OrderInv /\ [Next]_vars => (TypeOK /\ OrderInv)'
  BY NextType, NextOrder
<1> QED
  BY <1>1, <1>2, PTL DEF Spec

\* No transaction request that was stored is lost: until it is answered or given up, the scan a
\* boot would start at this moment finds its op file, however often the op numbers wrapped
\* around and wherever power cuts interrupted the handlers.
THEOREM NothingLost ==
    ASSUME Orderly
    PROVE  Spec => []NoLoss
<1>1. TypeOK /\ OrderInv => NoLoss
  <2> SUFFICES ASSUME TypeOK, OrderInv PROVE NoLoss
    OBVIOUS
  <2>1. CASE pc = "off"
    BY <2>1, RingReach DEF OrderInv, Ring
  <2>2. CASE pc # "off"
    <3>1. InUse \in Nat
      BY RamTypes, RingType
    <3>2. InUse \in 0..MaxPending /\ Gapless(InUse)
      BY <2>2, <3>1, Sizes DEF OrderInv, Ring
    <3>3. PICK k \in 0..MaxPending : Gapless(k)
      BY <3>2
    <3> QED
      BY <3>3, RingReach
  <2> QED
    BY <2>1, <2>2
<1> QED
  BY <1>1, OrderInvariant, PTL

\* No stored request is in RAM twice: a pop never loads a request from flash of which the cache
\* holds a copy, and so none is sent, and then answered, a second time.
THEOREM NeverTwin ==
    ASSUME Orderly
    PROVE  Spec => []NoTwin
<1>1. TypeOK /\ OrderInv => NoTwin
  <2> SUFFICES ASSUME TypeOK, OrderInv PROVE NoTwin
    OBVIOUS
  <2>1. ASSUME NEW i \in DOMAIN tail, head.opNr >= 0
        PROVE  tail[i].opNr # head.opNr
    <3>1. head # NoReq
      BY <2>1 DEF NoReq
    <3>2. head.opNr = opBegin /\ ~CacheHit
      BY <2>1, <3>1 DEF OrderInv, HeadOldest, TailOrder
    <3> QED
      BY <3>2 DEF CacheHit
  <2>2. ASSUME NEW i \in DOMAIN tail, NEW j \in DOMAIN tail, i # j, tail[i].opNr >= 0,
               tail[i].opNr = tail[j].opNr
        PROVE  FALSE
    <3>1. i \in Int /\ j \in Int /\ tail[i].opNr \in OpNr
      BY <2>2, RamTypes
    <3>2. Distance(opBegin, tail[i].opNr) \in Int
      <4>1. opBegin \in OpNr
        BY DEF TypeOK
      <4>2. Distance(opBegin, tail[i].opNr) \in OpNr
        BY <3>1, <4>1, RoundTrip
      <4> QED
        BY <4>2, Sizes DEF OpNr
    <3>3. i < j \/ j < i
      BY <2>2, <3>1
    <3> QED
      BY <2>2, <3>2, <3>3 DEF OrderInv, TailOrder, Ordered
  <2> QED
    BY <2>1, <2>2 DEF NoTwin
<1> QED
  BY <1>1, OrderInvariant, PTL

\* The server sees the stored requests in the order in which they were pushed: when one reaches
\* it for the first time, every stored one pushed before was answered or given up, over
\* evictions from the cache and over resets.
THEOREM InOrder ==
    ASSUME Orderly
    PROVE  Spec => OldestFirst
<1> DEFINE Step ==
      \A s \in stored : (Received(s))' /\ ~Received(s)
            => \A t \in stored : t < s => t \in done \cup dropped
<1>1. TypeOK /\ OrderInv /\ [Next]_vars => [Step]_vars
  <2> SUFFICES ASSUME TypeOK, OrderInv, Next,
                      NEW s \in stored, (Received(s))', ~Received(s),
                      NEW t \in stored, t < s, t \notin done \cup dropped
               PROVE  FALSE
    OBVIOUS
  <2>1. srv' # srv
    BY DEF Received
  <2>2. PICK error \in BOOLEAN : Send(error)
    BY <2>1 DEF Next, PushVolatile, PushTx, Disconnect, Receive, Expire, DropStep, DropHead,
          DropTail, EndDrop, PopStep, EraseFile, SaveBegin, FetchCached, SkipToCached,
          FetchFlash, FetchFails, PowerCut, Panic, LoseRam, Restart, Boot, history
  <2>3. head # NoReq /\ srv' = Append(srv, head.seq) /\ pc = "idle" /\ srv \in Seq(Nat)
        /\ head.seq \in Nat
    BY <2>1, <2>2 DEF Send, TypeOK, Request
  <2>4. s = head.seq
    BY <2>3 DEF Received
  <2>5. Cached(head) /\ (head.opNr >= 0 => head.opNr = opBegin) /\ head.opNr \in OpNr \cup {-1}
    BY <2>3, RamTypes DEF OrderInv, HeadOldest
  <2>6. head.opNr # -1
    BY <2>4, <2>5 DEF Cached
  <2>7. InFlash(head) /\ head.opNr = opBegin
    <3>1. InFlash(head)
      BY <2>5, <2>6 DEF Cached
    <3>2. head.opNr \in Nat
      BY <2>5, <2>6, RingType
    <3> QED
      BY <2>5, <3>1, <3>2
  <2>8. t \in Owed
    BY DEF Owed
  <2>9. InUse \in Nat /\ Gapless(InUse)
    BY <2>3, RamTypes, RingType DEF OrderInv, Ring
  <2>10. PICK d \in 0..(InUse - 1) : file[At(d)].seq = t
    BY <2>8, <2>9 DEF Gapless
  <2>11. file[At(0)].seq = s /\ 0 \in 0..(InUse - 1)
    <3>1. At(0) = opBegin
      BY RoundTrip DEF TypeOK
    <3> QED
      BY <2>4, <2>7, <2>9, <2>10, <3>1 DEF InFlash
  <2>12. s \in Nat /\ t \in Nat
    BY DEF TypeOK, Seqs
  <2>13. CASE d = 0
    BY <2>10, <2>11, <2>12, <2>13
  <2>14. CASE d # 0
    <3>1. file[At(0)].seq < file[At(d)].seq
      BY <2>9, <2>11, <2>14 DEF Gapless
    <3> QED
      BY <2>10, <2>11, <2>12, <3>1
  <2> QED
    BY <2>13, <2>14
<1> QED
  BY <1>1, OrderInvariant, PTL DEF OldestFirst, Spec

-----------------------------------------------------------------------------
(* The outbox *)

\* The outbox over all requests: unlike a run of the model checker, the proof sets no bound on
\* the number of pushes.
Order == INSTANCE Outbox WITH Message <- Seqs, out <- OwedInOrder

-----------------------------------------------------------------------------
(* Numbers in order *)

Below(S, s) == {t \in S : t < s}

\* The elements of a finite set of numbers, smallest first; OwedInOrder is one of these.
Sorted(S) ==
    [i \in 1..Cardinality(S) |-> CHOOSE s \in S : Cardinality({t \in S : t < s}) = i - 1]

\* Of two numbers in a set, the smaller one has fewer below it.
LEMMA RankGrows ==
    ASSUME NEW S \in SUBSET Nat, IsFiniteSet(S), NEW s \in S, NEW t \in S, s < t
    PROVE  /\ Cardinality(Below(S, s)) \in Nat
           /\ Cardinality(Below(S, s)) < Cardinality(Below(S, t))
           /\ Cardinality(Below(S, t)) < Cardinality(S)
<1>1. /\ Below(S, s) \in SUBSET Below(S, t) /\ Below(S, t) \in SUBSET S
      /\ s \in Below(S, t) /\ s \notin Below(S, s) /\ t \notin Below(S, t)
  <2>1. \A u \in Nat : u < s => u < t
    OBVIOUS
  <2>2. Below(S, s) \subseteq Below(S, t)
    BY <2>1 DEF Below
  <2>3. s \in Below(S, t) /\ s \notin Below(S, s) /\ t \notin Below(S, t)
    BY DEF Below
  <2>4. Below(S, t) \subseteq S
    BY DEF Below
  <2> QED
    BY <2>2, <2>3, <2>4
<1>2. IsFiniteSet(Below(S, t)) /\ Cardinality(Below(S, t)) <= Cardinality(S)
  BY <1>1, FS_Subset
<1>3. Cardinality(Below(S, t)) # Cardinality(S)
  BY <1>1, FS_Subset
<1>4. /\ IsFiniteSet(Below(S, s)) /\ Cardinality(Below(S, s)) <= Cardinality(Below(S, t))
      /\ Cardinality(Below(S, s)) # Cardinality(Below(S, t))
  BY <1>1, <1>2, FS_Subset
<1>5. Cardinality(S) \in Nat /\ Cardinality(Below(S, s)) \in Nat /\ Cardinality(Below(S, t)) \in Nat
  BY <1>2, <1>4, FS_CardinalityType
<1> QED
  BY <1>2, <1>3, <1>4, <1>5

\* Every place is taken by exactly one element.
LEMMA Ranked ==
    ASSUME NEW S \in SUBSET Nat, IsFiniteSet(S)
    PROVE  /\ Cardinality(S) \in Nat
           /\ \A s \in S : Cardinality(Below(S, s)) \in 0..(Cardinality(S) - 1)
           /\ \A i \in 1..Cardinality(S) : \E s \in S : Cardinality(Below(S, s)) = i - 1
           /\ \A s, t \in S : Cardinality(Below(S, s)) = Cardinality(Below(S, t)) => s = t
<1> DEFINE n == Cardinality(S)
           f == [s \in S |-> Cardinality(Below(S, s))]
<1>1. n \in Nat
  BY FS_CardinalityType
<1>2. \A s \in S : Cardinality(Below(S, s)) \in 0..(n - 1)
  <2> SUFFICES ASSUME NEW s \in S
               PROVE  Cardinality(Below(S, s)) \in 0..(n - 1)
    OBVIOUS
  <2>1. Below(S, s) \in SUBSET S /\ Below(S, s) # S
    BY DEF Below
  <2>2. IsFiniteSet(Below(S, s)) /\ Cardinality(Below(S, s)) <= n
        /\ Cardinality(Below(S, s)) # n
    BY <2>1, FS_Subset
  <2>3. Cardinality(Below(S, s)) \in Nat
    BY <2>2, FS_CardinalityType
  <2> HIDE DEF n
  <2> QED
    BY <1>1, <2>2, <2>3
<1>3. \A s, t \in S : Cardinality(Below(S, s)) = Cardinality(Below(S, t)) => s = t
  <2> SUFFICES ASSUME NEW s \in S, NEW t \in S,
                      Cardinality(Below(S, s)) = Cardinality(Below(S, t)), s # t
               PROVE  FALSE
    OBVIOUS
  <2>1. s < t \/ t < s
    OBVIOUS
  <2> QED
    BY <2>1, RankGrows
<1>4. f \in Injection(S, 0..(n - 1))
  <2> HIDE DEF n
  <2> QED
    BY <1>2, <1>3 DEF Injection, IsInjective
<1>5. IsFiniteSet(0..(n - 1)) /\ Cardinality(0..(n - 1)) = n
  <2>1. /\ IsFiniteSet(0..(n - 1))
        /\ Cardinality(0..(n - 1)) = IF 0 > n - 1 THEN 0 ELSE (n - 1) - 0 + 1
    BY <1>1, FS_Interval
  <2> HIDE DEF n
  <2> QED
    BY <1>1, <2>1
<1>6. f \in Surjection(S, 0..(n - 1))
  <2> HIDE DEF f
  <2> QED
    BY <1>4, <1>5, FS_Injection
<1>7. \A i \in 1..n : \E s \in S : Cardinality(Below(S, s)) = i - 1
  <2> SUFFICES ASSUME NEW i \in 1..n
               PROVE  \E s \in S : Cardinality(Below(S, s)) = i - 1
    OBVIOUS
  <2>1. i - 1 \in 0..(n - 1)
    BY <1>1
  <2>2. \E s \in S : f[s] = i - 1
    <3> HIDE DEF f
    <3> QED
      BY <1>6, <2>1 DEF Surjection
  <2> QED
    BY <2>2
<1> QED
  BY <1>1, <1>2, <1>3, <1>7

\* So the element at a place is the one with as many below it.
LEMMA SortedAt ==
    ASSUME NEW S \in SUBSET Nat, IsFiniteSet(S)
    PROVE  /\ Sorted(S) \in Seq(S) /\ Len(Sorted(S)) = Cardinality(S)
           /\ \A i \in 1..Cardinality(S), s \in S :
                 Cardinality(Below(S, s)) = i - 1 => Sorted(S)[i] = s
<1> DEFINE n == Cardinality(S)
<1>1. n \in Nat
  BY Ranked
<1>2. ASSUME NEW i \in 1..n
      PROVE  /\ Sorted(S)[i] \in S
             /\ \A s \in S : Cardinality(Below(S, s)) = i - 1 => Sorted(S)[i] = s
  <2> DEFINE c == CHOOSE s \in S : Cardinality(Below(S, s)) = i - 1
  <2>1. Sorted(S)[i] = c
    BY DEF Sorted, Below
  <2>2. \E s \in S : Cardinality(Below(S, s)) = i - 1
    BY Ranked
  <2>3. c \in S /\ Cardinality(Below(S, c)) = i - 1
    BY <2>2
  <2> HIDE DEF c
  <2>4. \A s \in S : Cardinality(Below(S, s)) = i - 1 => s = c
    BY <2>3, Ranked
  <2> QED
    BY <2>1, <2>3, <2>4
<1>3. Sorted(S) \in [1..n -> S]
  BY <1>2 DEF Sorted
<1> HIDE DEF n
<1>4. Sorted(S) \in Seq(S) /\ Len(Sorted(S)) = n
  BY <1>1, <1>3, SeqDef
<1> QED
  BY <1>2, <1>4 DEF n

\* A number larger than all others comes last ...
LEMMA SortedAdd ==
    ASSUME NEW S \in SUBSET Nat, IsFiniteSet(S), NEW m \in Nat, \A s \in S : s < m
    PROVE  /\ Sorted(S \cup {m}) = Append(Sorted(S), m)
           /\ \A i \in DOMAIN Sorted(S) : Sorted(S)[i] < m
<1> DEFINE T == S \cup {m}
           n == Cardinality(S)
<1>1. n \in Nat /\ m \notin S /\ T \in SUBSET Nat
  BY Ranked
<1>2. IsFiniteSet(T) /\ Cardinality(T) = n + 1
  BY <1>1, FS_AddElement
<1>3. Below(T, m) = S /\ \A s \in S : Below(T, s) = Below(S, s)
  <2>1. ~(m < m) /\ \A s \in S : ~(m < s)
    OBVIOUS
  <2>2. Below(T, m) = S
    BY <2>1 DEF Below
  <2>3. \A s \in S : Below(T, s) = Below(S, s)
    BY <2>1 DEF Below
  <2> QED
    BY <2>2, <2>3
<1>4. Sorted(S) \in Seq(S) /\ Len(Sorted(S)) = n /\ Sorted(T) \in Seq(T) /\ Len(Sorted(T)) = n + 1
  BY <1>1, <1>2, SortedAt
<1>5. Append(Sorted(S), m) \in Seq(T) /\ Len(Append(Sorted(S), m)) = n + 1
  BY <1>4
<1>6. \A i \in 1..n : Sorted(S)[i] \in S /\ Append(Sorted(S), m)[i] = Sorted(S)[i]
  BY <1>4
<1>7. \A i \in 1..n : Sorted(T)[i] = Sorted(S)[i]
  <2> SUFFICES ASSUME NEW i \in 1..n
               PROVE  Sorted(T)[i] = Sorted(S)[i]
    OBVIOUS
  <2>1. PICK s \in S : Cardinality(Below(S, s)) = i - 1
    BY Ranked
  <2>2. Sorted(S)[i] = s
    BY <2>1, SortedAt
  <2>3. i \in 1..Cardinality(T)
    BY <1>1, <1>2
  <2>4. s \in T /\ Cardinality(Below(T, s)) = i - 1
    BY <1>3, <2>1
  <2> HIDE DEF T
  <2>5. Sorted(T)[i] = s
    BY <1>1, <1>2, <2>3, <2>4, SortedAt
  <2> QED
    BY <2>2, <2>5
<1>8. Sorted(T)[n + 1] = m
  <2>1. n + 1 \in 1..Cardinality(T) /\ m \in T /\ Cardinality(Below(T, m)) = (n + 1) - 1
    BY <1>1, <1>2, <1>3
  <2> HIDE DEF T, n
  <2> QED
    BY <1>1, <1>2, <2>1, SortedAt
<1>9. Append(Sorted(S), m)[n + 1] = m
  BY <1>4
<1>10. Sorted(T) = Append(Sorted(S), m)
  <2> HIDE DEF T, n
  <2>1. \A i \in 1..(n + 1) : Sorted(T)[i] = Append(Sorted(S), m)[i]
    <3> SUFFICES ASSUME NEW i \in 1..(n + 1)
                 PROVE  Sorted(T)[i] = Append(Sorted(S), m)[i]
      OBVIOUS
    <3>1. i \in 1..n \/ i = n + 1
      BY <1>1
    <3> QED
      BY <1>6, <1>7, <1>8, <1>9, <3>1
  <2> QED
    BY <1>4, <1>5, <2>1, SeqEqual
<1>11. \A i \in DOMAIN Sorted(S) : Sorted(S)[i] < m
  <2>1. DOMAIN Sorted(S) = 1..n
    BY <1>4
  <2> QED
    BY <1>6, <2>1
<1> QED
  BY <1>10, <1>11

\* ... and the smallest one comes first.
LEMMA SortedRemove ==
    ASSUME NEW S \in SUBSET Nat, IsFiniteSet(S), NEW m \in S, \A s \in S : m <= s
    PROVE  Sorted(S) # <<>> /\ Sorted(S \ {m}) = Tail(Sorted(S))
<1> DEFINE T == S \ {m}
           n == Cardinality(S)
<1>1. n \in Nat /\ T \in SUBSET Nat
  BY Ranked
<1>2. IsFiniteSet(T) /\ Cardinality(T) = n - 1
  BY FS_RemoveElement
<1>3. n > 0
  <2>1. Cardinality(T) \in Nat
    BY <1>2, FS_CardinalityType
  <2> HIDE DEF T, n
  <2> QED
    BY <1>1, <1>2, <2>1
<1>4. Sorted(S) \in Seq(S) /\ Len(Sorted(S)) = n /\ Sorted(T) \in Seq(T) /\ Len(Sorted(T)) = n - 1
  BY <1>1, <1>2, SortedAt
<1>5. Sorted(S) # <<>>
  BY <1>3, <1>4
<1>6. \A i \in 1..(n - 1) : Tail(Sorted(S))[i] = Sorted(S)[i + 1]
  <2> HIDE DEF n
  <2> QED
    BY <1>4, <1>5
<1>7. Tail(Sorted(S)) \in Seq(S) /\ Len(Tail(Sorted(S))) = n - 1
  <2> HIDE DEF n
  <2> QED
    BY <1>4, <1>5
<1>8. \A s \in T : Cardinality(Below(S, s)) = Cardinality(Below(T, s)) + 1
  <2> SUFFICES ASSUME NEW s \in T
               PROVE  Cardinality(Below(S, s)) = Cardinality(Below(T, s)) + 1
    OBVIOUS
  <2>1. Below(S, s) = Below(T, s) \cup {m} /\ m \notin Below(T, s)
    BY DEF Below
  <2>2. IsFiniteSet(Below(T, s))
    <3>1. Below(T, s) \in SUBSET T
      BY DEF Below
    <3> QED
      BY <1>2, <3>1, FS_Subset
  <2> QED
    BY <2>1, <2>2, FS_AddElement
<1>9. \A i \in 1..(n - 1) : Sorted(T)[i] = Sorted(S)[i + 1]
  <2> SUFFICES ASSUME NEW i \in 1..(n - 1)
               PROVE  Sorted(T)[i] = Sorted(S)[i + 1]
    OBVIOUS
  <2>1. i \in 1..Cardinality(T) /\ i + 1 \in 1..n /\ (i + 1) - 1 = i /\ i \in Nat
    BY <1>1, <1>2
  <2> HIDE DEF T
  <2>2. PICK s \in T : Cardinality(Below(T, s)) = i - 1
    BY <1>1, <1>2, <2>1, Ranked
  <2>3. Sorted(T)[i] = s
    BY <1>1, <1>2, <2>1, <2>2, SortedAt
  <2>4. Cardinality(Below(S, s)) = (i + 1) - 1
    BY <1>8, <2>1, <2>2
  <2>5. s \in S
    BY DEF T
  <2>6. Sorted(S)[i + 1] = s
    BY <2>1, <2>4, <2>5, SortedAt
  <2> QED
    BY <2>3, <2>6
<1>10. Sorted(T) \in Seq(S)
  <2>1. T \subseteq S
    OBVIOUS
  <2> HIDE DEF T, n
  <2>2. n - 1 \in Nat
    BY <1>1, <1>3
  <2>3. Sorted(T) \in [1..(n - 1) -> T]
    BY <1>4
  <2>4. Sorted(T) \in [1..(n - 1) -> S]
    BY <2>1, <2>3
  <2> QED
    BY <2>2, <2>4, SeqDef
<1> HIDE DEF T, n
<1>11. Sorted(T) = Tail(Sorted(S))
  BY <1>4, <1>6, <1>7, <1>9, <1>10, SeqEqual
<1> QED
  BY <1>5, <1>11 DEF T

-----------------------------------------------------------------------------
(* What was sent, answered and given up *)

\* A stored request that is only cached was never sent, for a boot empties the cache and only
\* the head is sent; and nothing was sent or given up that was not pushed before.
SentInv ==
    /\ \A r \in Entries : r.opNr >= 0 => ~Received(r.seq)
    /\ \A i \in DOMAIN srv : srv[i] \in 1..pushed
    /\ dropped \subseteq 1..pushed

\* A step that sends nothing and caches nothing new.
LEMMA SentKept ==
    ASSUME TypeOK, SentInv, Entries' \subseteq Entries, srv' = srv, pushed' = pushed,
           dropped' \subseteq dropped \cup (1..pushed)
    PROVE  SentInv'
<1>1. \A s : Received(s)' = Received(s)
  BY DEF Received
<1>2. \A r \in Entries' : r.opNr >= 0 => ~Received(r.seq)'
  BY <1>1 DEF SentInv
<1>3. \A i \in DOMAIN srv' : srv'[i] \in 1..pushed'
  BY DEF SentInv
<1>4. dropped' \subseteq 1..pushed'
  BY DEF SentInv
<1> QED
  BY <1>2, <1>3, <1>4 DEF SentInv

\* A push caches at most the new request, which nobody has sent.
LEMMA PushSent ==
    ASSUME TypeOK, SentInv, pushed' = pushed + 1, UNCHANGED <<srv, dropped>>,
           NEW r \in Request, r.seq = pushed + 1, Enqueue(r)
    PROVE  SentInv'
<1>1. pushed \in Nat /\ Entries' \subseteq Entries \cup {r}
  BY EnqueueEntries DEF TypeOK
<1>2. \A s : Received(s)' = Received(s)
  BY DEF Received
<1>3. ~Received(r.seq)
  BY <1>1 DEF SentInv, Received
<1>4. \A q \in Entries' : q.opNr >= 0 => ~Received(q.seq)'
  BY <1>1, <1>2, <1>3 DEF SentInv
<1>5. 1..pushed \subseteq 1..pushed'
  BY <1>1
<1>6. (\A i \in DOMAIN srv' : srv'[i] \in 1..pushed') /\ dropped' \subseteq 1..pushed'
  BY <1>5 DEF SentInv
<1> QED
  BY <1>4, <1>6 DEF SentInv

\* The head is sent; a stored request behind it is another one.
LEMMA SendSent ==
    ASSUME TypeOK, OrderInv, SentInv, NEW error \in BOOLEAN, Send(error)
    PROVE  SentInv'
<1>1. /\ pc = "idle" /\ head # NoReq /\ srv' \in {srv, Append(srv, head.seq)}
      /\ UNCHANGED <<tail, pushed, dropped>> /\ srv \in Seq(Nat) /\ head \in Request
  BY DEF Send, ram, bounds, TypeOK
<1>2. head.seq \in 1..pushed
  BY <1>1, CachedReal DEF OrderInv, HeadOldest
<1>3. \A i \in DOMAIN srv' : srv'[i] \in (1..pushed)
  <2>1. CASE srv' = srv
    BY <2>1 DEF SentInv
  <2>2. CASE srv' = Append(srv, head.seq)
    <3>1. head.seq \in Nat
      BY <1>1 DEF Request
    <3>2. \A i \in DOMAIN srv' : srv'[i] = head.seq \/ \E j \in DOMAIN srv : srv'[i] = srv[j]
      BY <1>1, <2>2, <3>1
    <3> QED
      BY <1>2, <3>2 DEF SentInv
  <2> QED
    BY <1>1, <2>1, <2>2
<1>4. \A s : Received(s)' => Received(s) \/ s = head.seq
  <2>1. CASE srv' = srv
    BY <2>1 DEF Received
  <2>2. CASE srv' = Append(srv, head.seq)
    <3>1. head.seq \in Nat
      BY <1>1 DEF Request
    <3>2. \A i \in DOMAIN srv' : srv'[i] = head.seq \/ \E j \in DOMAIN srv : srv'[i] = srv[j]
      BY <1>1, <2>2, <3>1
    <3> QED
      BY <3>2 DEF Received
  <2> QED
    BY <1>1, <2>1, <2>2
<1>5. ASSUME NEW r \in Entries, r.opNr >= 0
      PROVE  r.seq # head.seq
  <2>1. r \in Request /\ r.opNr \in OpNr /\ Cached(r) /\ Cached(head)
    BY <1>1, <1>5, RamTypes DEF OrderInv, TailOrder, HeadOldest, Entries
  <2>2. InFlash(r) /\ r.seq \in stored
    <3>1. r.opNr # -1
      BY <1>5
    <3>2. InFlash(r)
      BY <2>1, <3>1 DEF Cached
    <3>3. r # NoReq /\ r.seq \in stored
      BY <1>1, <1>5, <2>1, CachedReal
    <3> QED
      BY <3>2, <3>3
  <2>3. CASE head.opNr = -1
    BY <2>1, <2>2, <2>3 DEF Cached
  <2>4. CASE head.opNr # -1
    <3>1. head.opNr >= 0
      <4>1. head.opNr \in OpNr
        BY <2>4, RamTypes
      <4>2. head.opNr \in Nat
        BY <4>1, RingType
      <4> QED
        BY <4>2
    <3>2. InFlash(head) /\ head.opNr = opBegin /\ ~CacheHit
      BY <1>1, <2>1, <2>4, <3>1 DEF Cached, OrderInv, HeadOldest, TailOrder
    <3>3. r.opNr # opBegin
      BY <3>2 DEF CacheHit, Entries
    <3> DEFINE d == Distance(opBegin, r.opNr)
    <3>4. d \in OpNr /\ At(d) = r.opNr /\ d # 0 /\ At(0) = opBegin /\ d < InUse
      BY <2>1, <2>2, <3>3, RoundTrip DEF TypeOK, InFlash
    <3> HIDE DEF d
    <3>5. InUse \in Nat /\ Gapless(InUse)
      BY <1>1, RamTypes, RingType DEF OrderInv, Ring
    <3>6. 0 \in 0..(InUse - 1) /\ d \in 0..(InUse - 1) /\ 0 < d
      BY <3>4, <3>5, RingType
    <3>7. file[At(0)].seq < file[At(d)].seq
      BY <3>5, <3>6 DEF Gapless
    <3>8. head.seq < r.seq
      BY <2>2, <3>2, <3>4, <3>7 DEF InFlash
    <3> QED
      BY <1>1, <2>1, <3>8 DEF Request
  <2> QED
    BY <2>3, <2>4
<1>6. \A r \in Entries' : r.opNr >= 0 => ~Received(r.seq)'
  BY <1>1, <1>4, <1>5 DEF SentInv, Entries
<1> QED
  BY <1>1, <1>3, <1>6 DEF SentInv

LEMMA InitSent == Init => SentInv
<1> SUFFICES ASSUME Init PROVE SentInv
  OBVIOUS
<1>1. tail = <<>> /\ srv = <<>> /\ dropped = {}
  BY DEF Init
<1> QED
  BY <1>1 DEF SentInv, Entries

\* Every step keeps what was sent apart from what is only cached.
LEMMA NextSent == TypeOK /\ OrderInv /\ SentInv /\ [Next]_vars => SentInv'
<1> SUFFICES ASSUME TypeOK, OrderInv, SentInv, [Next]_vars PROVE SentInv'
  OBVIOUS
<1>1. CASE PushVolatile
  <2> DEFINE new == [seq |-> pushed + 1, kind |-> "other", opNr |-> -1, id |-> nextId]
  <2>1. /\ new \in Request /\ new.seq = pushed + 1 /\ Enqueue(new)
        /\ pushed' = pushed + 1 /\ UNCHANGED <<srv, dropped>>
    BY <1>1 DEF PushVolatile, TypeOK, Request, Kind, history
  <2> QED
    BY <2>1, PushSent
<1>2. ASSUME NEW kind \in TxKind, NEW preBoot \in -1..cuts, PushTx(kind, preBoot)
      PROVE  SentInv'
  <2> DEFINE new(n) == [seq |-> pushed + 1, kind |-> kind, opNr |-> n, id |-> nextId]
  <2>1. \A n \in OpNr \cup {-1} : new(n) \in Request /\ new(n).seq = pushed + 1
    BY DEF TypeOK, Request, Kind
  <2>2. /\ Enqueue(new(opEnd)) \/ Enqueue(new(-1))
        /\ pushed' = pushed + 1 /\ UNCHANGED <<srv, dropped>> /\ opEnd \in OpNr
    BY <1>2 DEF PushTx, TypeOK
  <2> HIDE DEF new
  <2> QED
    BY <2>1, <2>2, PushSent
<1>3. CASE \E error \in BOOLEAN : Send(error)
  BY <1>3, SendSent
<1>4. CASE \/ Disconnect
           \/ Receive
           \/ \E late \in SUBSET Expirable : Expire(late)
           \/ DropHead
           \/ EndDrop
           \/ EraseFile
           \/ SaveBegin
           \/ Restart
           \/ \E d \in OpNr : FetchFlash(d)
           \/ UNCHANGED vars
  <2>1. UNCHANGED <<tail, srv, pushed, dropped>>
    BY <1>4 DEF Disconnect, Receive, Expire, DropHead, EndDrop, EraseFile, SaveBegin,
          Restart, Boot, FetchFlash, vars, ram, bounds, history
  <2> QED
    BY <2>1, SentKept DEF Entries
<1>5. ASSUME NEW i \in DOMAIN tail, DropTail(i)
      PROVE  SentInv'
  <2>1. tail' = RemoveAt(tail, i) /\ UNCHANGED <<srv, pushed, dropped>>
    BY <1>5 DEF DropTail, bounds
  <2>2. Entries' \subseteq Entries
    <3>1. tail \in Seq(Request)
      BY DEF TypeOK
    <3>2. \A j \in DOMAIN RemoveAt(tail, i) : RemoveAt(tail, i)[j] \in Entries
      BY <3>1 DEF RemoveAt, Entries
    <3> QED
      BY <2>1, <3>2 DEF Entries
  <2> QED
    BY <2>1, <2>2, SentKept
<1>6. CASE FetchCached \/ SkipToCached
  <2>1. TakeCached /\ UNCHANGED <<srv, pushed, dropped>>
    BY <1>6 DEF FetchCached, SkipToCached, bounds, history
  <2>2. Ordered(opBegin, tail)
    BY DEF OrderInv, TailOrder
  <2>3. Entries' \subseteq Entries
    BY <2>1, <2>2, TakeCachedOrder
  <2> QED
    BY <2>1, <2>3, SentKept
<1>7. ASSUME NEW d \in OpNr, FetchFails(d)
      PROVE  SentInv'
  <2>1. /\ pc = "fetch" /\ d < InUse /\ FirstStored(d) /\ dropped' = dropped \cup {file[At(d)].seq}
        /\ UNCHANGED <<tail, srv, pushed>>
    BY <1>7 DEF FetchFails, bounds
  <2>2. d = 0 /\ InUse > 0
    BY <2>1, FetchState
  <2>3. file[At(d)].seq \in 1..pushed
    BY <2>1, <2>2, OldestStored DEF OrderInv, Volatile
  <2> QED
    BY <2>1, <2>3, SentKept DEF Entries
<1>8. CASE PowerCut \/ Panic
  <2>1. tail' = <<>> /\ UNCHANGED <<srv, pushed, dropped>>
    BY <1>8 DEF PowerCut, Panic, LoseRam, history
  <2> QED
    BY <2>1, SentKept DEF Entries
<1> QED
  BY <1>1, <1>2, <1>3, <1>4, <1>5, <1>6, <1>7, <1>8 DEF Next, DropStep, PopStep

-----------------------------------------------------------------------------
(* The refinement *)

OutboxInv == TypeOK /\ QueueInv /\ OrderInv /\ NameInv /\ SentInv

\* Only a request with an op file is owed, and none of the others is pushed yet.
LEMMA OwedFinite ==
    ASSUME OutboxInv
    PROVE  /\ Owed \in SUBSET Nat /\ IsFiniteSet(Owed)
           /\ pushed \in Nat
           /\ stored \subseteq 1..pushed /\ done \subseteq 1..pushed /\ dropped \subseteq 1..pushed
<1>1. pushed \in Nat /\ stored \subseteq 1..pushed /\ dropped \subseteq 1..pushed
  BY DEF OutboxInv, TypeOK, OrderInv, Volatile, SentInv
<1>2. done \subseteq 1..pushed
  BY DEF OutboxInv, NameInv, Justified
<1>3. IsFiniteSet(1..pushed)
  BY <1>1, FS_Interval
<1>4. Owed \in SUBSET (1..pushed)
  BY <1>1 DEF Owed
<1>5. IsFiniteSet(Owed)
  BY <1>3, <1>4, FS_Subset
<1>6. Owed \in SUBSET Nat
  BY <1>1, <1>4
<1> QED
  BY <1>1, <1>2, <1>5, <1>6

\* The file at opBegin belongs to the oldest of the owed requests, if it is owed.
LEMMA OldestOwed ==
    ASSUME TypeOK, OrderInv, pc # "off", InUse > 0, NEW s \in Owed
    PROVE  file[opBegin].seq <= s
<1>1. InUse \in Nat /\ Gapless(InUse) /\ At(0) = opBegin
  BY RamTypes, RingType, OldestStored DEF OrderInv, Ring
<1>2. PICK d \in 0..(InUse - 1) : file[At(d)].seq = s
  BY <1>1 DEF Gapless
<1>3. s \in Nat /\ file[opBegin].seq \in Nat
  BY OldestStored DEF TypeOK, Owed, Seqs
<1>4. CASE d = 0
  BY <1>1, <1>2, <1>3, <1>4
<1>5. CASE d # 0
  <2>1. 0 \in 0..(InUse - 1) /\ 0 < d
    BY <1>1, <1>2, <1>5
  <2>2. file[At(0)].seq < file[At(d)].seq
    BY <1>1, <1>2, <2>1 DEF Gapless
  <2> QED
    BY <1>1, <1>2, <1>3, <2>2
<1> QED
  BY <1>4, <1>5

\* What a step may do to the set of owed requests.
Entered == \E m \in Seqs : (\A s \in Owed : s < m) /\ Owed' = Owed \cup {m}
Left == \E m \in Owed : (\A s \in Owed : m <= s) /\ Owed' = Owed \ {m}

\* A stored request enters the outbox when it is pushed, behind all others.
LEMMA PushOwed ==
    ASSUME Orderly, OutboxInv, NEW kind \in TxKind, NEW preBoot, PushTx(kind, preBoot)
    PROVE  Entered
<1>1. writeFails \in Nat /\ MaxWriteFails = 0
  BY DEF OutboxInv, TypeOK, Orderly
<1>2. ~(writeFails < MaxWriteFails)
  BY <1>1
<1>3. stored' = stored \cup {pushed + 1} /\ done' = done /\ dropped' = dropped
  BY <1>2 DEF PushTx
<1>4. /\ pushed \in Nat
      /\ stored \subseteq 1..pushed /\ done \subseteq 1..pushed /\ dropped \subseteq 1..pushed
  BY OwedFinite
<1>5. pushed + 1 \in Seqs /\ pushed + 1 \notin done \cup dropped
  BY <1>4 DEF Seqs
<1>6. Owed' = Owed \cup {pushed + 1}
  BY <1>3, <1>5 DEF Owed
<1>7. \A s \in Owed : s < pushed + 1
  BY <1>4 DEF Owed
<1> QED
  BY <1>5, <1>6, <1>7 DEF Entered

\* It leaves the outbox when it is answered as the head, and then it is the oldest ...
LEMMA DropHeadOwed ==
    ASSUME OutboxInv, DropHead
    PROVE  Left \/ UNCHANGED Owed
<1>1. /\ head # NoReq /\ pc = "drop" /\ stored' = stored /\ dropped' = dropped
      /\ done' = done \/ done' = done \cup {head.seq}
  BY DEF DropHead, Finish
<1>2. CASE head.seq \notin Owed \/ done' = done
  BY <1>1, <1>2 DEF Owed
<1>3. CASE head.seq \in Owed /\ done' # done
  <2>1. Owed' = Owed \ {head.seq}
    BY <1>1, <1>3 DEF Owed
  <2>2. TypeOK /\ OrderInv /\ Cached(head) /\ (head.opNr >= 0 => head.opNr = opBegin)
    BY <1>1 DEF OutboxInv, OrderInv, HeadOldest
  <2>3. head.opNr # -1
    BY <1>3, <2>2 DEF Cached, Owed
  <2>4. head.opNr \in Nat
    BY <2>2, <2>3, RamTypes, RingType
  <2>5. head.opNr = opBegin /\ InFlash(head)
    BY <2>2, <2>3, <2>4 DEF Cached
  <2>6. file[opBegin].seq = head.seq /\ InUse > 0
    <3>1. Distance(opBegin, opBegin) = 0
      BY <2>2, RoundTrip DEF TypeOK
    <3> QED
      BY <2>5, <3>1 DEF InFlash
  <2>7. \A s \in Owed : head.seq <= s
    BY <1>1, <2>2, <2>6, OldestOwed
  <2> QED
    BY <1>3, <2>1, <2>7 DEF Left
<1> QED
  BY <1>2, <1>3

\* A stored request in the cache, which was never sent, takes the answer to a request that another
\* boot gave the same message ID, and leaves the outbox out of turn.  This needs a reset before.
Stolen ==
    \E i \in DOMAIN tail :
        /\ DropTail(i) /\ handling.by = "answer" /\ cuts > 0
        /\ ~Received(tail[i].seq)
        /\ \E t \in DOMAIN named : Received(t) /\ SameName(tail[i].seq, t)
        /\ Owed' = Owed \ {tail[i].seq}

\* ... no other answer is for a stored request in the cache ...
LEMMA DropTailOwed ==
    ASSUME OutboxInv, NEW i \in DOMAIN tail, DropTail(i)
    PROVE  Stolen \/ UNCHANGED Owed
<1> DEFINE r == tail[i]
<1>1. /\ Matches(r) /\ stored' = stored /\ dropped' = dropped /\ pc = "drop"
      /\ handling.by = "answer" \/ done' = done
      /\ done' = done \/ done' = done \cup {r.seq}
  BY DEF DropTail, Finish, ctl
<1>2. CASE done' = done
  BY <1>1, <1>2 DEF Owed
<1>3. CASE done' # done
  <2>1. TypeOK /\ NameInv /\ r \in Queued /\ r \in Entries /\ r \in Request
    BY RamTypes DEF OutboxInv, Queued, Entries
  <2>2. r # NoReq
    BY DEF OutboxInv, QueueInv, RealRequests, NoReq
  <2>3. handling.by = "answer" /\ done' = done \cup {r.seq}
    BY <1>1, <1>3
  <2>4. Owed' = Owed \ {r.seq}
    BY <1>1, <2>3 DEF Owed
  <2>5. Justified(r.seq)
    <3> HIDE DEF r
    <3> QED
      BY <1>1, <2>1, <2>2, <2>3, MatchJustified
  <2>6. CASE Received(r.seq)
    <3>1. ~(r.opNr >= 0) /\ r.opNr \in OpNr \cup {-1}
      BY <2>1, <2>6 DEF OutboxInv, SentInv, Request
    <3>2. r.opNr = -1
      <4>1. r.opNr \in OpNr => r.opNr \in Nat
        BY RingType
      <4>2. r.opNr \in Nat => r.opNr >= 0
        OBVIOUS
      <4> QED
        BY <3>1, <4>1, <4>2
    <3>3. r.seq \notin stored
      BY <2>1, <3>2 DEF OutboxInv, OrderInv, TailOrder, Cached
    <3> QED
      BY <1>1, <2>4, <3>3 DEF Owed
  <2>7. CASE ~Received(r.seq)
    <3>1. PICK t \in 1..pushed : Received(t) /\ SameName(r.seq, t)
      BY <2>5, <2>7 DEF Justified
    <3>2. r.seq \in 1..pushed /\ DOMAIN named = 1..pushed
      BY <2>1, <2>5 DEF Justified, NameInv, TypeOK
    <3>3. named[r.seq].boot # named[t].boot
      BY <3>1 DEF SameName
    <3>4. cuts > 0
      <4>1. /\ named[r.seq].boot \in Nat /\ named[t].boot \in Nat
            /\ named[r.seq].boot <= cuts /\ named[t].boot <= cuts
        <5>1. named[r.seq] \in Name /\ named[t] \in Name
          BY <2>1, <3>2 DEF TypeOK
        <5> QED
          BY <2>1, <3>2, <5>1 DEF Name, NameInv, OncePerBoot
      <4>2. cuts \in Nat
        BY <2>1 DEF TypeOK
      <4> QED
        BY <3>3, <4>1, <4>2
    <3> QED
      BY <2>3, <2>4, <2>7, <3>1, <3>2, <3>4 DEF Stolen
  <2> QED
    BY <2>6, <2>7
<1> QED
  BY <1>2, <1>3

\* ... or when its restore fails, and then it is the oldest in flash.
LEMMA FetchFailsOwed ==
    ASSUME OutboxInv, NEW d \in OpNr, FetchFails(d)
    PROVE  Left \/ UNCHANGED Owed
<1>1. /\ pc = "fetch" /\ d < InUse /\ FirstStored(d) /\ dropped' = dropped \cup {file[At(d)].seq}
      /\ stored' = stored /\ done' = done /\ TypeOK /\ OrderInv
  BY DEF FetchFails, OutboxInv
<1>2. d = 0 /\ InUse > 0 /\ At(0) = opBegin
  BY <1>1, FetchState, RoundTrip DEF TypeOK
<1>3. Owed' = Owed \ {file[opBegin].seq}
  BY <1>1, <1>2 DEF Owed
<1>4. \A s \in Owed : file[opBegin].seq <= s
  BY <1>1, <1>2, OldestOwed
<1> QED
  BY <1>3, <1>4 DEF Left

\* No other step changes what is owed.
LEMMA OwedStep ==
    Orderly /\ OutboxInv /\ [Next]_vars => Entered \/ Left \/ Stolen \/ UNCHANGED Owed
<1> SUFFICES ASSUME Orderly, OutboxInv, [Next]_vars
             PROVE  Entered \/ Left \/ Stolen \/ UNCHANGED Owed
  OBVIOUS
<1>1. CASE \E kind \in TxKind, preBoot \in -1..cuts : PushTx(kind, preBoot)
  BY <1>1, PushOwed
<1>2. CASE DropHead
  BY <1>2, DropHeadOwed
<1>3. CASE \E i \in DOMAIN tail : DropTail(i)
  BY <1>3, DropTailOwed
<1>4. CASE \E d \in OpNr : FetchFails(d)
  BY <1>4, FetchFailsOwed
<1>5. CASE \/ PushVolatile
           \/ \E error \in BOOLEAN : Send(error)
           \/ Disconnect
           \/ Receive
           \/ \E late \in SUBSET Expirable : Expire(late)
           \/ EndDrop
           \/ EraseFile \/ SaveBegin
           \/ FetchCached \/ SkipToCached
           \/ \E d \in OpNr : FetchFlash(d)
           \/ PowerCut
           \/ Panic
           \/ Restart
           \/ UNCHANGED vars
  BY <1>5 DEF PushVolatile, Send, Disconnect, Receive, Expire, EndDrop, EraseFile, SaveBegin,
       FetchCached, SkipToCached, FetchFlash, PowerCut, Panic, LoseRam, Restart, Boot,
       vars, history, Owed
<1> QED
  BY <1>1, <1>2, <1>3, <1>4, <1>5 DEF Next, DropStep, PopStep

\* An outbox step.
LEMMA OutboxStep ==
    ASSUME OutboxInv, Entered \/ Left \/ UNCHANGED Owed
    PROVE  [Order!Next]_OwedInOrder
<1>1. OwedInOrder = Sorted(Owed) /\ OwedInOrder' = Sorted(Owed')
  BY DEF OwedInOrder, Sorted
<1>2. Owed \in SUBSET Nat /\ IsFiniteSet(Owed)
  BY OwedFinite
<1>3. ASSUME Entered PROVE Order!Put
  <2>1. PICK m \in Seqs : (\A s \in Owed : s < m) /\ Owed' = Owed \cup {m}
    BY <1>3 DEF Entered
  <2>2. m \in Nat
    BY DEF Seqs
  <2>3. /\ Sorted(Owed') = Append(Sorted(Owed), m)
        /\ \A i \in DOMAIN Sorted(Owed) : Sorted(Owed)[i] < m
    BY <1>2, <2>1, <2>2, SortedAdd
  <2> QED
    BY <1>1, <2>3 DEF Order!Put
<1>4. ASSUME Left PROVE Order!Take
  <2>1. PICK m \in Owed : (\A s \in Owed : m <= s) /\ Owed' = Owed \ {m}
    BY <1>4 DEF Left
  <2>2. Sorted(Owed) # <<>> /\ Sorted(Owed') = Tail(Sorted(Owed))
    BY <1>2, <2>1, SortedRemove
  <2> QED
    BY <1>1, <2>2 DEF Order!Take
<1>5. ASSUME UNCHANGED Owed PROVE UNCHANGED OwedInOrder
  BY <1>1, <1>5
<1> QED
  BY <1>3, <1>4, <1>5 DEF Order!Next

\* The stored transaction requests are a first-in first-out outbox: whatever resets, evictions,
\* retries and lost answers do, a step of the queue lets the youngest one enter at the end or
\* the oldest one leave, or does not show.  The one exception is the code's: after a reset, an
\* answer to a request of another boot with the same message ID can take one out of turn.  (That
\* each one leaves is left to the model checker.)
THEOREM FifoOutbox ==
    ASSUME Orderly
    PROVE  Spec => Order!Init /\ [][Order!Next \/ Stolen]_OwedInOrder
<1>1. Init => OutboxInv /\ Order!Init
  <2> SUFFICES ASSUME Init PROVE OutboxInv /\ Order!Init
    OBVIOUS
  <2>1. OutboxInv
    BY InitType, InitQueueInv, InitOrder, InitName, InitSent DEF OutboxInv
  <2>2. Owed = {}
    BY DEF Init, Owed
  <2>3. OwedInOrder = Sorted({})
    BY <2>2 DEF OwedInOrder, Sorted
  <2>4. Len(Sorted({})) = 0 /\ Sorted({}) \in Seq({})
    BY SortedAt, FS_EmptySet
  <2> QED
    BY <2>1, <2>3, <2>4 DEF Order!Init
<1>2. OutboxInv /\ [Next]_vars => OutboxInv'
  BY NextType, NextQueueInv, NextOrder, NextName, NextSent DEF OutboxInv
<1>3. OutboxInv /\ [Next]_vars => [Order!Next \/ Stolen]_OwedInOrder
  <2> SUFFICES ASSUME OutboxInv, [Next]_vars
               PROVE  Stolen \/ [Order!Next]_OwedInOrder
    OBVIOUS
  <2> QED
    BY OwedStep, OutboxStep
<1> QED
  BY <1>1, <1>2, <1>3, PTL DEF Spec

-----------------------------------------------------------------------------
(* Failed writes *)

\* In all fewer op files cannot be written than the scan, and advanceOpNr, look across; the
\* history and the status notifications are as above; and no request pushed before can be taken
\* for one just ahead because the op numbers went a full turn since.
Tolerant ==
    /\ MaxWriteFails < MaxMisses /\ MaxWriteFails < SyncWindow
    /\ HistorySize > 0
    /\ StatusFirst
    /\ MaxTx + MaxPending + SyncWindow <= MaxOpNr

\* How far a slot lies ahead of opBegin; a slot in use may still be a hole, for the op number of
\* a failed write is consumed.
Ahead(n) == Distance(opBegin, n)
Live(n) == Ahead(n) < InUse
Holes(k) == {n \in OpNr : Ahead(n) < k /\ file[n] = NoFile}

\* Of the k op numbers from opBegin on no more are holes than writes have failed, and all that
\* is owed is among the others; behind them the ring is empty, up to the history.
Sparse(k) ==
    /\ \A n \in OpNr : Ahead(n) >= k /\ Ahead(n) < MaxOpNr - HistorySize => file[n] = NoFile
    /\ \A n \in OpNr : Ahead(n) < k /\ file[n] # NoFile => file[n].kind \in TxKind
    /\ \A s \in Owed : \E n \in OpNr : Ahead(n) < k /\ file[n].seq = s
    /\ Cardinality(Holes(k)) <= writeFails

SparseRing ==
    IF pc = "off" THEN \E k \in 0..MaxPending : Sparse(k)
                  ELSE InUse <= MaxPending /\ Sparse(InUse)

\* No op file lies before the slot n, or none at all is in use.
Nearest(n) == \A m \in OpNr : Ahead(m) < Ahead(n) => file[m] = NoFile
Vacant == \A n \in OpNr : Live(n) => file[n] = NoFile

\* A request in RAM got its op number not long ago; as long as opBegin has not passed it, its op
\* file is there.  Next to the one loaded from flash the cache may hold a second copy, which
\* opBegin then leaves behind.
InPlace(r) ==
    /\ r.opNr >= 0 =>
          /\ Distance(opEnd, r.opNr) >= MaxOpNr - MaxPending - txs
          /\ Live(r.opNr) => file[r.opNr].seq = r.seq /\ file[r.opNr] # NoFile
    /\ r.kind = "other" => r.seq \in 1..pushed \ stored

\* A head whose op file opBegin has not passed is the oldest request in flash.
HeadNearest ==
    head # NoReq =>
        /\ InPlace(head)
        /\ head.opNr >= 0 /\ Live(head.opNr) => Nearest(head.opNr)
        /\ pc \in {"idle", "drop"}
        /\ ~first

\* The head is empty only if nothing is in flash, before the first push of a boot and in
\* pop_front.
HeadVacant ==
    /\ head = NoReq /\ pc \in {"idle", "drop"} => first \/ Vacant
    /\ pc = "cached" => Vacant
    /\ pc = "off" => head = NoReq /\ tail = <<>> /\ first
    /\ first => pc \in {"off", "idle", "drop"} /\ head = NoReq

\* The cache is in the order of the op numbers, those left behind first.
TailPlaces ==
    /\ \A r \in Entries : InPlace(r)
    /\ Ordered(opEnd, tail)

\* advanceOpNr goes to the oldest request in flash, which is not owed any more, over holes only,
\* and empties as many slots of the history.
ErasingNearest ==
    pc = "erase" =>
        /\ Live(erase.upTo) /\ Nearest(erase.upTo)
        /\ file[erase.upTo].seq \notin Owed
        /\ \A n \in OpNr : Ahead(n) >= MaxOpNr - HistorySize
                           /\ Ahead(n) < MaxOpNr - HistorySize + erase.n => file[n] = NoFile
        /\ erase.then = "cached" => Ahead(erase.upTo) + 1 = InUse

\* Only requests without an op file time out, and the bounds are kept.
Within ==
    /\ handling.late \subseteq 1..pushed \ stored
    /\ stored \subseteq 1..pushed
    /\ txs <= MaxTx /\ writeFails <= MaxWriteFails

GapInv == SparseRing /\ HeadNearest /\ HeadVacant /\ TailPlaces /\ ErasingNearest /\ Within

-----------------------------------------------------------------------------
(* Distances around the ring *)

\* Distances are natural numbers, below the size of the ring; from opEnd instead of opBegin they
\* are shorter by the op numbers in use, modulo the ring.
LEMMA Around ==
    ASSUME TypeOK
    PROVE  /\ opBegin \in OpNr /\ opEnd \in OpNr /\ InUse \in Nat /\ InUse < MaxOpNr
           /\ Ahead(opEnd) = InUse
           /\ \A n \in OpNr :
                 /\ n \in Nat /\ n < MaxOpNr
                 /\ Ahead(n) \in Nat /\ Ahead(n) < MaxOpNr /\ At(Ahead(n)) = n
                 /\ Distance(opEnd, n) \in Nat /\ Distance(opEnd, n) < MaxOpNr
                 /\ Distance(opEnd, n) + InUse < MaxOpNr =>
                       Ahead(n) = Distance(opEnd, n) + InUse
                 /\ Distance(opEnd, n) + InUse >= MaxOpNr =>
                       Ahead(n) = Distance(opEnd, n) + InUse - MaxOpNr
<1>1. opBegin \in OpNr /\ opEnd \in OpNr
  BY DEF TypeOK
<1>2. \A n \in OpNr : n \in Nat /\ n < MaxOpNr
  BY Sizes DEF OpNr
<1>3. InUse = IF opEnd < opBegin THEN opEnd - opBegin + MaxOpNr ELSE opEnd - opBegin
  BY <1>1, DistanceIs DEF InUse
<1>4. ASSUME NEW n \in OpNr
      PROVE  /\ Ahead(n) = IF n < opBegin THEN n - opBegin + MaxOpNr ELSE n - opBegin
             /\ Distance(opEnd, n) = IF n < opEnd THEN n - opEnd + MaxOpNr ELSE n - opEnd
             /\ At(Ahead(n)) = n
  BY <1>1, <1>4, DistanceIs, RoundTrip DEF Ahead
<1>5. Ahead(opEnd) = InUse
  BY DEF Ahead, InUse
<1> QED
  BY <1>1, <1>2, <1>3, <1>4, <1>5, Sizes

\* The places ahead of opBegin.
LEMMA Places ==
    ASSUME TypeOK
    PROVE  \A d \in OpNr : At(d) \in OpNr /\ Ahead(At(d)) = d
BY RoundTrip DEF TypeOK, Ahead

\* Slots in a row without a file are holes, of which there are only so many.
LEMMA GapsAreHoles ==
    ASSUME TypeOK, NEW k \in Nat, k < MaxOpNr, NEW a \in Nat, NEW b \in Nat, a <= b, b <= k,
           \A d \in a..(b - 1) : ~IsStored(d)
    PROVE  /\ IsFiniteSet(Holes(k)) /\ Cardinality(Holes(k)) \in Nat
           /\ b - a <= Cardinality(Holes(k))
<1>1. IsFiniteSet(Holes(k)) /\ Cardinality(Holes(k)) \in Nat
  <2>1. IsFiniteSet(OpNr)
    BY FS_Interval, Sizes DEF OpNr
  <2>2. Holes(k) \in SUBSET OpNr
    BY DEF Holes
  <2> QED
    BY <2>1, <2>2, FS_Subset, FS_CardinalityType
<1> DEFINE S == a..(b - 1)
           f == [d \in S |-> At(d)]
<1>2. \A d \in S : d \in OpNr /\ At(d) \in Holes(k)
  <2> SUFFICES ASSUME NEW d \in S PROVE d \in OpNr /\ At(d) \in Holes(k)
    OBVIOUS
  <2>1. d \in OpNr /\ d < k
    BY Sizes DEF OpNr
  <2> QED
    BY <2>1, Places DEF Holes, IsStored
<1>3. f \in [S -> Holes(k)]
  BY <1>2
<1>4. \A d, e \in S : f[d] = f[e] => d = e
  <2> SUFFICES ASSUME NEW d \in S, NEW e \in S, At(d) = At(e) PROVE d = e
    OBVIOUS
  <2> QED
    BY <1>2, Places
<1>5. f \in Injection(S, Holes(k))
  <2> HIDE DEF f, S
  <2> QED
    BY <1>3, <1>4 DEF Injection, IsInjective
<1>6. Cardinality(S) <= Cardinality(Holes(k))
  <2> HIDE DEF f, S
  <2> QED
    BY <1>1, <1>5, FS_Injection
<1>7. Cardinality(S) = b - a
  <2>1. b - 1 \in Int
    OBVIOUS
  <2>2. Cardinality(S) = IF a > b - 1 THEN 0 ELSE (b - 1) - a + 1
    BY <2>1, FS_Interval
  <2> QED
    BY <2>2
<1> QED
  BY <1>1, <1>6, <1>7

\* Fewer slots without a file are fewer holes.
LEMMA FewerHoles ==
    ASSUME NEW k, NEW S, S \subseteq Holes(k)
    PROVE  IsFiniteSet(S) /\ Cardinality(S) <= Cardinality(Holes(k))
<1>1. IsFiniteSet(OpNr)
  BY FS_Interval, Sizes DEF OpNr
<1>2. Holes(k) \in SUBSET OpNr
  BY DEF Holes
<1> QED
  BY <1>1, <1>2, FS_Subset

\* The scan at boot sees every file in use and no other, and so it ends behind the last of them.
LEMMA ScanAcross ==
    ASSUME Tolerant, TypeOK, Within, NEW k \in 0..MaxPending, Sparse(k), NEW d \in OpNr
    PROVE  Scanned(d) <=> (d < k /\ IsStored(d))
<1>1. /\ k \in Nat /\ k < MaxOpNr /\ d \in Nat /\ d < MaxOpNr
      /\ MaxWriteFails \in Nat /\ writeFails \in Nat /\ MaxMisses \in Nat
      /\ HistorySize \in Nat /\ MaxOpNr \in Nat
      /\ k <= MaxOpNr - HistorySize - MaxMisses
  BY Sizes, QueueAssumption DEF OpNr, TypeOK
<1>2. ASSUME d < k, IsStored(d)
      PROVE  Scanned(d)
  <2> SUFFICES ASSUME NEW e \in 0..(d - MaxMisses),
                      \A j \in e..(e + MaxMisses - 1) : ~IsStored(j)
               PROVE  FALSE
    BY <1>2 DEF Scanned
  <2>1. e \in Nat /\ e + MaxMisses \in Nat /\ e + MaxMisses <= k
    BY <1>1, <1>2
  <2>2. ASSUME NEW b \in Nat, b = e + MaxMisses
        PROVE  b - e <= Cardinality(Holes(k)) /\ Cardinality(Holes(k)) \in Nat
    <3>1. e <= b /\ b <= k /\ \A j \in e..(b - 1) : ~IsStored(j)
      BY <1>1, <2>1, <2>2
    <3> QED
      BY <1>1, <2>1, <3>1, GapsAreHoles
  <2> QED
    BY <1>1, <2>1, <2>2 DEF Sparse, Within, Tolerant
<1>3. ASSUME Scanned(d)
      PROVE  d < k /\ IsStored(d)
  <2>1. IsStored(d)
    BY <1>3 DEF Scanned
  <2>2. \A j \in k..(MaxOpNr - HistorySize - 1) : ~IsStored(j)
    <3> SUFFICES ASSUME NEW j \in k..(MaxOpNr - HistorySize - 1) PROVE ~IsStored(j)
      OBVIOUS
    <3>1. j \in OpNr /\ j >= k /\ j < MaxOpNr - HistorySize
      BY <1>1 DEF OpNr
    <3>2. At(j) \in OpNr /\ Ahead(At(j)) >= k /\ Ahead(At(j)) < MaxOpNr - HistorySize
      BY <3>1, Places
    <3>3. file[At(j)] = NoFile
      BY <3>2 DEF Sparse
    <3> QED
      BY <3>3 DEF IsStored
  <2>3. ~(d >= k)
    <3> SUFFICES ASSUME d >= k PROVE FALSE
      OBVIOUS
    <3>1. d >= MaxOpNr - HistorySize
      BY <1>1, <2>1, <2>2
    <3>2. k \in 0..(d - MaxMisses)
      BY <1>1, <3>1
    <3>3. PICK j \in k..(k + MaxMisses - 1) : IsStored(j)
      BY <1>3, <3>2 DEF Scanned
    <3>4. j \in k..(MaxOpNr - HistorySize - 1)
      BY <1>1
    <3> QED
      BY <2>2, <3>3, <3>4
  <2> QED
    BY <1>1, <2>1, <2>3
<1> QED
  BY <1>2, <1>3

\* What is owed is within reach of the scan.
LEMMA SparseReach ==
    ASSUME Tolerant, TypeOK, Within, NEW k \in 0..MaxPending, Sparse(k)
    PROVE  NoLoss
<1> SUFFICES ASSUME NEW s \in Owed
             PROVE  \E d \in OpNr : Scanned(d) /\ file[At(d)].seq = s
  BY DEF NoLoss
<1>1. PICK n \in OpNr : Ahead(n) < k /\ file[n].seq = s
  BY DEF Sparse
<1>2. Ahead(n) \in OpNr /\ At(Ahead(n)) = n
  BY RoundTrip DEF Ahead, TypeOK
<1>3. IsStored(Ahead(n))
  BY <1>1, <1>2 DEF IsStored, NoFile, Owed, TypeOK, Seqs
<1>4. Scanned(Ahead(n))
  BY <1>1, <1>2, <1>3, ScanAcross
<1> QED
  BY <1>1, <1>2, <1>4

-----------------------------------------------------------------------------
(* Steps that leave flash alone *)

\* While the flash stays as it is, fewer requests may be owed, but none moves.
LEMMA SparseKept ==
    ASSUME UNCHANGED <<opBegin, file, stored, writeFails>>, Owed' \subseteq Owed,
           NEW k, Sparse(k)
    PROVE  Sparse(k)'
BY DEF Sparse, Holes, Ahead

LEMMA SparseRingKept ==
    ASSUME SparseRing, UNCHANGED <<opBegin, file, opEnd, stored, writeFails>>,
           Owed' \subseteq Owed, pc # "off", pc' # "off"
    PROVE  SparseRing'
<1>1. InUse' = InUse
  BY DEF InUse
<1>2. InUse <= MaxPending /\ Sparse(InUse)
  BY DEF SparseRing
<1>3. Sparse(InUse)'
  <2>1. ASSUME NEW k, k = InUse
        PROVE  Sparse(k)'
    BY <1>2, <2>1, SparseKept
  <2> QED
    BY <1>1, <2>1 DEF Sparse
<1> QED
  BY <1>1, <1>2, <1>3 DEF SparseRing

\* The place of a request or a file depends on nothing else.
LEMMA PlacesKept ==
    ASSUME UNCHANGED <<opBegin, file, opEnd, stored, pushed, txs>>
    PROVE  /\ InUse' = InUse /\ Vacant' = Vacant
           /\ \A n : Ahead(n)' = Ahead(n) /\ Live(n)' = Live(n) /\ Nearest(n)' = Nearest(n)
           /\ \A r : InPlace(r)' = InPlace(r)
BY DEF InPlace, Vacant, Nearest, Live, Ahead, InUse

\* The empty queue of the beginning has nothing out of place.
LEMMA InitGap == Init => GapInv
<1> SUFFICES ASSUME Init PROVE GapInv
  OBVIOUS
<1>1. /\ opBegin = FirstOpNr /\ opEnd = FirstOpNr /\ file = [n \in OpNr |-> NoFile]
      /\ head = NoReq /\ tail = <<>> /\ first /\ pc = "idle" /\ handling = Idle
      /\ stored = {} /\ txs = 0 /\ writeFails = 0
  BY DEF Init
<1>2. TypeOK
  BY InitType
<1>3. InUse = 0
  BY <1>1, <1>2, RoundTrip DEF InUse, TypeOK
<1>4. Holes(0) = {}
  BY <1>2, Around DEF Holes
<1>5. Cardinality(Holes(0)) = 0
  BY <1>4, FS_EmptySet
<1>6. \A n \in OpNr : ~(Ahead(n) < 0)
  BY <1>2, Around
<1>7. SparseRing
  BY <1>1, <1>3, <1>5, <1>6, Sizes DEF SparseRing, Sparse, Owed
<1>8. HeadNearest /\ HeadVacant /\ TailPlaces /\ ErasingNearest
  BY <1>1 DEF HeadNearest, HeadVacant, TailPlaces, ErasingNearest, Entries, Ordered
<1>9. Within
  BY <1>1, QueueAssumption DEF Within, Idle
<1> QED
  BY <1>7, <1>8, <1>9 DEF GapInv

\* Sending, receiving and timing out change nothing in the queue; only requests that live in
\* RAM time out.
LEMMA ConnectionGap ==
    ASSUME TypeOK, GapInv,
           \/ \E error \in BOOLEAN : Send(error)
           \/ Disconnect
           \/ Receive
           \/ \E late \in SUBSET Expirable : Expire(late)
           \/ UNCHANGED vars
    PROVE  GapInv'
<1>1. /\ UNCHANGED <<flash, ram, erase, bounds, stored, done, dropped>>
      /\ pc' = pc \/ (pc = "idle" /\ pc' = "drop")
      /\ handling'.late \subseteq handling.late \cup Expirable
  <2>1. ASSUME NEW error \in BOOLEAN, Send(error)
        PROVE  UNCHANGED <<flash, ram, ctl, bounds, stored, done, dropped>>
    BY <2>1 DEF Send
  <2>2. CASE Disconnect
    BY <2>2 DEF Disconnect, ctl, history
  <2>3. CASE Receive
    <3>1. handling'.late = {}
      BY <2>3 DEF Receive, Idle
    <3> QED
      BY <2>3, <3>1 DEF Receive, history
  <2>4. ASSUME NEW late \in SUBSET Expirable, Expire(late)
        PROVE  /\ UNCHANGED <<flash, ram, erase, bounds, stored, done, dropped>>
               /\ pc = "idle" /\ pc' = "drop" /\ handling'.late \subseteq Expirable
    BY <2>4 DEF Expire, Idle, history
  <2>5. CASE UNCHANGED vars
    BY <2>5 DEF vars, ctl, history
  <2> QED
    BY <2>1, <2>2, <2>3, <2>4, <2>5 DEF ctl
<1>2. /\ UNCHANGED <<opBegin, file, opEnd, head, tail, first, erase>>
      /\ UNCHANGED <<pushed, txs, writeFails, stored, done, dropped>>
  BY <1>1 DEF flash, ram, bounds
<1>3. Owed' = Owed
  BY <1>2 DEF Owed
<1>4. SparseRing'
  <2>1. CASE pc = "off"
    <3>1. pc' = "off"
      BY <1>1, <2>1
    <3>2. PICK k \in 0..MaxPending : Sparse(k)
      BY <2>1 DEF GapInv, SparseRing
    <3>3. Sparse(k)'
      BY <1>2, <1>3, <3>2, SparseKept
    <3> QED
      BY <3>1, <3>3 DEF SparseRing
  <2>2. CASE pc # "off"
    <3>1. pc' # "off"
      BY <1>1, <2>2
    <3> QED
      BY <1>2, <1>3, <2>2, <3>1, SparseRingKept DEF GapInv
  <2> QED
    BY <2>1, <2>2
<1>5. /\ InUse' = InUse /\ Vacant' = Vacant /\ Entries' = Entries
      /\ \A n : Ahead(n)' = Ahead(n) /\ Live(n)' = Live(n) /\ Nearest(n)' = Nearest(n)
      /\ \A r : InPlace(r)' = InPlace(r)
  BY <1>2, PlacesKept DEF Entries
<1>6. HeadNearest'
  <2>1. ASSUME NEW r, r = head
        PROVE  InPlace(r)' = InPlace(head)' /\ Live(r.opNr)' = Live(head.opNr)'
               /\ Nearest(r.opNr)' = Nearest(head.opNr)'
    BY <1>2, <2>1 DEF InPlace, Live, Nearest, Ahead
  <2> QED
    BY <1>1, <1>2, <1>5, <2>1 DEF GapInv, HeadNearest
<1>7. HeadVacant' /\ TailPlaces'
  BY <1>1, <1>2, <1>5 DEF GapInv, HeadVacant, TailPlaces
<1>8. ErasingNearest'
  <2>1. pc' = "erase" => pc = "erase"
    BY <1>1
  <2>2. Live(erase.upTo)' = Live(erase.upTo) /\ Nearest(erase.upTo)' = Nearest(erase.upTo)
    BY <1>2 DEF Live, Nearest, Ahead, InUse
  <2> QED
    BY <1>2, <1>3, <1>5, <2>1, <2>2 DEF GapInv, ErasingNearest, Ahead
<1>9. Within'
  <2>1. \A q \in Queued : q # NoReq => InPlace(q)
    BY DEF GapInv, HeadNearest, TailPlaces, Entries, Queued
  <2>2. Expirable \subseteq 1..pushed \ stored
    BY <2>1 DEF Expirable, InPlace
  <2> QED
    BY <1>1, <1>2, <2>2 DEF GapInv, Within
<1> QED
  BY <1>4, <1>6, <1>7, <1>8, <1>9 DEF GapInv

-----------------------------------------------------------------------------
(* push_back, with writes that fail *)

\* Seen from opEnd, the slot just handed out is the farthest, and the others come nearer.
LEMMA NextBehind ==
    ASSUME NEW e \in OpNr
    PROVE  /\ Distance(NextOpNr(e), e) = MaxOpNr - 1
           /\ \A n \in OpNr : Distance(e, n) > 0 => Distance(NextOpNr(e), n) = Distance(e, n) - 1
<1>1. NextOpNr(e) \in OpNr /\ NextOpNr(e) = IF e = MaxOpNr - 1 THEN 0 ELSE e + 1
  <2>1. /\ e + 1 \in Nat /\ e + 1 < 2 * MaxOpNr /\ e <= MaxOpNr - 1
        /\ e \in Nat /\ MaxOpNr \in Nat
    BY Sizes DEF OpNr
  <2>2. (e + 1) % MaxOpNr = IF e + 1 < MaxOpNr THEN e + 1 ELSE e + 1 - MaxOpNr
    BY <2>1, Remainder
  <2>3. NextOpNr(e) = IF e = MaxOpNr - 1 THEN 0 ELSE e + 1
    BY <2>1, <2>2 DEF NextOpNr
  <2> QED
    BY <2>3, NextOpNrType
<1>2. Distance(NextOpNr(e), e)
        = IF e < NextOpNr(e) THEN e - NextOpNr(e) + MaxOpNr ELSE e - NextOpNr(e)
  BY <1>1, DistanceIs
<1>3. Distance(NextOpNr(e), e) = MaxOpNr - 1
  BY <1>1, <1>2, Sizes DEF OpNr
<1> QED
  BY <1>3, NextDistance

\* A request that joins the cache at the end keeps it in order, seen from anywhere.
LEMMA EnqueueOrdered ==
    ASSUME TypeOK, NEW b, Ordered(b, tail), NEW r \in Request, Enqueue(r),
           \A q \in Entries :
              q.opNr >= 0 /\ r.opNr >= 0 => Distance(b, q.opNr) < Distance(b, r.opNr)
    PROVE  Ordered(b, tail')
<1>1. CASE head = NoReq
  BY <1>1, EnqueueEntries
<1>2. CASE head # NoReq
  <2>1. PICK kept \in {tail, Tail(tail)} :
               /\ tail' = Append(kept, r)
               /\ kept \in Seq(Request)
               /\ kept = tail \/ tail # <<>>
               /\ \A i \in DOMAIN kept : kept[i] \in Entries
    BY <1>2, EnqueueEntries
  <2>2. Ordered(b, kept)
    BY <2>1, OrderedRemove DEF TypeOK
  <2> QED
    BY <2>1, <2>2, OrderedAppend
<1> QED
  BY <1>1, <1>2

\* What any push does to head and cache, if no request loses its place by it.
LEMMA PushGap ==
    ASSUME TypeOK, GapInv, pc' = "idle", ~first',
           NEW r \in Request, r # NoReq, Enqueue(r), InPlace(r)',
           \A q \in Request : InPlace(q) => InPlace(q)',
           \A q \in Request : InPlace(q) /\ q.opNr >= 0 /\ Live(q.opNr)' => Live(q.opNr),
           \A n \in OpNr : Live(n) /\ Nearest(n) => Nearest(n)',
           head = NoReq /\ r.opNr >= 0 => Nearest(r.opNr)',
           Ordered(opEnd', tail),
           \A q \in Entries :
              q.opNr >= 0 /\ r.opNr >= 0 => Distance(opEnd', q.opNr) < Distance(opEnd', r.opNr)
    PROVE  HeadNearest' /\ HeadVacant' /\ TailPlaces' /\ ErasingNearest'
<1>1. /\ head = NoReq => head' = r
      /\ head # NoReq => head' = head
      /\ Entries' \subseteq Entries \cup {r}
  BY EnqueueEntries
<1>2. head' # NoReq
  BY <1>1
<1>3. HeadNearest'
  <2>1. CASE head = NoReq
    <3>1. \A q \in Request : q = r => InPlace(q)' /\ (q.opNr >= 0 => Nearest(q.opNr)')
      BY <2>1
    <3>2. head' = r
      BY <1>1, <2>1
    <3> QED
      BY <3>1, <3>2 DEF HeadNearest, InPlace, Nearest, Live, Ahead
  <2>2. CASE head # NoReq
    <3>1. InPlace(head) /\ head \in Request /\ (head.opNr >= 0 /\ Live(head.opNr) => Nearest(head.opNr))
      BY <2>2 DEF GapInv, HeadNearest, TypeOK
    <3>2. \A q \in Request : q = head => InPlace(q)'
      BY <3>1
    <3>3. \A q \in Request : q = head /\ q.opNr >= 0 /\ Live(q.opNr)' => Nearest(q.opNr)'
      <4> SUFFICES ASSUME NEW q \in Request, q = head, q.opNr >= 0, Live(q.opNr)'
                   PROVE  Nearest(q.opNr)'
        OBVIOUS
      <4>1. q.opNr \in OpNr /\ Live(q.opNr)
        BY <3>1 DEF Request
      <4> QED
        BY <3>1, <4>1
    <3>4. head' = head /\ head \in Request
      BY <1>1, <2>2, <3>1
    <3> QED
      BY <3>2, <3>3, <3>4 DEF HeadNearest, InPlace, Nearest, Live, Ahead
  <2> QED
    BY <2>1, <2>2
<1>4. HeadVacant' /\ ErasingNearest'
  BY <1>2 DEF HeadVacant, ErasingNearest
<1>5. TailPlaces'
  <2>1. Ordered(opEnd', tail')
    BY EnqueueOrdered
  <2>2. \A q \in Entries : InPlace(q)'
    BY RamTypes DEF GapInv, TailPlaces
  <2> QED
    BY <1>1, <2>1, <2>2 DEF TailPlaces
<1> QED
  BY <1>3, <1>4, <1>5

\* A request that lives in RAM only.
LEMMA PushVolatileGap ==
    ASSUME TypeOK, GapInv, PushVolatile
    PROVE  GapInv'
<1> DEFINE new == [seq |-> pushed + 1, kind |-> "other", opNr |-> -1, id |-> nextId]
<1>0. new \in Request
  BY DEF TypeOK, Request, Kind
<1> PICK r \in Request : r = new
  BY <1>0, Zenon
<1>1. r.seq = pushed + 1 /\ r.opNr = -1 /\ r # NoReq /\ pushed \in Nat
  BY DEF TypeOK, NoReq
<1>2. /\ Enqueue(r) /\ pc = "idle" /\ pc' = "idle" /\ ~first'
      /\ UNCHANGED <<opBegin, file, opEnd, txs, writeFails, handling, stored, Owed>>
      /\ pushed' = pushed + 1
  BY DEF PushVolatile, flash, ctl, history, Owed
<1> HIDE DEF new
<1>3. SparseRing'
  BY <1>2, SparseRingKept DEF GapInv
<1>4. stored \subseteq 1..pushed /\ handling.late \subseteq 1..pushed \ stored
  BY DEF GapInv, Within
<1>5. 1..pushed \subseteq 1..(pushed + 1) /\ pushed + 1 \in 1..(pushed + 1) /\ pushed + 1 \notin 1..pushed
  BY <1>1
<1>6. InUse' = InUse /\ \A n : Ahead(n)' = Ahead(n) /\ Live(n)' = Live(n) /\ Nearest(n)' = Nearest(n)
  BY <1>2 DEF InUse, Ahead, Live, Nearest
<1>7. \A q \in Request : InPlace(q) => InPlace(q)'
  BY <1>2, <1>5, <1>6 DEF InPlace
<1>8. InPlace(r)'
  BY <1>1, <1>2, <1>4, <1>5 DEF InPlace
<1>9. Ordered(opEnd', tail)
  BY <1>2 DEF GapInv, TailPlaces
<1>10. HeadNearest' /\ HeadVacant' /\ TailPlaces' /\ ErasingNearest'
  BY <1>1, <1>2, <1>6, <1>7, <1>8, <1>9, PushGap
<1>11. Within'
  BY <1>2, <1>4, <1>5 DEF GapInv, Within
<1> QED
  BY <1>3, <1>10, <1>11 DEF GapInv

\* The op number of a transaction request is consumed, whether its op file is written or not.
LEMMA PushTxPlaces ==
    ASSUME Tolerant, TypeOK, GapInv, NEW kind \in TxKind, NEW preBoot, PushTx(kind, preBoot)
    PROVE  /\ opBegin' = opBegin /\ \A n : Ahead(n)' = Ahead(n)
           /\ InUse' = InUse + 1 /\ InUse' <= MaxPending
           /\ \A n \in OpNr : Ahead(n) = InUse => n = opEnd
           /\ \A n \in OpNr \ {opEnd} : file'[n] = file[n]
           /\ \A n \in OpNr : Ahead(n) < InUse => n # opEnd
           /\ txs' = txs + 1 /\ txs' <= MaxTx /\ txs \in Nat
           /\ opEnd' = NextOpNr(opEnd)
           /\ stored' \subseteq stored \cup {pushed + 1} /\ pushed' = pushed + 1
<1>1. /\ opBegin' = opBegin /\ opEnd' = NextOpNr(opEnd) /\ pushed' = pushed + 1
      /\ txs' = txs + 1 /\ txs < MaxTx /\ txs \in Nat /\ MaxTx \in Nat
      /\ InUse < MaxPending
      /\ file' = file \/ \E f : file' = [file EXCEPT ![opEnd] = f]
      /\ stored' \subseteq stored \cup {pushed + 1}
  BY QueueAssumption DEF PushTx, TypeOK, InUse
<1>2. /\ opBegin \in OpNr /\ opEnd \in OpNr /\ InUse \in Nat /\ At(InUse) = opEnd
      /\ Ahead(opEnd) = InUse
      /\ \A n \in OpNr : Ahead(n) \in Nat /\ At(Ahead(n)) = n
  BY Around, RamTypes
<1>3. InUse' = InUse + 1
  <2>1. Distance(opBegin, opEnd) < MaxOpNr - 1
    BY <1>1, <1>2, Sizes DEF InUse
  <2>2. Distance(opBegin, NextOpNr(opEnd)) = Distance(opBegin, opEnd) + 1
    BY <1>2, <2>1, NextDistance
  <2> QED
    BY <1>1, <2>2 DEF InUse
<1>4. \A n : Ahead(n)' = Ahead(n)
  BY <1>1 DEF Ahead
<1>5. \A n \in OpNr \ {opEnd} : file'[n] = file[n]
  BY <1>1, <1>2 DEF TypeOK
<1>6. /\ \A n \in OpNr : Ahead(n) = InUse => n = opEnd
      /\ \A n \in OpNr : Ahead(n) < InUse => n # opEnd
  BY <1>2
<1> QED
  BY <1>1, <1>2, <1>3, <1>4, <1>5, <1>6, Sizes

\* A written op file is one more in use, an unwritten one is a hole more.
LEMMA PushTxSparse ==
    ASSUME Tolerant, TypeOK, GapInv, NEW kind \in TxKind, NEW preBoot, PushTx(kind, preBoot)
    PROVE  SparseRing' /\ writeFails' <= MaxWriteFails
<1> DEFINE f == [seq |-> pushed + 1, kind |-> kind, id |-> nextId, preBoot |-> preBoot]
<1>1. /\ opBegin' = opBegin /\ \A n : Ahead(n)' = Ahead(n)
      /\ InUse' = InUse + 1 /\ InUse' <= MaxPending
      /\ \A n \in OpNr : Ahead(n) = InUse => n = opEnd
      /\ \A n \in OpNr \ {opEnd} : file'[n] = file[n]
      /\ \A n \in OpNr : Ahead(n) < InUse => n # opEnd
      /\ opEnd \in OpNr /\ InUse \in Nat /\ Ahead(opEnd) = InUse
      /\ \A n \in OpNr : Ahead(n) \in Nat
  BY PushTxPlaces, Around
<1>2. PICK k \in Nat : k = InUse
  BY <1>1
<1>3. Sparse(k) /\ pc = "idle" /\ pc' = "idle" /\ writeFails <= MaxWriteFails
  BY <1>2 DEF GapInv, SparseRing, PushTx, ctl, Within
<1>4. /\ writeFails \in Nat /\ MaxWriteFails \in Nat
      /\ IsFiniteSet(Holes(k)) /\ Cardinality(Holes(k)) \in Nat
  <2>1. IsFiniteSet(Holes(k))
    BY FewerHoles
  <2> QED
    BY <2>1, FS_CardinalityType, QueueAssumption DEF TypeOK
<1>5. \A n \in OpNr : Ahead(n) < k + 1 => Ahead(n) < k \/ n = opEnd
  BY <1>1, <1>2
<1>6. \A n \in OpNr : Ahead(n) >= k + 1 => Ahead(n) >= k /\ n # opEnd
  BY <1>1, <1>2
<1>7. \A n \in OpNr : Ahead(n) < k => Ahead(n) < k + 1 /\ n # opEnd
  BY <1>1, <1>2
<1>8. CASE file' = [file EXCEPT ![opEnd] = f] /\ stored' = stored \cup {pushed + 1}
           /\ writeFails' = writeFails
  <2>1. f.seq = pushed + 1 /\ f.kind = kind /\ f # NoFile
    BY DEF NoFile, TypeOK
  <2>2. file'[opEnd] = f
    BY <1>1, <1>8 DEF TypeOK
  <2> HIDE DEF f
  <2>3. \A n \in OpNr : Ahead(n) >= k + 1 /\ Ahead(n) < MaxOpNr - HistorySize => file'[n] = NoFile
    BY <1>1, <1>3, <1>6 DEF Sparse
  <2>4. \A n \in OpNr : Ahead(n) < k + 1 /\ file'[n] # NoFile => file'[n].kind \in TxKind
    BY <1>1, <1>3, <1>5, <2>1, <2>2 DEF Sparse
  <2>5. \A s \in Owed' : \E n \in OpNr : Ahead(n) < k + 1 /\ file'[n].seq = s
    <3> SUFFICES ASSUME NEW s \in Owed'
                 PROVE  \E n \in OpNr : Ahead(n) < k + 1 /\ file'[n].seq = s
      OBVIOUS
    <3>1. s \in Owed \/ s = pushed + 1
      BY <1>8 DEF Owed, PushTx
    <3>2. CASE s \in Owed
      <4>1. PICK n \in OpNr : Ahead(n) < k /\ file[n].seq = s
        BY <1>3, <3>2 DEF Sparse
      <4> QED
        BY <1>1, <1>7, <4>1
    <3>3. CASE s = pushed + 1
      <4>1. Ahead(opEnd) < k + 1
        BY <1>1, <1>2
      <4> QED
        BY <1>1, <2>1, <2>2, <3>3, <4>1
    <3> QED
      BY <3>1, <3>2, <3>3
  <2>6. Holes(k + 1)' \subseteq Holes(k)
    BY <1>1, <1>5, <2>1, <2>2 DEF Holes
  <2>7. Cardinality(Holes(k + 1)') <= writeFails'
    <3>1. IsFiniteSet(Holes(k + 1)') /\ Cardinality(Holes(k + 1)') <= Cardinality(Holes(k))
      BY <2>6, FewerHoles
    <3>2. Cardinality(Holes(k + 1)') \in Nat
      BY <3>1, FS_CardinalityType
    <3> QED
      BY <1>3, <1>4, <1>8, <3>1, <3>2 DEF Sparse
  <2>8. Sparse(k + 1)'
    BY <1>1, <2>3, <2>4, <2>5, <2>7 DEF Sparse
  <2> QED
    BY <1>1, <1>2, <1>3, <1>8, <2>8 DEF SparseRing, Sparse, Holes
<1>9. CASE file' = file /\ stored' = stored /\ writeFails < MaxWriteFails
           /\ writeFails' = writeFails + 1
  <2>1. Owed' = Owed
    BY <1>9 DEF PushTx, Owed
  <2>2. file[opEnd] = NoFile
    <3>1. InUse < MaxOpNr - HistorySize
      BY <1>1, Sizes
    <3> QED
      BY <1>1, <1>2, <1>3, <3>1 DEF Sparse
  <2>3. \A n \in OpNr : Ahead(n) >= k + 1 /\ Ahead(n) < MaxOpNr - HistorySize => file'[n] = NoFile
    BY <1>3, <1>6, <1>9 DEF Sparse
  <2>4. \A n \in OpNr : Ahead(n) < k + 1 /\ file'[n] # NoFile => file'[n].kind \in TxKind
    BY <1>3, <1>5, <1>9, <2>2 DEF Sparse
  <2>5. \A s \in Owed' : \E n \in OpNr : Ahead(n) < k + 1 /\ file'[n].seq = s
    BY <1>3, <1>7, <1>9, <2>1 DEF Sparse
  <2>6. Cardinality(Holes(k + 1)') <= writeFails'
    <3>1. Holes(k + 1)' \in SUBSET (Holes(k) \cup {opEnd})
      BY <1>1, <1>5, <1>9 DEF Holes
    <3>2. /\ IsFiniteSet(Holes(k) \cup {opEnd})
          /\ Cardinality(Holes(k) \cup {opEnd}) <= Cardinality(Holes(k)) + 1
          /\ Cardinality(Holes(k) \cup {opEnd}) \in Nat
      <4> DEFINE H == Holes(k)
      <4>1. /\ IsFiniteSet(H \cup {opEnd})
            /\ Cardinality(H \cup {opEnd}) = IF opEnd \in H THEN Cardinality(H) ELSE Cardinality(H) + 1
        <5> HIDE DEF H
        <5>1. IsFiniteSet(H)
          BY <1>4 DEF H
        <5> QED
          BY <5>1, FS_AddElement
      <4> QED
        BY <1>4, <4>1
    <3>3. /\ IsFiniteSet(Holes(k + 1)')
          /\ Cardinality(Holes(k + 1)') <= Cardinality(Holes(k) \cup {opEnd})
      BY <3>1, <3>2, FS_Subset
    <3>4. Cardinality(Holes(k + 1)') \in Nat
      BY <3>3, FS_CardinalityType
    <3> QED
      BY <1>3, <1>4, <1>9, <3>2, <3>3, <3>4 DEF Sparse
  <2>7. Sparse(k + 1)'
    BY <1>1, <2>3, <2>4, <2>5, <2>6 DEF Sparse
  <2>8. writeFails' <= MaxWriteFails
    BY <1>4, <1>9
  <2> QED
    BY <1>1, <1>2, <1>3, <2>7, <2>8 DEF SparseRing, Sparse, Holes
<1> QED
  BY <1>8, <1>9 DEF PushTx

LEMMA PushTxGap ==
    ASSUME Tolerant, TypeOK, GapInv, NEW kind \in TxKind, NEW preBoot, PushTx(kind, preBoot)
    PROVE  GapInv'
<1>1. /\ opBegin' = opBegin /\ \A n : Ahead(n)' = Ahead(n)
      /\ InUse' = InUse + 1 /\ InUse' <= MaxPending
      /\ \A n \in OpNr : Ahead(n) = InUse => n = opEnd
      /\ \A n \in OpNr \ {opEnd} : file'[n] = file[n]
      /\ \A n \in OpNr : Ahead(n) < InUse => n # opEnd
      /\ txs' = txs + 1 /\ txs' <= MaxTx /\ txs \in Nat
      /\ opEnd' = NextOpNr(opEnd)
      /\ stored' \subseteq stored \cup {pushed + 1} /\ pushed' = pushed + 1
  BY PushTxPlaces
<1>2. SparseRing' /\ writeFails' <= MaxWriteFails
  BY PushTxSparse
<1>3. PICK nr \in {opEnd, -1} :
         /\ Enqueue([seq |-> pushed + 1, kind |-> kind, opNr |-> nr, id |-> nextId])
         /\ nr = opEnd => file'[opEnd] = [seq |-> pushed + 1, kind |-> kind, id |-> nextId,
                                          preBoot |-> preBoot]
  <2> DEFINE rec(nr) == [seq |-> pushed + 1, kind |-> kind, opNr |-> nr, id |-> nextId]
             f == [seq |-> pushed + 1, kind |-> kind, id |-> nextId, preBoot |-> preBoot]
  <2>1. \/ file' = [file EXCEPT ![opEnd] = f] /\ Enqueue(rec(opEnd))
        \/ Enqueue(rec(-1))
    BY DEF PushTx
  <2>2. opEnd \in OpNr /\ opEnd # -1 /\ DOMAIN file = OpNr
    BY RingType DEF TypeOK
  <2> HIDE DEF f
  <2>3. CASE file' = [file EXCEPT ![opEnd] = f] /\ Enqueue(rec(opEnd))
    <3>1. file'[opEnd] = f
      BY <2>2, <2>3
    <3> QED
      BY <2>3, <3>1 DEF f
  <2>4. CASE Enqueue(rec(-1))
    BY <2>2, <2>4
  <2> QED
    BY <2>1, <2>3, <2>4
<1> DEFINE new == [seq |-> pushed + 1, kind |-> kind, opNr |-> nr, id |-> nextId]
<1>4. new \in Request
  BY DEF TypeOK, Request, Kind
<1> PICK r \in Request : r = new
  BY <1>4, Zenon
<1>5. /\ r.seq = pushed + 1 /\ r.kind \in TxKind /\ r.kind # "other" /\ r.opNr = nr
      /\ r # NoReq /\ Enqueue(r)
  BY <1>3 DEF TxKind, NoReq
<1>6. nr = opEnd => file'[nr].seq = r.seq /\ file'[nr] # NoFile
  BY <1>3, <1>5 DEF NoFile, TxKind
<1> HIDE DEF new
<1>7. /\ pc = "idle" /\ pc' = "idle" /\ ~first /\ ~first' /\ handling' = handling
      /\ pushed \in Nat
  BY DEF PushTx, Tolerant, ctl, TypeOK
<1>8. /\ opEnd \in OpNr /\ InUse \in Nat /\ opEnd \in Nat /\ Ahead(opEnd) = InUse
      /\ \A n \in OpNr : Ahead(n) \in Nat /\ Distance(opEnd, n) \in Nat
      /\ MaxOpNr \in Nat /\ MaxPending \in Nat /\ MaxTx \in Nat
      /\ MaxOpNr - MaxPending - (txs + 1) > 0
  BY <1>1, Around, Sizes, QueueAssumption DEF Tolerant
<1>9. Distance(opEnd, opEnd) = 0
  BY <1>8, DistanceIs
<1>10. ASSUME NEW n \in OpNr, Distance(opEnd, n) >= MaxOpNr - MaxPending - txs
       PROVE  /\ Distance(opEnd', n) = Distance(opEnd, n) - 1
              /\ Distance(opEnd', n) >= MaxOpNr - MaxPending - txs'
              /\ n # opEnd
              /\ Live(n)' => Live(n)
  <2>1. Distance(opEnd, n) > 0
    BY <1>1, <1>8, <1>10
  <2>2. n # opEnd
    BY <1>9, <2>1
  <2>3. Ahead(n) # InUse
    BY <1>1, <2>2
  <2>4. Live(n)' => Live(n)
    BY <1>1, <1>8, <2>3 DEF Live
  <2>5. Distance(opEnd', n) = Distance(opEnd, n) - 1
    BY <1>1, <1>8, <2>1, NextBehind
  <2>6. PICK a \in Nat : a = Distance(opEnd, n)
    BY <1>8
  <2>7. a - 1 >= MaxOpNr - MaxPending - (txs + 1)
    BY <1>1, <1>8, <1>10, <2>6
  <2> QED
    BY <1>1, <2>2, <2>4, <2>5, <2>6, <2>7
<1>11. stored \subseteq 1..pushed /\ handling.late \subseteq 1..pushed \ stored
  BY DEF GapInv, Within
<1>12. /\ 1..pushed \subseteq 1..(pushed + 1) /\ pushed + 1 \in 1..(pushed + 1)
       /\ pushed + 1 \notin 1..pushed
  BY <1>7
<1>13. ASSUME NEW q \in Request, InPlace(q)
       PROVE  InPlace(q)' /\ (q.opNr >= 0 /\ Live(q.opNr)' => Live(q.opNr))
  <2>1. q.kind = "other" => q.seq \in 1..pushed' \ stored'
    BY <1>1, <1>12, <1>13 DEF InPlace
  <2>2. CASE q.opNr >= 0
    <3>1. q.opNr \in OpNr /\ Distance(opEnd, q.opNr) >= MaxOpNr - MaxPending - txs
      BY <1>13, <2>2 DEF InPlace, Request
    <3>2. /\ q.opNr # opEnd
          /\ Live(q.opNr)' => Live(q.opNr)
      BY <1>10, <3>1
    <3>3. Distance(opEnd', q.opNr) >= MaxOpNr - MaxPending - txs'
      BY <1>10, <3>1
    <3>4. file'[q.opNr] = file[q.opNr]
      BY <1>1, <3>1, <3>2
    <3>5. Live(q.opNr)' => file'[q.opNr].seq = q.seq /\ file'[q.opNr] # NoFile
      BY <1>13, <2>2, <3>2, <3>4 DEF InPlace
    <3> QED
      BY <2>1, <3>2, <3>3, <3>5 DEF InPlace
  <2>3. CASE ~(q.opNr >= 0)
    BY <2>1, <2>3 DEF InPlace
  <2> QED
    BY <2>2, <2>3
<1>14. r.opNr = opEnd => Distance(opEnd', opEnd) = MaxOpNr - 1
  BY <1>1, <1>8, NextBehind
<1>15. InPlace(r)'
  <2>1. CASE nr = opEnd
    <3>1. Distance(opEnd', nr) >= MaxOpNr - MaxPending - txs'
      BY <1>1, <1>5, <1>8, <1>14, <2>1
    <3> QED
      BY <1>5, <1>6, <2>1, <3>1 DEF InPlace
  <2>2. CASE nr = -1
    BY <1>5, <2>2 DEF InPlace
  <2> QED
    BY <2>1, <2>2
<1>16. \A n \in OpNr : Live(n) /\ Nearest(n) => Nearest(n)'
  <2> SUFFICES ASSUME NEW n \in OpNr, Live(n), Nearest(n), NEW m \in OpNr, Ahead(m) < Ahead(n)
               PROVE  file'[m] = NoFile
    BY <1>1 DEF Nearest
  <2>1. Ahead(m) < InUse
    BY <1>8 DEF Live
  <2> QED
    BY <1>1, <2>1 DEF Nearest
<1>17. head = NoReq /\ r.opNr >= 0 => Nearest(r.opNr)'
  <2> SUFFICES ASSUME head = NoReq, r.opNr >= 0, NEW m \in OpNr, Ahead(m) < Ahead(opEnd)
               PROVE  file'[m] = NoFile
    BY <1>1, <1>5 DEF Nearest
  <2>1. Vacant
    BY <1>7 DEF GapInv, HeadVacant
  <2> QED
    BY <1>1, <1>8, <2>1 DEF Vacant, Live
<1>18. \A q \in Entries : q \in Request /\ InPlace(q)
  BY RamTypes DEF GapInv, TailPlaces
<1>19. \A q \in Entries : q.opNr >= 0 => /\ q.opNr \in OpNr
                                         /\ Distance(opEnd', q.opNr) = Distance(opEnd, q.opNr) - 1
  BY <1>10, <1>18 DEF InPlace, Request
<1>20. Ordered(opEnd', tail)
  <2>1. \A i \in DOMAIN tail : tail[i] \in Entries
    BY DEF Entries
  <2>2. Ordered(opEnd, tail)
    BY DEF GapInv, TailPlaces
  <2> SUFFICES ASSUME NEW i \in DOMAIN tail, NEW j \in DOMAIN tail, i < j,
                      tail[i].opNr >= 0, tail[j].opNr >= 0
               PROVE  Distance(opEnd', tail[i].opNr) < Distance(opEnd', tail[j].opNr)
    BY DEF Ordered
  <2>3. Distance(opEnd, tail[i].opNr) < Distance(opEnd, tail[j].opNr)
    BY <2>2 DEF Ordered
  <2>4. PICK a \in Nat, b \in Nat : a = Distance(opEnd, tail[i].opNr) /\ b = Distance(opEnd, tail[j].opNr)
    BY <1>8, <1>19, <2>1
  <2>5. Distance(opEnd', tail[i].opNr) = a - 1 /\ Distance(opEnd', tail[j].opNr) = b - 1
    BY <1>19, <2>1, <2>4
  <2> QED
    BY <2>3, <2>4, <2>5
<1>21. \A q \in Entries :
          q.opNr >= 0 /\ r.opNr >= 0 => Distance(opEnd', q.opNr) < Distance(opEnd', r.opNr)
  <2> SUFFICES ASSUME NEW q \in Entries, q.opNr >= 0, r.opNr >= 0
               PROVE  Distance(opEnd', q.opNr) < Distance(opEnd', r.opNr)
    OBVIOUS
  <2>1. r.opNr = opEnd
    BY <1>5
  <2>2. PICK a \in Nat : a = Distance(opEnd, q.opNr) /\ a < MaxOpNr
    BY <1>19, Around
  <2>3. Distance(opEnd', q.opNr) = a - 1 /\ a - 1 < MaxOpNr - 1
    BY <1>8, <1>19, <2>2
  <2> QED
    BY <1>14, <2>1, <2>3
<1>22. HeadNearest' /\ HeadVacant' /\ TailPlaces' /\ ErasingNearest'
  BY <1>5, <1>7, <1>13, <1>15, <1>16, <1>17, <1>20, <1>21, PushGap
<1>23. Within'
  BY <1>1, <1>2, <1>7, <1>11, <1>12 DEF Within
<1> QED
  BY <1>2, <1>22, <1>23 DEF GapInv

-----------------------------------------------------------------------------
(* drop_if, with second copies in the cache *)

\* advanceOpNr never mistakes the op number of a request that opBegin has passed for one ahead.
LEMMA InSyncLive ==
    ASSUME Tolerant, TypeOK, Within, NEW r \in Request, InPlace(r), r.opNr >= 0, InSync(r.opNr)
    PROVE  r.opNr \in OpNr /\ Live(r.opNr)
<1>1. r.opNr \in OpNr /\ Distance(opEnd, r.opNr) >= MaxOpNr - MaxPending - txs
  BY DEF InPlace, Request
<1>2. Ahead(r.opNr) < SyncWindow
  BY DEF InSync, Ahead
<1>3. /\ txs \in Nat /\ txs <= MaxTx /\ MaxTx \in Nat /\ MaxPending \in Nat
      /\ SyncWindow \in Nat /\ MaxOpNr \in Nat /\ MaxTx + MaxPending + SyncWindow <= MaxOpNr
  BY Sizes, QueueAssumption DEF Within, Tolerant, TypeOK
<1>4. /\ InUse \in Nat /\ Distance(opEnd, r.opNr) \in Nat
      /\ Distance(opEnd, r.opNr) < MaxOpNr
      /\ Distance(opEnd, r.opNr) + InUse < MaxOpNr =>
            Ahead(r.opNr) = Distance(opEnd, r.opNr) + InUse
      /\ Distance(opEnd, r.opNr) + InUse >= MaxOpNr =>
            Ahead(r.opNr) = Distance(opEnd, r.opNr) + InUse - MaxOpNr
  BY <1>1, Around
<1>5. Ahead(r.opNr) < InUse
  BY <1>1, <1>2, <1>3, <1>4
<1> QED
  BY <1>1, <1>5 DEF Live

\* The head is answered or timed out: advanceOpNr begins if its op file is still there.
LEMMA DropHeadGap ==
    ASSUME Tolerant, TypeOK, GapInv, DropHead
    PROVE  GapInv'
<1>1. /\ pc = "drop" /\ head # NoReq /\ Matches(head) /\ head' = NoReq
      /\ UNCHANGED <<flash, opEnd, tail, first, handling, bounds, stored, dropped>>
      /\ done' = IF handling.by = "answer" THEN done \cup {head.seq} ELSE done
      /\ pc' \in {"erase", "fetch"}
  BY DEF DropHead, Finish
<1>2. /\ InPlace(head) /\ ~first /\ head \in Request
      /\ head.opNr >= 0 /\ Live(head.opNr) => Nearest(head.opNr)
  BY <1>1 DEF GapInv, HeadNearest, TypeOK
<1>3. /\ UNCHANGED <<opBegin, file, opEnd, tail, first, handling>>
      /\ UNCHANGED <<pushed, txs, writeFails, stored>>
      /\ Owed' \subseteq Owed
  BY <1>1, OwedShrinks DEF flash, bounds
<1>4. SparseRing'
  BY <1>1, <1>3, SparseRingKept DEF GapInv
<1>5. /\ InUse' = InUse /\ Entries' = Entries
      /\ \A n : Ahead(n)' = Ahead(n) /\ Live(n)' = Live(n) /\ Nearest(n)' = Nearest(n)
      /\ \A r : InPlace(r)' = InPlace(r)
  BY <1>3, PlacesKept DEF Entries
<1>6. HeadNearest' /\ HeadVacant'
  BY <1>1, <1>2 DEF HeadNearest, HeadVacant
<1>7. TailPlaces' /\ Within'
  BY <1>3, <1>5 DEF GapInv, TailPlaces, Within
<1>8. ErasingNearest'
  <2> SUFFICES ASSUME pc' = "erase" PROVE ErasingNearest'
    BY DEF ErasingNearest
  <2>1. /\ head.opNr >= 0 /\ InSync(head.opNr)
        /\ erase' = [upTo |-> head.opNr, n |-> 0, then |-> "fetch"]
    BY DEF DropHead
  <2>2. head.opNr \in OpNr /\ Live(head.opNr)
    BY <1>2, <2>1, InSyncLive DEF GapInv
  <2>3. file[head.opNr].seq = head.seq
    BY <1>2, <2>1, <2>2 DEF InPlace
  <2>4. head.seq \notin Owed'
    <3>1. CASE handling.by = "answer"
      BY <1>1, <3>1 DEF Owed
    <3>2. CASE handling.by # "answer"
      BY <1>1, <1>3, <3>2 DEF Matches, GapInv, Within, Owed
    <3> QED
      BY <3>1, <3>2
  <2>5. \A n \in OpNr : ~(Ahead(n) >= MaxOpNr - HistorySize /\ Ahead(n) < MaxOpNr - HistorySize + 0)
    <3> SUFFICES ASSUME NEW n \in OpNr
                 PROVE  ~(Ahead(n) >= MaxOpNr - HistorySize /\ Ahead(n) < MaxOpNr - HistorySize + 0)
      OBVIOUS
    <3>1. Ahead(n) \in Nat /\ MaxOpNr - HistorySize \in Int
      BY Around, Sizes
    <3> QED
      BY <3>1
  <2>6. PICK h \in OpNr : h = head.opNr
    BY <2>2
  <2>7. erase'.upTo = h /\ erase'.n = 0 /\ erase'.then = "fetch"
    BY <2>1, <2>6
  <2>8. Live(erase.upTo)' /\ Nearest(erase.upTo)'
    <3>1. Live(h)' /\ Nearest(h)'
      BY <1>2, <1>5, <2>1, <2>2, <2>6
    <3> QED
      BY <2>7, <3>1 DEF Live, Nearest, Ahead
  <2> QED
    BY <1>3, <1>5, <2>3, <2>4, <2>5, <2>6, <2>7, <2>8 DEF ErasingNearest
<1> QED
  BY <1>4, <1>6, <1>7, <1>8 DEF GapInv

\* A cached request is answered or timed out.
LEMMA DropTailGap ==
    ASSUME TypeOK, GapInv, NEW i \in DOMAIN tail, DropTail(i)
    PROVE  GapInv'
<1>1. /\ pc = "drop" /\ tail' = RemoveAt(tail, i)
      /\ UNCHANGED <<flash, opEnd, head, first, pc, handling, erase, bounds, stored, dropped>>
      /\ done \subseteq done'
  BY DEF DropTail, Finish, ctl
<1>2. /\ UNCHANGED <<opBegin, file, opEnd, first, handling>>
      /\ UNCHANGED <<pushed, txs, writeFails, stored>>
      /\ Owed' \subseteq Owed
  BY <1>1, OwedShrinks DEF flash, bounds
<1>3. SparseRing'
  BY <1>1, <1>2, SparseRingKept DEF GapInv
<1>4. /\ InUse' = InUse /\ Vacant' = Vacant
      /\ \A n : Ahead(n)' = Ahead(n) /\ Live(n)' = Live(n) /\ Nearest(n)' = Nearest(n)
      /\ \A r : InPlace(r)' = InPlace(r)
  BY <1>2, PlacesKept
<1>5. tail \in Seq(Request) /\ Len(tail) \in Nat /\ DOMAIN tail = 1..Len(tail)
  BY DEF TypeOK
<1>6. Entries' \subseteq Entries
  <2>1. \A j \in DOMAIN tail' : tail'[j] \in Entries
    BY <1>1, <1>5 DEF RemoveAt, Entries
  <2> QED
    BY <2>1 DEF Entries
<1>7. HeadNearest'
  BY <1>1, <1>2 DEF GapInv, HeadNearest, InPlace, Live, Nearest, Ahead, InUse
<1>8. HeadVacant' /\ ErasingNearest'
  BY <1>1, <1>4 DEF GapInv, HeadVacant, ErasingNearest
<1>9. TailPlaces'
  <2>1. Ordered(opEnd, tail')
    BY <1>1, <1>5, OrderedRemove DEF GapInv, TailPlaces
  <2> QED
    BY <1>2, <1>4, <1>6, <2>1 DEF GapInv, TailPlaces
<1>10. Within'
  BY <1>2 DEF GapInv, Within
<1> QED
  BY <1>3, <1>7, <1>8, <1>9, <1>10 DEF GapInv

\* The handler ends.
LEMMA EndDropGap ==
    ASSUME TypeOK, GapInv, EndDrop
    PROVE  GapInv'
<1>1. /\ pc = "drop" /\ pc' = "idle" /\ handling' = Idle
      /\ UNCHANGED <<opBegin, file, opEnd, head, tail, first>>
      /\ UNCHANGED <<pushed, txs, writeFails, stored, done, dropped>>
  BY DEF EndDrop, flash, ram, bounds, history
<1>2. Owed' = Owed
  BY <1>1 DEF Owed
<1>3. SparseRing'
  BY <1>1, <1>2, SparseRingKept DEF GapInv
<1>4. /\ InUse' = InUse /\ Vacant' = Vacant
      /\ \A r : InPlace(r)' = InPlace(r)
  BY <1>1, PlacesKept
<1>5. HeadNearest'
  BY <1>1 DEF GapInv, HeadNearest, InPlace, Live, Nearest, Ahead, InUse
<1>6. HeadVacant' /\ ErasingNearest'
  BY <1>1, <1>4 DEF GapInv, HeadVacant, ErasingNearest
<1>7. TailPlaces'
  BY <1>1, <1>4 DEF GapInv, TailPlaces, Entries
<1>8. Within'
  BY <1>1 DEF GapInv, Within, Idle
<1> QED
  BY <1>3, <1>5, <1>6, <1>7, <1>8 DEF GapInv

-----------------------------------------------------------------------------
(* pop_front, across the holes *)

\* The slot that leaves the history is as far behind opBegin as the history is long, or, when
\* advanceOpNr passes more slots than that, a little ahead of it.
LEMMA HistoryPlace ==
    ASSUME TypeOK, NEW n \in Nat, n < MaxOpNr
    PROVE  /\ HistoryFile(n) \in OpNr
           /\ n < HistorySize => Ahead(HistoryFile(n)) = MaxOpNr - HistorySize + n
           /\ n >= HistorySize => Ahead(HistoryFile(n)) = n - HistorySize
<1>1. /\ opBegin \in OpNr /\ opBegin \in Nat /\ opBegin < MaxOpNr
      /\ MaxOpNr \in Nat /\ HistorySize \in Nat /\ HistorySize < MaxOpNr
  BY Sizes DEF TypeOK, OpNr
<1>2. HistoryFile(n) \in OpNr
  BY <1>1, HistoryType
<1>3. CASE n < HistorySize
  <2>1. PICK d \in OpNr : d = n + MaxOpNr - HistorySize
    BY <1>1, <1>3 DEF OpNr
  <2>2. HistoryFile(n) = At(d)
    BY <2>1 DEF HistoryFile
  <2>3. Ahead(HistoryFile(n)) = d
    BY <2>2, Places
  <2> QED
    BY <1>1, <1>2, <1>3, <2>1, <2>3
<1>4. CASE ~(n < HistorySize)
  <2>1. PICK d \in OpNr : d = n - HistorySize
    BY <1>1, <1>4 DEF OpNr
  <2>2. PICK y \in Nat : y = opBegin + d
    BY <1>1, <2>1 DEF OpNr
  <2>3. y < 2 * MaxOpNr
    BY <1>1, <2>1, <2>2 DEF OpNr
  <2>4. (y + MaxOpNr) % MaxOpNr = y % MaxOpNr
    <3>1. y % MaxOpNr = IF y < MaxOpNr THEN y ELSE y - MaxOpNr
      BY <2>3, Remainder
    <3>2. CASE y < MaxOpNr
      <4>1. PICK z \in Nat : z = y + MaxOpNr /\ z < 2 * MaxOpNr /\ ~(z < MaxOpNr)
        BY <1>1, <3>2
      <4>2. z % MaxOpNr = z - MaxOpNr
        BY <4>1, Remainder
      <4>3. z - MaxOpNr = y
        BY <1>1, <4>1
      <4> QED
        BY <3>1, <3>2, <4>1, <4>2, <4>3
    <3>3. CASE ~(y < MaxOpNr)
      <4>1. PICK z \in Nat : z = y - MaxOpNr /\ z < MaxOpNr
        BY <1>1, <2>3, <3>3
      <4>2. (z + 2 * MaxOpNr) % MaxOpNr = z
        BY <1>1, <4>1, SMT
      <4>3. y + MaxOpNr = z + 2 * MaxOpNr
        BY <1>1, <4>1
      <4> QED
        BY <3>1, <3>3, <4>1, <4>2, <4>3
    <3> QED
      BY <3>2, <3>3
  <2>5. opBegin + (n + MaxOpNr - HistorySize) = y + MaxOpNr
    BY <1>1, <2>1, <2>2
  <2>6. HistoryFile(n) = At(d)
    BY <2>2, <2>4, <2>5 DEF HistoryFile, At
  <2>7. Ahead(HistoryFile(n)) = d
    BY <2>6, Places
  <2> QED
    BY <1>1, <1>2, <1>4, <2>1, <2>7
<1> QED
  BY <1>3, <1>4

\* How far advanceOpNr goes.
LEMMA Advance ==
    ASSUME TypeOK, GapInv, pc = "erase"
    PROVE  /\ erase.upTo \in OpNr /\ erase.n \in Nat
           /\ Ahead(erase.upTo) \in Nat /\ Ahead(erase.upTo) < InUse
           /\ InUse \in Nat /\ InUse <= MaxPending
           /\ Distance(opBegin, NextOpNr(erase.upTo)) = Ahead(erase.upTo) + 1
           /\ head = NoReq
<1>1. erase.upTo \in OpNr /\ erase.n \in Nat /\ opBegin \in OpNr
  BY DEF TypeOK, Erase
<1>2. /\ Ahead(erase.upTo) \in Nat /\ Ahead(erase.upTo) < InUse
      /\ InUse \in Nat /\ InUse <= MaxPending
  BY <1>1, Around DEF GapInv, ErasingNearest, Live, SparseRing
<1>3. Ahead(erase.upTo) < MaxOpNr - 1
  BY <1>2, Sizes
<1>4. Distance(opBegin, NextOpNr(erase.upTo)) = Ahead(erase.upTo) + 1
  BY <1>1, <1>3, NextDistance DEF Ahead
<1>5. head = NoReq
  BY DEF GapInv, HeadNearest
<1> QED
  BY <1>1, <1>2, <1>4, <1>5

\* advanceOpNr erases a file of the history, or looks for one in a hole.
LEMMA EraseFileGap ==
    ASSUME Tolerant, TypeOK, GapInv, EraseFile
    PROVE  GapInv'
<1> DEFINE x == HistoryFile(erase.n)
           far == MaxOpNr - HistorySize
<1>1. /\ pc = "erase" /\ erase.n < Ahead(erase.upTo) + 1
      /\ file' = [file EXCEPT ![x] = NoFile] /\ erase' = [erase EXCEPT !.n = erase.n + 1]
      /\ UNCHANGED <<opBegin, opEnd, head, tail, first, pc, handling>>
      /\ UNCHANGED <<pushed, txs, writeFails, stored, done, dropped>>
  BY Advance DEF EraseFile, ram, bounds, history
<1>2. /\ erase.upTo \in OpNr /\ erase.n \in Nat
      /\ Ahead(erase.upTo) \in Nat /\ Ahead(erase.upTo) < InUse
      /\ InUse \in Nat /\ InUse <= MaxPending /\ head = NoReq
  BY <1>1, Advance
<1>3. /\ far \in Nat /\ InUse <= far /\ HistorySize \in Nat /\ HistorySize > 0
      /\ MaxOpNr \in Nat /\ erase.n < MaxOpNr
  BY <1>1, <1>2, Sizes DEF Tolerant
<1>4. /\ x \in OpNr
      /\ \/ Ahead(x) = far + erase.n /\ Ahead(x) < MaxOpNr
         \/ far + erase.n >= MaxOpNr /\ Ahead(x) < Ahead(erase.upTo)
  <2>1. CASE erase.n < HistorySize
    BY <1>2, <1>3, <2>1, HistoryPlace, Around
  <2>2. CASE ~(erase.n < HistorySize)
    <3>1. Ahead(x) = erase.n - HistorySize /\ x \in OpNr
      BY <1>2, <1>3, <2>2, HistoryPlace
    <3>2. erase.n - HistorySize < Ahead(erase.upTo)
      BY <1>1, <1>2, <1>3
    <3> QED
      BY <1>2, <1>3, <2>2, <3>1, <3>2
  <2> QED
    BY <2>1, <2>2
<1> HIDE DEF x
<1>5. /\ Owed' = Owed /\ InUse' = InUse /\ \A n : Ahead(n)' = Ahead(n) /\ Live(n)' = Live(n)
      /\ Entries' = Entries
  BY <1>1 DEF Owed, InUse, Ahead, Live, Entries
<1>6. file'[x] = NoFile /\ \A n \in OpNr : file'[n] = file[n] \/ file'[n] = NoFile
  BY <1>1, <1>4 DEF TypeOK
<1>7. /\ \A m \in OpNr : Ahead(m) < Ahead(erase.upTo) => file[m] = NoFile
      /\ file[erase.upTo].seq \notin Owed
      /\ \A n \in OpNr : Ahead(n) >= far /\ Ahead(n) < far + erase.n => file[n] = NoFile
      /\ erase.then = "cached" => Ahead(erase.upTo) + 1 = InUse
  BY <1>1 DEF GapInv, ErasingNearest, Nearest
<1>8. \A n \in OpNr : Ahead(n) < InUse => file'[n] = file[n]
  <2> SUFFICES ASSUME NEW n \in OpNr, Ahead(n) < InUse PROVE file'[n] = file[n]
    OBVIOUS
  <2>1. CASE n # x
    BY <1>1, <2>1 DEF TypeOK
  <2>2. CASE n = x
    <3>1. Ahead(x) < Ahead(erase.upTo)
      BY <1>2, <1>3, <1>4, <2>2
    <3> QED
      BY <1>4, <1>6, <1>7, <2>2, <3>1
  <2> QED
    BY <2>1, <2>2
<1>9. SparseRing'
  <2>1. PICK k \in Nat : k = InUse
    BY <1>2
  <2>2. Sparse(k)
    BY <1>1, <2>1 DEF GapInv, SparseRing
  <2>3. Holes(k)' = Holes(k)
    BY <1>5, <1>8, <2>1 DEF Holes
  <2>4. Sparse(k)'
    <3>1. \A n \in OpNr : Ahead(n) >= k /\ Ahead(n) < MaxOpNr - HistorySize => file'[n] = NoFile
      BY <1>6, <2>2 DEF Sparse
    <3>2. \A n \in OpNr : Ahead(n) < k /\ file'[n] # NoFile => file'[n].kind \in TxKind
      BY <1>8, <2>1, <2>2 DEF Sparse
    <3>3. \A s \in Owed : \E n \in OpNr : Ahead(n) < k /\ file'[n].seq = s
      BY <1>8, <2>1, <2>2 DEF Sparse
    <3> QED
      BY <1>1, <1>5, <2>2, <2>3, <3>1, <3>2, <3>3 DEF Sparse
  <2> QED
    BY <1>1, <1>2, <1>5, <2>1, <2>4 DEF SparseRing, Sparse, Holes
<1>10. \A r \in Request : InPlace(r) => InPlace(r)'
  <2> SUFFICES ASSUME NEW r \in Request, InPlace(r), r.opNr >= 0, Live(r.opNr)
               PROVE  file'[r.opNr] = file[r.opNr]
    BY <1>1, <1>5 DEF InPlace
  <2>1. r.opNr \in OpNr /\ Ahead(r.opNr) < InUse
    BY DEF Request, Live
  <2> QED
    BY <1>8, <2>1
<1>11. HeadNearest' /\ HeadVacant'
  BY <1>1, <1>2 DEF GapInv, HeadNearest, HeadVacant
<1>12. TailPlaces'
  BY <1>1, <1>5, <1>10, RamTypes DEF GapInv, TailPlaces
<1>13. ErasingNearest'
  <2>1. erase'.upTo = erase.upTo /\ erase'.n = erase.n + 1 /\ erase'.then = erase.then
    BY <1>1 DEF TypeOK, Erase
  <2>2. PICK u \in OpNr : u = erase.upTo
    BY <1>2
  <2>3. Live(u)' /\ Nearest(u)' /\ file'[u].seq \notin Owed' /\ Ahead(u)' = Ahead(u)
    BY <1>2, <1>5, <1>6, <1>7, <1>8, <2>2 DEF Live, Nearest
  <2>4. ASSUME NEW n \in OpNr, Ahead(n) >= far, Ahead(n) < far + (erase.n + 1)
        PROVE  file'[n] = NoFile
    <3>1. Ahead(n) \in Nat /\ Ahead(n) < MaxOpNr /\ At(Ahead(n)) = n /\ At(Ahead(x)) = x
      BY <1>4, Around
    <3>2. CASE Ahead(n) < far + erase.n
      BY <1>6, <1>7, <2>4, <3>2
    <3>3. CASE ~(Ahead(n) < far + erase.n)
      <4>1. Ahead(n) = far + erase.n
        BY <1>2, <1>3, <2>4, <3>1, <3>3
      <4>2. n = x
        BY <1>4, <3>1, <4>1, <1>2, <1>3
      <4> QED
        BY <1>6, <4>2
    <3> QED
      BY <3>2, <3>3
  <2>5. /\ Live(erase.upTo)' /\ Nearest(erase.upTo)'
        /\ (file[erase.upTo].seq \notin Owed)'
        /\ erase'.then = "cached" => Ahead(erase.upTo)' + 1 = InUse'
    BY <1>5, <1>7, <2>1, <2>2, <2>3 DEF Live, Nearest, Ahead
  <2> QED
    BY <1>5, <2>1, <2>4, <2>5 DEF ErasingNearest
<1>14. Within'
  BY <1>1 DEF GapInv, Within
<1> QED
  BY <1>9, <1>11, <1>12, <1>13, <1>14 DEF GapInv

\* When opBegin is saved, what is not passed comes nearer, and the slots that join the far end
\* of the ring were emptied before.
LEMMA SaveBeginGap ==
    ASSUME Tolerant, TypeOK, GapInv, SaveBegin
    PROVE  GapInv'
<1>1. /\ pc = "erase" /\ erase.n >= Distance(opBegin, NextOpNr(erase.upTo))
      /\ opBegin' = NextOpNr(erase.upTo) /\ pc' = erase.then
      /\ UNCHANGED <<file, opEnd, head, tail, first, handling>>
      /\ UNCHANGED <<pushed, txs, writeFails, stored, done, dropped>>
  BY DEF SaveBegin, ram, bounds, history
<1>2. /\ erase.upTo \in OpNr /\ erase.n \in Nat
      /\ Distance(opBegin, NextOpNr(erase.upTo)) = Ahead(erase.upTo) + 1
      /\ InUse \in Nat /\ InUse <= MaxPending /\ head = NoReq
  BY <1>1, Advance
<1>3. PICK u \in Nat : u = Ahead(erase.upTo) /\ u < InUse
  BY <1>1, Advance
<1>4. /\ MaxOpNr \in Nat /\ MaxPending \in Nat /\ HistorySize \in Nat /\ HistorySize > 0
      /\ MaxPending < MaxOpNr - HistorySize /\ erase.n >= u + 1
  BY <1>1, <1>2, <1>3, Sizes DEF Tolerant
<1>5. erase.then \in {"fetch", "cached", "panic"}
  BY DEF TypeOK, Erase
<1>6. Owed' = Owed /\ Entries' = Entries
  BY <1>1 DEF Owed, Entries
<1>7. ASSUME NEW n \in OpNr
      PROVE  /\ Ahead(n) \in Nat /\ Ahead(n) < MaxOpNr
             /\ Ahead(n)' \in Nat
             /\ Ahead(n) > u => Ahead(n)' = Ahead(n) - (u + 1)
             /\ Ahead(n) <= u => Ahead(n)' = Ahead(n) + MaxOpNr - (u + 1)
  <2>1. /\ opBegin \in OpNr /\ opBegin \in Nat /\ opBegin < MaxOpNr
        /\ n \in Nat /\ n < MaxOpNr
        /\ erase.upTo \in Nat /\ erase.upTo < MaxOpNr
    BY <1>2, Around
  <2>2. Ahead(n) = IF n < opBegin THEN n - opBegin + MaxOpNr ELSE n - opBegin
    BY <2>1, DistanceIs DEF Ahead
  <2>3. u = IF erase.upTo < opBegin THEN erase.upTo - opBegin + MaxOpNr ELSE erase.upTo - opBegin
    BY <1>2, <1>3, <2>1, DistanceIs DEF Ahead
  <2>4. opBegin' \in OpNr /\ opBegin' = IF erase.upTo + 1 < MaxOpNr THEN erase.upTo + 1 ELSE 0
    <3>1. PICK e \in Nat : e = erase.upTo + 1 /\ e < 2 * MaxOpNr
      BY <1>4, <2>1
    <3>2. e % MaxOpNr = IF e < MaxOpNr THEN e ELSE e - MaxOpNr
      BY <3>1, Remainder
    <3>3. ~(e < MaxOpNr) => e - MaxOpNr = 0
      BY <1>4, <2>1, <3>1
    <3> QED
      BY <1>1, <1>2, <3>1, <3>2, <3>3, NextOpNrType DEF NextOpNr
  <2>5. Ahead(n)' = IF n < opBegin' THEN n - opBegin' + MaxOpNr ELSE n - opBegin'
    <3>1. \A b \in OpNr : Distance(b, n) = IF n < b THEN n - b + MaxOpNr ELSE n - b
      BY DistanceIs
    <3> QED
      BY <2>4, <3>1 DEF Ahead
  <2> QED
    BY <1>4, <2>1, <2>2, <2>3, <2>4, <2>5
<1>8. InUse' = InUse - (u + 1)
  <2>1. PICK e \in OpNr : e = opEnd /\ Ahead(e) = InUse
    BY Around
  <2>2. Ahead(e)' = InUse - (u + 1)
    BY <1>2, <1>3, <1>7, <2>1
  <2> QED
    BY <1>1, <2>1, <2>2 DEF InUse, Ahead
<1>9. PICK k \in Nat : k = InUse - (u + 1)
  BY <1>2, <1>3
<1>10. \A n \in OpNr : Ahead(n)' < k => Ahead(n) < InUse /\ Ahead(n) > u
  BY <1>2, <1>4, <1>7, <1>9
<1>11. /\ \A m \in OpNr : Ahead(m) < u => file[m] = NoFile
       /\ \A m \in OpNr : Ahead(m) = u => m = erase.upTo
       /\ file[erase.upTo].seq \notin Owed
       /\ \A n \in OpNr : Ahead(n) >= MaxOpNr - HistorySize
                          /\ Ahead(n) < MaxOpNr - HistorySize + erase.n => file[n] = NoFile
       /\ erase.then = "cached" => u + 1 = InUse
  <2>1. \A m \in OpNr : At(Ahead(m)) = m
    BY Around
  <2> QED
    BY <1>1, <1>2, <1>3, <2>1 DEF GapInv, ErasingNearest, Nearest
<1>12. PICK j \in Nat : j = InUse /\ Sparse(j)
  <2>1. Sparse(InUse)
    BY <1>1 DEF GapInv, SparseRing
  <2> QED
    BY <1>2, <2>1
<1>13. SparseRing'
  <2>1. ASSUME NEW n \in OpNr, Ahead(n)' >= k, Ahead(n)' < MaxOpNr - HistorySize
        PROVE  file[n] = NoFile
    <3>1. CASE Ahead(n) < u
      BY <1>11, <3>1
    <3>2. CASE Ahead(n) = u
      BY <1>4, <1>7, <2>1, <3>2
    <3>3. CASE Ahead(n) > u
      <4>1. Ahead(n) >= InUse /\ Ahead(n) < MaxOpNr - HistorySize + u + 1
        BY <1>2, <1>4, <1>7, <1>9, <2>1, <3>3
      <4>2. CASE Ahead(n) < MaxOpNr - HistorySize
        BY <1>12, <4>1, <4>2 DEF Sparse
      <4>3. CASE ~(Ahead(n) < MaxOpNr - HistorySize)
        <5>1. /\ Ahead(n) >= MaxOpNr - HistorySize
              /\ Ahead(n) < MaxOpNr - HistorySize + erase.n
          BY <1>2, <1>4, <1>7, <4>1, <4>3
        <5> QED
          BY <1>11, <5>1
      <4> QED
        BY <4>2, <4>3
    <3> QED
      BY <1>7, <3>1, <3>2, <3>3
  <2>2. \A n \in OpNr : Ahead(n)' < k /\ file[n] # NoFile => file[n].kind \in TxKind
    BY <1>10, <1>12 DEF Sparse
  <2>3. ASSUME NEW s \in Owed
        PROVE  \E n \in OpNr : Ahead(n)' < k /\ file[n].seq = s
    <3>1. PICK n \in OpNr : Ahead(n) < InUse /\ file[n].seq = s
      BY <1>12 DEF Sparse
    <3>2. s # 0
      BY DEF Owed, TypeOK, Seqs
    <3>3. ~(Ahead(n) < u)
      BY <1>11, <3>1, <3>2 DEF NoFile
    <3>4. Ahead(n) # u
      BY <1>11, <3>1
    <3>5. Ahead(n) > u
      BY <1>7, <3>3, <3>4
    <3> QED
      BY <1>2, <1>7, <1>9, <3>1, <3>5
  <2>4. Cardinality(Holes(k)') <= writeFails
    <3>1. Holes(k)' \subseteq Holes(j)
      BY <1>1, <1>10, <1>12 DEF Holes
    <3>2. /\ IsFiniteSet(Holes(k)') /\ Cardinality(Holes(k)') <= Cardinality(Holes(j))
          /\ IsFiniteSet(Holes(j))
      BY <3>1, FewerHoles
    <3>3. Cardinality(Holes(k)') \in Nat /\ Cardinality(Holes(j)) \in Nat
      BY <3>2, FS_CardinalityType
    <3> QED
      BY <1>12, <3>2, <3>3 DEF Sparse, TypeOK
  <2>5. Sparse(k)'
    BY <1>1, <1>6, <2>1, <2>2, <2>3, <2>4 DEF Sparse
  <2>6. InUse' <= MaxPending /\ pc' # "off"
    BY <1>1, <1>2, <1>4, <1>5, <1>8
  <2> QED
    BY <1>8, <1>9, <2>5, <2>6 DEF SparseRing, Sparse, Holes
<1>14. HeadNearest'
  BY <1>1, <1>2 DEF HeadNearest
<1>15. HeadVacant'
  <2>1. ~first'
    BY <1>1 DEF GapInv, HeadVacant
  <2>2. pc' = "cached" => Vacant'
    <3> SUFFICES ASSUME pc' = "cached", NEW n \in OpNr, Live(n)' PROVE FALSE
      BY DEF Vacant
    <3>1. InUse' = 0
      BY <1>1, <1>2, <1>3, <1>8, <1>11
    <3>2. Ahead(n)' \in Nat /\ Ahead(n)' < 0
      BY <1>7, <3>1 DEF Live
    <3> QED
      BY <3>2
  <2>3. pc' \in {"fetch", "cached", "panic"}
    BY <1>1, <1>5
  <2> QED
    BY <2>1, <2>2, <2>3 DEF HeadVacant
<1>16. TailPlaces'
  <2>1. ASSUME NEW r \in Entries
        PROVE  InPlace(r)'
    <3>1. InPlace(r) /\ r \in Request
      BY RamTypes DEF GapInv, TailPlaces
    <3>2. r.opNr >= 0 /\ Live(r.opNr)' => Live(r.opNr)
      <4> SUFFICES ASSUME NEW n \in OpNr, n = r.opNr, Live(n)' PROVE Live(n)
        BY <3>1 DEF Request
      <4> QED
        BY <1>8, <1>9, <1>10 DEF Live
    <3> QED
      BY <1>1, <3>1, <3>2 DEF InPlace
  <2> QED
    BY <1>1, <1>6, <2>1 DEF GapInv, TailPlaces
<1>17. ErasingNearest'
  BY <1>1, <1>5 DEF ErasingNearest
<1>18. Within'
  BY <1>1 DEF GapInv, Within
<1> QED
  BY <1>13, <1>14, <1>15, <1>16, <1>17, <1>18 DEF GapInv

\* The first cached request becomes the head: it is at opBegin, was passed, or has no op file.
LEMMA TakenGap ==
    ASSUME TypeOK, GapInv, pc \in {"fetch", "cached"}, pc' = "drop", TakeCached,
           CacheHit \/ Vacant,
           UNCHANGED <<opBegin, file, opEnd, first, handling>>,
           UNCHANGED <<pushed, txs, writeFails, stored, done, dropped>>
    PROVE  GapInv'
<1>1. Owed' = Owed
  BY DEF Owed
<1>2. SparseRing'
  BY <1>1, SparseRingKept DEF GapInv
<1>3. /\ InUse' = InUse /\ Vacant' = Vacant
      /\ \A n : Ahead(n)' = Ahead(n) /\ Live(n)' = Live(n) /\ Nearest(n)' = Nearest(n)
      /\ \A r : InPlace(r)' = InPlace(r)
  BY PlacesKept
<1>4. ~first /\ ~first'
  BY DEF GapInv, HeadVacant
<1>5. tail \in Seq(Request) /\ Len(tail) \in Nat /\ DOMAIN tail = 1..Len(tail)
  BY DEF TypeOK
<1>6. TailPlaces /\ Within
  BY DEF GapInv
<1>7. ErasingNearest' /\ Within'
  BY <1>6 DEF ErasingNearest, Within
<1>8. CASE tail = <<>>
  <2>1. head' = NoReq /\ tail' = <<>> /\ Vacant
    BY <1>8 DEF TakeCached, CacheHit
  <2>2. HeadNearest' /\ HeadVacant'
    BY <1>3, <1>4, <2>1 DEF HeadNearest, HeadVacant
  <2>3. TailPlaces'
    BY <2>1 DEF TailPlaces, Entries, Ordered
  <2> QED
    BY <1>2, <1>7, <2>2, <2>3 DEF GapInv
<1>9. CASE tail # <<>>
  <2>1. PICK r \in Request : r = tail[1] /\ 1 \in DOMAIN tail
    BY <1>5, <1>9
  <2>2. head' = r /\ tail' = Tail(tail)
    BY <1>5, <1>9, <2>1 DEF TakeCached
  <2>3. InPlace(r)
    BY <1>6, <2>1 DEF TailPlaces, Entries
  <2>4. r.opNr >= 0 /\ Live(r.opNr) => Nearest(r.opNr)
    <3> SUFFICES ASSUME r.opNr >= 0, Live(r.opNr) PROVE Nearest(r.opNr)
      OBVIOUS
    <3>1. r.opNr \in OpNr
      BY DEF Request
    <3>2. ~Vacant
      BY <2>3, <3>1 DEF InPlace, Vacant
    <3>3. PICK i \in DOMAIN tail : tail[i].opNr = opBegin
      BY <3>2 DEF CacheHit
    <3>4. opBegin \in OpNr /\ Ahead(opBegin) = 0 /\ opBegin >= 0
      BY RoundTrip, RingType DEF TypeOK, Ahead
    <3>5. PICK a \in Nat, b \in Nat : a = Distance(opEnd, r.opNr) /\ b = Distance(opEnd, opBegin)
      BY <3>1, <3>4, Around
    <3>6. /\ MaxOpNr \in Nat /\ InUse \in Nat /\ Ahead(r.opNr) \in Nat /\ a < MaxOpNr
          /\ a + InUse < MaxOpNr => Ahead(r.opNr) = a + InUse
          /\ a + InUse >= MaxOpNr => Ahead(r.opNr) = a + InUse - MaxOpNr
          /\ b < MaxOpNr
          /\ b + InUse < MaxOpNr => 0 = b + InUse
          /\ b + InUse >= MaxOpNr => 0 = b + InUse - MaxOpNr
      BY <3>1, <3>4, <3>5, Around, Sizes
    <3>7. Ahead(r.opNr) < InUse
      BY DEF Live
    <3>8. i = 1
      <4> SUFFICES ASSUME i # 1 PROVE FALSE
        OBVIOUS
      <4>1. 1 < i
        BY <1>5
      <4>2. a < b
        BY <1>6, <2>1, <3>3, <3>4, <3>5, <4>1 DEF TailPlaces, Ordered
      <4> QED
        BY <3>6, <3>7, <4>2
    <3>9. Ahead(r.opNr) = 0
      BY <2>1, <3>3, <3>4, <3>8
    <3>10. \A m \in OpNr : ~(Ahead(m) < 0)
      BY Around
    <3> QED
      BY <3>9, <3>10 DEF Nearest
  <2>5. HeadNearest'
    <3>1. InPlace(r)' /\ (r.opNr >= 0 /\ Live(r.opNr)' => Nearest(r.opNr)')
      BY <1>3, <2>3, <2>4
    <3> QED
      BY <1>4, <2>2, <3>1 DEF HeadNearest, InPlace, Live, Nearest, Ahead, InUse
  <2>6. HeadVacant'
    <3>1. head' # NoReq \/ Vacant'
      <4> SUFFICES ASSUME r = NoReq PROVE FALSE
        BY <2>2
      <4>1. r.kind = "other" /\ r.seq = 0
        BY DEF NoReq
      <4> QED
        BY <2>3, <4>1 DEF InPlace
    <3> QED
      BY <1>4, <3>1 DEF HeadVacant
  <2>7. TailPlaces'
    <3>1. Ordered(opEnd', tail')
      BY <1>5, <1>6, <1>9, <2>2, OrderedRemove DEF TailPlaces
    <3>2. Entries' \subseteq Entries
      <4>1. \A i \in DOMAIN Tail(tail) : Tail(tail)[i] \in Entries
        BY <1>5, <1>9 DEF Entries
      <4> QED
        BY <2>2, <4>1 DEF Entries
    <3> QED
      BY <1>3, <1>6, <3>1, <3>2 DEF TailPlaces
  <2> QED
    BY <1>2, <1>7, <2>5, <2>6, <2>7 DEF GapInv
<1> QED
  BY <1>8, <1>9

LEMMA FetchCachedGap ==
    ASSUME TypeOK, GapInv, FetchCached \/ SkipToCached
    PROVE  GapInv'
<1>1. /\ pc \in {"fetch", "cached"} /\ pc' = "drop" /\ TakeCached
      /\ UNCHANGED <<opBegin, file, opEnd, first, handling>>
      /\ UNCHANGED <<pushed, txs, writeFails, stored, done, dropped>>
  BY DEF FetchCached, SkipToCached, flash, bounds, history
<1>2. CacheHit \/ Vacant
  <2>1. CASE SkipToCached
    BY <2>1 DEF SkipToCached, GapInv, HeadVacant
  <2>2. ASSUME \A d \in 0..(InUse - 1) : ~IsStored(d)
        PROVE  Vacant
    <3> SUFFICES ASSUME NEW n \in OpNr, Live(n) PROVE file[n] = NoFile
      BY DEF Vacant
    <3>1. Ahead(n) \in 0..(InUse - 1) /\ At(Ahead(n)) = n
      BY Around DEF Live
    <3> QED
      BY <2>2, <3>1 DEF IsStored
  <2> QED
    BY <2>1, <2>2 DEF FetchCached
<1> QED
  BY <1>1, <1>2, TakenGap

\* The next stored request, which is in RAM already if a hole lies before it, becomes the head.
LEMMA FetchFlashGap ==
    ASSUME TypeOK, GapInv, NEW d \in OpNr, FetchFlash(d)
    PROVE  GapInv'
<1> DEFINE new == [seq |-> file[At(d)].seq, kind |-> file[At(d)].kind, opNr |-> At(d),
                   id |-> file[At(d)].id]
<1>1. /\ pc = "fetch" /\ pc' = "drop" /\ d < InUse /\ FirstStored(d) /\ head' = new
      /\ UNCHANGED <<opBegin, file, opEnd, tail, first, handling>>
      /\ UNCHANGED <<pushed, txs, writeFails, stored, done, dropped>>
  BY DEF FetchFlash, flash, bounds, history
<1>2. At(d) \in OpNr /\ Ahead(At(d)) = d /\ file[At(d)] \in OpFile
  BY Places DEF TypeOK
<1>3. new \in Request
  BY <1>2 DEF Request, OpFile
<1> PICK r \in Request : r = new
  BY <1>3, Zenon
<1>4. /\ head' = r /\ r.opNr = At(d) /\ r.seq = file[At(d)].seq /\ r.kind = file[At(d)].kind
      /\ r.opNr \in OpNr /\ r.opNr >= 0 /\ r # NoReq
  <2>1. /\ r.opNr = At(d) /\ r.seq = file[At(d)].seq /\ r.kind = file[At(d)].kind
        /\ NoReq.opNr = -1
    BY DEF NoReq
  <2>2. At(d) \in Nat
    BY <1>2, RingType
  <2> HIDE DEF new
  <2> QED
    BY <1>1, <1>2, <2>1, <2>2
<1> HIDE DEF new
<1>5. file[At(d)] # NoFile
  BY <1>1 DEF FirstStored, IsStored
<1>6. Owed' = Owed /\ Entries' = Entries
  BY <1>1 DEF Owed, Entries
<1>7. SparseRing'
  BY <1>1, <1>6, SparseRingKept DEF GapInv
<1>8. /\ InUse' = InUse
      /\ \A n : Ahead(n)' = Ahead(n) /\ Live(n)' = Live(n) /\ Nearest(n)' = Nearest(n)
      /\ \A q : InPlace(q)' = InPlace(q)
  BY <1>1, PlacesKept
<1>9. Nearest(r.opNr)
  <2> SUFFICES ASSUME NEW m \in OpNr, Ahead(m) < d PROVE file[m] = NoFile
    BY <1>2, <1>4 DEF Nearest
  <2>1. Ahead(m) \in 0..(d - 1) /\ At(Ahead(m)) = m
    BY Around, RingType
  <2> QED
    BY <1>1, <2>1 DEF FirstStored, IsStored
<1>10. InPlace(r)
  <2>1. r.kind \in TxKind
    BY <1>1, <1>2, <1>4, <1>5 DEF GapInv, SparseRing, Sparse
  <2>2. Distance(opEnd, r.opNr) >= MaxOpNr - MaxPending - txs
    <3>1. PICK a \in Nat : a = Distance(opEnd, r.opNr)
      BY <1>4, Around
    <3>2. /\ InUse \in Nat /\ InUse <= MaxPending /\ d \in Nat /\ txs \in Nat
          /\ MaxOpNr \in Nat /\ MaxPending \in Nat
          /\ a + InUse < MaxOpNr => d = a + InUse
          /\ a + InUse >= MaxOpNr => d = a + InUse - MaxOpNr
      BY <1>1, <1>2, <1>4, <3>1, Around, Sizes, RingType DEF GapInv, SparseRing, TypeOK
    <3> QED
      BY <1>1, <3>1, <3>2
  <2> QED
    BY <1>4, <1>5, <2>1, <2>2 DEF InPlace, TxKind
<1>11. ~first /\ ~first'
  BY <1>1 DEF GapInv, HeadVacant
<1>12. HeadNearest'
  <2>1. InPlace(r)' /\ Nearest(r.opNr)'
    BY <1>8, <1>9, <1>10
  <2> QED
    BY <1>1, <1>4, <1>11, <2>1 DEF HeadNearest, InPlace, Live, Nearest, Ahead, InUse
<1>13. HeadVacant' /\ ErasingNearest'
  BY <1>1, <1>4, <1>11 DEF HeadVacant, ErasingNearest
<1>14. TailPlaces' /\ Within'
  BY <1>1, <1>6, <1>8 DEF GapInv, TailPlaces, Within
<1> QED
  BY <1>7, <1>12, <1>13, <1>14 DEF GapInv

\* advanceOpNr does not lose sight of an op that is given up: there are not holes enough before
\* it.
LEMMA FetchFailsGap ==
    ASSUME Tolerant, TypeOK, GapInv, NEW d \in OpNr, FetchFails(d)
    PROVE  GapInv'
<1>1. /\ pc = "fetch" /\ d < InUse /\ FirstStored(d) /\ dropped' = dropped \cup {file[At(d)].seq}
      /\ UNCHANGED <<opBegin, file, opEnd, head, tail, first, handling>>
      /\ UNCHANGED <<pushed, txs, writeFails, stored, done>>
  BY DEF FetchFails, flash, bounds
<1>2. At(d) \in OpNr /\ Ahead(At(d)) = d /\ d \in Nat
  BY Places, RingType
<1>3. InSync(At(d))
  <2>1. PICK k \in Nat : k = InUse /\ k < MaxOpNr
    BY Around
  <2>2. \A e \in 0..(d - 1) : ~IsStored(e)
    BY <1>1 DEF FirstStored
  <2>3. d - 0 <= Cardinality(Holes(k)) /\ Cardinality(Holes(k)) \in Nat
    <3>1. d <= k /\ 0 <= d
      BY <1>1, <1>2, <2>1
    <3> QED
      BY <1>2, <2>1, <2>2, <3>1, GapsAreHoles
  <2>4. Cardinality(Holes(k)) <= writeFails
    BY <1>1, <2>1 DEF GapInv, SparseRing, Sparse
  <2>5. /\ writeFails <= MaxWriteFails /\ MaxWriteFails < SyncWindow
        /\ {writeFails, MaxWriteFails, SyncWindow} \subseteq Nat
    BY QueueAssumption DEF GapInv, Within, Tolerant, TypeOK
  <2>6. d < SyncWindow
    BY <1>2, <2>3, <2>4, <2>5
  <2> QED
    BY <1>2, <2>6 DEF InSync, Ahead
<1> DEFINE next == IF d + 1 < InUse THEN "panic" ELSE "cached"
<1>4. pc' = "erase" /\ erase' = [upTo |-> At(d), n |-> 0, then |-> next]
  BY <1>3 DEF FetchFails
<1>5. Owed' \subseteq Owed /\ file[At(d)].seq \notin Owed' /\ Entries' = Entries
  BY <1>1 DEF Owed, Entries
<1>6. SparseRing'
  BY <1>1, <1>4, <1>5, SparseRingKept DEF GapInv
<1>7. /\ InUse' = InUse
      /\ \A n : Ahead(n)' = Ahead(n) /\ Live(n)' = Live(n) /\ Nearest(n)' = Nearest(n)
      /\ \A q : InPlace(q)' = InPlace(q)
  BY <1>1, PlacesKept
<1>8. head' = NoReq /\ ~first'
  BY <1>1 DEF GapInv, HeadNearest, HeadVacant
<1>9. HeadNearest' /\ HeadVacant'
  BY <1>4, <1>8 DEF HeadNearest, HeadVacant
<1>10. TailPlaces' /\ Within'
  BY <1>1, <1>5, <1>7 DEF GapInv, TailPlaces, Within
<1>11. ErasingNearest'
  <2>1. PICK u \in OpNr : u = At(d)
    BY <1>2
  <2>2. erase'.upTo = u /\ erase'.n = 0 /\ erase'.then = next
    BY <1>4, <2>1
  <2>3. Nearest(u)
    <3> SUFFICES ASSUME NEW m \in OpNr, Ahead(m) < d PROVE file[m] = NoFile
      BY <1>2, <2>1 DEF Nearest
    <3>1. Ahead(m) \in 0..(d - 1) /\ At(Ahead(m)) = m
      BY <1>2, Around
    <3> QED
      BY <1>1, <3>1 DEF FirstStored, IsStored
  <2>4. Live(u)' /\ Nearest(u)' /\ Ahead(u) = d
    BY <1>1, <1>2, <1>7, <2>1, <2>3 DEF Live
  <2>5. Live(erase.upTo)' /\ Nearest(erase.upTo)' /\ (file[erase.upTo].seq \notin Owed)'
    BY <1>1, <1>5, <2>1, <2>2, <2>4 DEF Live, Nearest, Ahead
  <2>6. next = "cached" => d + 1 = InUse
    BY <1>1, <1>2, Around
  <2>7. ASSUME NEW n \in OpNr, Ahead(n) >= MaxOpNr - HistorySize,
               Ahead(n) < MaxOpNr - HistorySize + 0
        PROVE  FALSE
    <3>1. Ahead(n) \in Nat /\ MaxOpNr - HistorySize \in Int
      BY Around, Sizes
    <3> QED
      BY <2>7, <3>1
  <2>8. erase'.then = "cached" => Ahead(erase'.upTo) + 1 = InUse
    BY <2>2, <2>4, <2>6
  <2> HIDE DEF next
  <2> QED
    BY <1>1, <1>7, <2>2, <2>5, <2>7, <2>8 DEF ErasingNearest, Ahead
<1> QED
  BY <1>6, <1>9, <1>10, <1>11 DEF GapInv

-----------------------------------------------------------------------------
(* Resets, with holes in the ring *)

\* A power cut or a panic leaves the flash as it is, whatever the handler was about to write.
LEMMA LoseRamGap ==
    ASSUME TypeOK, GapInv, pc # "off", LoseRam
    PROVE  GapInv'
<1>1. /\ pc' = "off" /\ head' = NoReq /\ tail' = <<>> /\ first' /\ handling' = Idle
      /\ UNCHANGED <<opBegin, file, pushed, txs, writeFails, stored>> /\ Owed' = Owed
  BY DEF LoseRam, flash, history, Owed
<1>2. PICK k \in 0..MaxPending : Sparse(k)
  <2>1. InUse \in 0..MaxPending /\ Sparse(InUse)
    BY Around, Sizes DEF GapInv, SparseRing
  <2> QED
    BY <2>1
<1>3. SparseRing'
  <2>1. Sparse(k)'
    BY <1>1, <1>2, SparseKept
  <2> QED
    BY <1>1, <2>1 DEF SparseRing
<1>4. HeadNearest' /\ HeadVacant' /\ ErasingNearest' /\ TailPlaces'
  BY <1>1 DEF HeadNearest, HeadVacant, ErasingNearest, TailPlaces, Entries, Ordered
<1>5. Within'
  BY <1>1 DEF GapInv, Within, Idle
<1> QED
  BY <1>3, <1>4, <1>5 DEF GapInv

\* The scan ends behind the last op file (the RequestStore constructor): op numbers whose write
\* failed at the end are handed out again.
LEMMA BootGap ==
    ASSUME Tolerant, TypeOK, GapInv, NEW d \in 0..MaxOpNr, NEW attempts, Boot(d, attempts)
    PROVE  GapInv'
<1>1. /\ pc = "off" /\ ScanEnds(d) /\ opEnd' = At(d) /\ pc' = "idle"
      /\ UNCHANGED <<opBegin, file, head, tail, first, handling>>
      /\ UNCHANGED <<pushed, txs, writeFails, stored>> /\ Owed' = Owed
  BY DEF Boot, flash, bounds, history, Owed
<1>2. PICK k \in 0..MaxPending : Sparse(k)
  BY <1>1 DEF GapInv, SparseRing
<1>3. /\ k \in Nat /\ d \in Nat /\ MaxPending \in Nat /\ MaxOpNr \in Nat /\ MaxPending < MaxOpNr
      /\ \A n \in OpNr : Ahead(n) \in Nat
  BY Sizes, Around
<1>4. \A e \in OpNr : Scanned(e) <=> (e < k /\ IsStored(e))
  BY <1>2, ScanAcross DEF GapInv
<1>5. d <= k
  <2>1. CASE d = 0
    BY <1>3, <2>1
  <2>2. CASE d # 0
    <3>1. Scanned(d - 1) /\ d - 1 \in OpNr
      BY <1>1, <1>3, <2>2 DEF ScanEnds, OpNr
    <3> QED
      BY <1>3, <1>4, <3>1
  <2> QED
    BY <2>1, <2>2
<1>6. \A n \in OpNr : Ahead(n) >= d /\ Ahead(n) < k => file[n] = NoFile
  <2> SUFFICES ASSUME NEW n \in OpNr, Ahead(n) >= d, Ahead(n) < k, file[n] # NoFile PROVE FALSE
    OBVIOUS
  <2>1. Ahead(n) \in OpNr /\ At(Ahead(n)) = n /\ Ahead(n) \in d..(MaxOpNr - 1)
    <3>1. PICK a \in Nat : a = Ahead(n) /\ a < MaxOpNr /\ At(a) = n
      BY Around
    <3>2. a \in OpNr /\ a \in d..(MaxOpNr - 1)
      BY <1>3, <3>1 DEF OpNr
    <3> QED
      BY <3>1, <3>2
  <2>2. Scanned(Ahead(n))
    BY <1>4, <2>1 DEF IsStored
  <2> QED
    BY <1>1, <2>1, <2>2 DEF ScanEnds
<1>7. d \in OpNr
  BY <1>3, <1>5 DEF OpNr
<1>8. InUse' = d
  BY <1>1, <1>7, RoundTrip DEF InUse, TypeOK
<1>9. Sparse(d)
  <2>1. \A n \in OpNr : Ahead(n) >= d /\ Ahead(n) < MaxOpNr - HistorySize => file[n] = NoFile
    BY <1>2, <1>3, <1>6 DEF Sparse
  <2>2. \A n \in OpNr : Ahead(n) < d => Ahead(n) < k
    BY <1>3, <1>5
  <2>3. \A s \in Owed : \E n \in OpNr : Ahead(n) < d /\ file[n].seq = s
    <3> SUFFICES ASSUME NEW s \in Owed PROVE \E n \in OpNr : Ahead(n) < d /\ file[n].seq = s
      OBVIOUS
    <3>1. PICK n \in OpNr : Ahead(n) < k /\ file[n].seq = s
      BY <1>2 DEF Sparse
    <3>2. file[n] # NoFile
      BY <3>1 DEF Owed, TypeOK, Seqs, NoFile
    <3> QED
      BY <1>3, <1>6, <3>1, <3>2
  <2>4. Cardinality(Holes(d)) <= writeFails
    <3>1. Holes(d) \subseteq Holes(k)
      BY <2>2 DEF Holes
    <3>2. /\ IsFiniteSet(Holes(d)) /\ Cardinality(Holes(d)) <= Cardinality(Holes(k))
          /\ IsFiniteSet(Holes(k))
      BY <3>1, FewerHoles
    <3>3. Cardinality(Holes(d)) \in Nat /\ Cardinality(Holes(k)) \in Nat
      BY <3>2, FS_CardinalityType
    <3> QED
      BY <1>2, <3>2, <3>3 DEF Sparse, TypeOK
  <2> QED
    BY <1>2, <2>1, <2>2, <2>3, <2>4 DEF Sparse
<1>10. SparseRing'
  <2>1. Sparse(d)'
    BY <1>1, <1>9, SparseKept
  <2>2. d <= MaxPending
    BY <1>2, <1>3, <1>5
  <2> QED
    BY <1>1, <1>8, <2>1, <2>2 DEF SparseRing, Sparse, Holes
<1>11. head = NoReq /\ tail = <<>> /\ first
  BY <1>1 DEF GapInv, HeadVacant
<1>12. first'
  BY <1>1, <1>11
<1>13. HeadNearest' /\ HeadVacant' /\ ErasingNearest' /\ TailPlaces'
  BY <1>1, <1>11, <1>12 DEF HeadNearest, HeadVacant, ErasingNearest, TailPlaces, Entries, Ordered
<1>14. Within'
  BY <1>1 DEF GapInv, Within
<1> QED
  BY <1>10, <1>13, <1>14 DEF GapInv

\* The invariant is inductive, relative to the types.
LEMMA NextGap == Tolerant /\ TypeOK /\ GapInv /\ [Next]_vars => GapInv'
<1> SUFFICES ASSUME Tolerant, TypeOK, GapInv, [Next]_vars PROVE GapInv'
  OBVIOUS
<1>1. CASE PushVolatile
  BY <1>1, PushVolatileGap
<1>2. CASE \E kind \in TxKind, preBoot \in -1..cuts : PushTx(kind, preBoot)
  BY <1>2, PushTxGap
<1>3. CASE \/ \E error \in BOOLEAN : Send(error)
           \/ Disconnect
           \/ Receive
           \/ \E late \in SUBSET Expirable : Expire(late)
           \/ UNCHANGED vars
  BY <1>3, ConnectionGap
<1>4. CASE DropStep
  BY <1>4, DropHeadGap, DropTailGap, EndDropGap DEF DropStep
<1>5. CASE PopStep
  BY <1>5, EraseFileGap, SaveBeginGap, FetchCachedGap, FetchFlashGap, FetchFailsGap DEF PopStep
<1>6. CASE PowerCut \/ Panic
  BY <1>6, LoseRamGap DEF PowerCut, Panic
<1>7. CASE Restart
  BY <1>7, BootGap DEF Restart
<1> QED
  BY <1>1, <1>2, <1>3, <1>4, <1>5, <1>6, <1>7 DEF Next

\* No transaction request that was stored is lost through the failed writes of others: until it
\* is answered or given up, the scan a boot would start at this moment finds its op file across
\* the holes, whatever was sent twice, reordered or evicted meanwhile.
THEOREM NothingLostAcross ==
    ASSUME Tolerant
    PROVE  Spec => []NoLoss
<1>1. Init => TypeOK /\ GapInv
  BY InitType, InitGap
<1>2. TypeOK /\ GapInv /\ [Next]_vars => (TypeOK /\ GapInv)'
  BY NextType, NextGap
<1>3. TypeOK /\ GapInv => NoLoss
  <2> SUFFICES ASSUME TypeOK, GapInv PROVE NoLoss
    OBVIOUS
  <2>1. PICK k \in 0..MaxPending : Sparse(k)
    <3>1. CASE pc = "off"
      BY <3>1 DEF GapInv, SparseRing
    <3>2. CASE pc # "off"
      <4>1. InUse \in 0..MaxPending /\ Sparse(InUse)
        BY <3>2, Around, Sizes DEF GapInv, SparseRing
      <4> QED
        BY <4>1
    <3> QED
      BY <3>1, <3>2
  <2> QED
    BY <2>1, SparseReach DEF GapInv
<1> QED
  BY <1>1, <1>2, <1>3, PTL DEF Spec

=============================================================================
