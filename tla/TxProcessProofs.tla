--------------------------- MODULE TxProcessProofs ---------------------------
(***************************************************************************)
(* What is proved of the transaction process, for every value of the       *)
(* constants: type correctness, and that no handler works on a transaction *)
(* that does not exist; that each session is reported once (ReportInv);    *)
(* and, as long as no message is lost and no number given back under a     *)
(* pending Authorize request, that the journal leaks no file, keeps the    *)
(* open session and has the transaction of each pending message            *)
(* (JournalInv).                                                           *)
(***************************************************************************)
EXTENDS TxProcess, FiniteSetTheorems, SequenceTheorems, WellFoundedInduction, TLAPS

-----------------------------------------------------------------------------
(* Numbers, places and subsequences *)

\* The ring arithmetic on transaction numbers stays within them.
LEMMA RingType ==
    /\ \A n \in Int : n % TxCnt \in TxNr
    /\ 0 \in TxNr
    /\ TxNr \subseteq Nat
<1>1. TxCnt \in Nat \ {0}
  BY TxAssumption
<1> QED
  BY <1>1 DEF TxNr

\* The neighbours of a transaction number are transaction numbers (createTransaction,
\* allocateTransaction).
LEMMA NeighbourType ==
    ASSUME NEW n \in TxNr
    PROVE  NextNr(n) \in TxNr /\ PrevNr(n) \in TxNr
<1>1. n + 1 \in Int /\ n + TxCnt - 1 \in Int
  BY RingType, TxAssumption
<1> QED
  BY <1>1, RingType DEF NextNr, PrevNr

\* A set of natural numbers has a least one.
LEMMA LeastNat ==
    ASSUME NEW T, T \subseteq Nat, T # {}
    PROVE  \E m \in T : \A k \in T : m <= k
<1> DEFINE R == OpToRel(<, Nat)
<1>1. \E m \in T : \A k \in T : ~(<<k, m>> \in R)
  BY NatLessThanWellFounded, WFMin
<1>2. \A k, m \in T : <<k, m>> \in R <=> k < m
  BY DEF OpToRel
<1>3. \E m \in T : \A k \in T : ~(k < m)
  BY <1>1, <1>2, Zenon
<1>4. \A k, m \in T : ~(k < m) => m <= k
  OBVIOUS
<1> QED
  BY <1>3, <1>4, Zenon

\* The k-th smallest of a set of places exists: the number of smaller members is an injection
\* of the set into the numbers below its cardinality, and so a bijection.
LEMMA Ranks ==
    ASSUME NEW n \in Nat, NEW S, S \subseteq 1..n
    PROVE  /\ Cardinality(S) \in Nat
           /\ \A k \in 1..Cardinality(S) :
                  Nth(S, k) \in S /\ Cardinality({j \in S : j < Nth(S, k)}) = k - 1
           /\ \A i \in S : \E k \in 1..Cardinality(S) : Nth(S, k) = i
<1> DEFINE Below(i) == {j \in S : j < i}
           c == Cardinality(S)
           rank == [i \in S |-> Cardinality(Below(i))]
<1>0. S \subseteq Int
  OBVIOUS
<1>1. IsFiniteSet(S) /\ c \in Nat
  <2>1. IsFiniteSet(1..n)
    BY FS_Interval
  <2>2. IsFiniteSet(S)
    BY <2>1, FS_Subset
  <2> QED
    BY <2>2, FS_CardinalityType
<1>2. \A i \in S : /\ IsFiniteSet(Below(i))
                   /\ Cardinality(Below(i)) \in Nat
                   /\ Cardinality(Below(i)) < c
  <2> TAKE i \in S
  <2>1. Below(i) \in SUBSET S /\ Below(i) # S
    <3>1. i \notin Below(i)
      BY <1>0
    <3> QED
      BY <3>1
  <2>2. IsFiniteSet(Below(i)) /\ Cardinality(Below(i)) <= c /\ Cardinality(Below(i)) # c
    BY <1>1, <2>1, FS_Subset
  <2>3. Cardinality(Below(i)) \in Nat
    BY <2>2, FS_CardinalityType
  <2> HIDE DEF c, Below
  <2> QED
    BY <1>1, <2>2, <2>3
<1>3. \A i, j \in S : i < j => Cardinality(Below(i)) < Cardinality(Below(j))
  <2> SUFFICES ASSUME NEW i \in S, NEW j \in S, i < j
               PROVE  Cardinality(Below(i)) < Cardinality(Below(j))
    OBVIOUS
  <2>1. Below(i) \in SUBSET Below(j) /\ Below(i) # Below(j)
    <3>1. i \in Below(j) /\ i \notin Below(i)
      BY <1>0
    <3>2. \A x \in S : x < i => x < j
      BY <1>0
    <3> QED
      BY <3>1, <3>2
  <2>2. /\ Cardinality(Below(i)) <= Cardinality(Below(j))
        /\ Cardinality(Below(i)) # Cardinality(Below(j))
    BY <1>2, <2>1, FS_Subset
  <2> HIDE DEF Below
  <2> QED
    BY <1>2, <2>2
<1>4. rank \in Injection(S, 0..(c - 1))
  <2> HIDE DEF Below, c
  <2>1. rank \in [S -> 0..(c - 1)]
    BY <1>1, <1>2
  <2>2. \A i, j \in S : i # j => rank[i] # rank[j]
    <3> SUFFICES ASSUME NEW i \in S, NEW j \in S, i # j
                 PROVE  rank[i] # rank[j]
      OBVIOUS
    <3>1. i < j \/ j < i
      BY <1>0
    <3> QED
      BY <1>2, <1>3, <3>1
  <2> HIDE DEF rank
  <2> QED
    BY <2>1, <2>2 DEF Injection, IsInjective
<1>5. rank \in Surjection(S, 0..(c - 1))
  <2>1. IsFiniteSet(0..(c - 1)) /\ Cardinality(0..(c - 1)) = c
    <3>1. 0 \in Int /\ c - 1 \in Int /\ (IF 0 > c - 1 THEN 0 ELSE (c - 1) - 0 + 1) = c
      <4> HIDE DEF c
      <4> QED
        BY <1>1
    <3> QED
      BY <3>1, FS_Interval
  <2> HIDE DEF rank
  <2> QED
    BY <1>4, <2>1, FS_Injection
<1>6. ASSUME NEW k \in 1..c
      PROVE  Nth(S, k) \in S /\ Cardinality(Below(Nth(S, k))) = k - 1
  <2>1. \E i \in S : rank[i] = k - 1
    <3>1. k - 1 \in 0..(c - 1)
      BY <1>1
    <3> HIDE DEF rank, c
    <3> QED
      BY <1>5, <3>1 DEF Surjection
  <2> QED
    BY <2>1 DEF Nth
<1>7. ASSUME NEW i \in S PROVE \E k \in 1..c : Nth(S, k) = i
  <2> DEFINE k == Cardinality(Below(i)) + 1
  <2>1. k \in 1..c /\ k - 1 = Cardinality(Below(i))
    <3> HIDE DEF c, Below
    <3> QED
      BY <1>1, <1>2
  <2>2. Nth(S, k) \in S /\ Cardinality(Below(Nth(S, k))) = Cardinality(Below(i))
    <3> HIDE DEF c, Below, k
    <3> QED
      BY <1>6, <2>1
  <2>3. Nth(S, k) = i
    <3> DEFINE m == Nth(S, k)
    <3>1. m \in S /\ m \in Int /\ i \in Int /\ Cardinality(Below(m)) = Cardinality(Below(i))
      BY <1>0, <2>2
    <3> HIDE DEF m, Below
    <3>2. ~(m < i) /\ ~(i < m)
      BY <1>2, <1>3, <3>1
    <3>3. m = i
      BY <3>1, <3>2
    <3> QED
      BY <3>3 DEF m
  <2> HIDE DEF k
  <2> QED
    BY <2>1, <2>3
<1> QED
  BY <1>1, <1>6, <1>7

\* What is kept of a sequence are the entries at the places of the set.
LEMMA KeepType ==
    ASSUME NEW T, NEW s \in Seq(T), NEW S, S \subseteq DOMAIN s
    PROVE  /\ Keep(s, S) \in Seq(T)
           /\ \A k \in DOMAIN Keep(s, S) : \E i \in S : Keep(s, S)[k] = s[i]
           /\ \A i \in S : \E k \in DOMAIN Keep(s, S) : Keep(s, S)[k] = s[i]
<1>1. Len(s) \in Nat /\ S \subseteq 1..Len(s)
  OBVIOUS
<1>2. Cardinality(S) \in Nat
  BY <1>1, Ranks
<1>3. /\ \A k \in 1..Cardinality(S) : Nth(S, k) \in S
      /\ \A i \in S : \E k \in 1..Cardinality(S) : Nth(S, k) = i
  BY <1>1, Ranks
<1>4. Keep(s, S) \in [1..Cardinality(S) -> T]
  BY <1>1, <1>3 DEF Keep
<1>5. Keep(s, S) \in Seq(T)
  BY <1>2, <1>4, SeqDef
<1> QED
  BY <1>2, <1>3, <1>5 DEF Keep

-----------------------------------------------------------------------------
(* The objects and the helpers of the actions *)

\* A running handler has the transaction it works on, the clean-up of the connector's
\* transaction has one, an answered request is in the queue, and a pending Authorize request
\* holds the transaction its callbacks will change.
HasObject ==
    /\ pc \in {"created", "begin", "start1", "start2", "stop1", "stop2"} => work.o # 0
    /\ pc \in {"collect", "silent"} => tx # 0
    /\ pc \in {"pop", "skip"} => queue # <<>>
    /\ \A i \in DOMAIN queue : queue[i].kind = "auth" => queue[i].o # 0

TypeInv == TypeOK /\ HasObject

\* The transaction of a fresh object.
LEMMA NewTxType ==
    ASSUME NEW n \in TxNr, NEW s \in Nat, NEW silent \in BOOLEAN
    PROVE  NewTx(n, s, silent) \in Tx
BY DEF NewTx, Tx

\* The absent file and the history of a device that was in use.
LEMMA PlaceholderTypes ==
    /\ NoTx \in Tx
    /\ \A n \in TxNr : OldTx(n) \in Tx
    /\ NoWork \in Work
<1>1. NoTx \in Tx
  BY RingType, NewTxType DEF NoTx
<1>2. ASSUME NEW n \in TxNr PROVE OldTx(n) \in Tx
  <2>1. NewTx(n, 0, FALSE) \in Tx
    BY NewTxType
  <2> QED
    BY <2>1 DEF OldTx, Tx
<1>3. NoWork \in Work
  BY DEF NoWork, Work, How
<1> QED
  BY <1>1, <1>2, <1>3

\* getTransaction finds a reference that matches, or there is none: if one does, a first one does.
LEMMA CachedCases ==
    ASSUME TypeOK, NEW n \in TxNr
    PROVE  \/ \E k \in DOMAIN cache : Cached(n) = cache[k] /\ Finds(cache[k], n)
           \/ Cached(n) = 0 /\ ~(\E k \in DOMAIN cache : Finds(cache[k], n))
<1>1. cache \in Seq(ObjId)
  BY DEF TypeOK
<1>2. CASE cache # <<>> /\ Finds(Last(cache), n)
  BY <1>1, <1>2 DEF Cached, Last
<1>3. CASE /\ ~(cache # <<>> /\ Finds(Last(cache), n))
           /\ \E i \in DOMAIN cache : Finds(cache[i], n)
  <2> DEFINE found == {i \in DOMAIN cache : Finds(cache[i], n)}
  <2>1. found \subseteq Nat /\ found # {}
    BY <1>1, <1>3
  <2>2. PICK i \in found : \A j \in found : i <= j
    <3> HIDE DEF found
    <3> QED
      BY <2>1, LeastNat
  <2>3. \A j \in 1..(i - 1) : j \in DOMAIN cache /\ j \notin found
    BY <1>1, <2>1, <2>2
  <2>4. \E k \in DOMAIN cache : Finds(cache[k], n) /\ \A j \in 1..(k - 1) : ~Finds(cache[j], n)
    BY <2>2, <2>3
  <2> QED
    BY <1>3, <2>4 DEF Cached
<1>4. CASE /\ ~(cache # <<>> /\ Finds(Last(cache), n))
           /\ ~(\E i \in DOMAIN cache : Finds(cache[i], n))
  BY <1>4 DEF Cached
<1> QED
  BY <1>2, <1>3, <1>4

\* So it returns an object of the heap or none.
LEMMA CachedType ==
    ASSUME TypeOK, NEW n \in TxNr
    PROVE  Cached(n) \in ObjId \cup {0}
<1>1. cache \in Seq(ObjId)
  BY DEF TypeOK
<1> QED
  BY <1>1, CachedCases

\* What getTransaction returns is a transaction.
LEMMA LookType ==
    ASSUME TypeOK, NEW n \in TxNr
    PROVE  Look(n) \in Tx
BY CachedType DEF Look, TypeOK

\* A new object leaves the heap and the references well-typed.
LEMMA AddObjectType ==
    ASSUME TypeOK, NEW o \in ObjId, NEW t \in Tx, AddObject(o, t)
    PROVE  obj' \in [ObjId -> Tx] /\ cache' \in Seq(ObjId)
<1>1. obj' \in [ObjId -> Tx]
  BY PlaceholderTypes DEF AddObject, TypeOK
<1>2. cache' \in Seq(ObjId)
  <2> DEFINE S == {i \in DOMAIN cache : Alive(cache[i])}
  <2>1. cache \in Seq(ObjId) /\ S \subseteq DOMAIN cache
    BY DEF TypeOK
  <2>2. cache' = Append(Keep(cache, S), o)
    BY DEF AddObject
  <2> HIDE DEF S
  <2>3. Keep(cache, S) \in Seq(ObjId)
    BY <2>1, KeepType
  <2> QED
    BY <2>2, <2>3
<1> QED
  BY <1>1, <1>2

\* Writing and removing a transaction file, and changing an object.
LEMMA FileType ==
    ASSUME TypeOK
    PROVE  /\ \A t \in Tx : Commit(t) => file' \in [TxNr -> Tx]
           /\ \A n \in TxNr : Delete(n) => file' \in [TxNr -> Tx]
           /\ \A o \in ObjId, t \in Tx :
                  Update(o, t) => file' \in [TxNr -> Tx] /\ obj' \in [ObjId -> Tx]
<1>1. file \in [TxNr -> Tx] /\ obj \in [ObjId -> Tx]
  BY DEF TypeOK
<1>2. ASSUME NEW t \in Tx, Commit(t) PROVE file' \in [TxNr -> Tx]
  BY <1>1, <1>2 DEF Commit
<1>3. ASSUME NEW n \in TxNr, Delete(n) PROVE file' \in [TxNr -> Tx]
  BY <1>1, <1>3, PlaceholderTypes DEF Delete
<1>4. ASSUME NEW o \in ObjId, NEW t \in Tx, Update(o, t)
      PROVE  file' \in [TxNr -> Tx] /\ obj' \in [ObjId -> Tx]
  BY <1>1, <1>2, <1>4 DEF Update
<1> QED
  BY <1>2, <1>3, <1>4

\* The transactions of the heap, and the number of the connector's transaction.
LEMMA ObjType ==
    ASSUME TypeOK, NEW o \in ObjId
    PROVE  obj[o] \in Tx /\ obj[o].txNr \in TxNr /\ obj[o].session \in Nat
BY DEF TypeOK, Tx

\* The changes that the handlers make to a transaction.
LEMMA ChangeType ==
    ASSUME NEW t \in Tx, NEW b \in BOOLEAN, NEW c \in BOOLEAN, NEW d \in BOOLEAN,
           NEW s \in Nat \cup {-1}
    PROVE  /\ [t EXCEPT !.begun = b, !.authorized = c] \in Tx
           /\ [t EXCEPT !.start = s] \in Tx
           /\ [t EXCEPT !.start = s, !.startReq = TRUE, !.startConf = TRUE] \in Tx
           /\ [t EXCEPT !.start = s, !.startConf = TRUE, !.deauthorized = b] \in Tx
           /\ [t EXCEPT !.authorized = b, !.deauthorized = c, !.active = d] \in Tx
           /\ [t EXCEPT !.silent = TRUE, !.active = FALSE] \in Tx
<1>1. [t EXCEPT !.begun = b, !.authorized = c] \in Tx
  BY DEF Tx
<1>2. [t EXCEPT !.start = s] \in Tx
  BY DEF Tx
<1>3. [t EXCEPT !.start = s, !.startReq = TRUE, !.startConf = TRUE] \in Tx
  BY DEF Tx
<1>4. [t EXCEPT !.start = s, !.startConf = TRUE, !.deauthorized = b] \in Tx
  BY DEF Tx
<1>5. [t EXCEPT !.authorized = b, !.deauthorized = c, !.active = d] \in Tx
  BY DEF Tx
<1>6. [t EXCEPT !.silent = TRUE, !.active = FALSE] \in Tx
  BY DEF Tx
<1> QED
  BY <1>1, <1>2, <1>3, <1>4, <1>5, <1>6

\* The flags that note a message or its answer.
LEMMA FlagType ==
    ASSUME NEW t \in Tx
    PROVE  /\ [t EXCEPT !.startReq = TRUE] \in Tx
           /\ [t EXCEPT !.stopReq = TRUE] \in Tx
           /\ [t EXCEPT !.stopConf = TRUE] \in Tx
<1>1. [t EXCEPT !.startReq = TRUE] \in Tx
  BY DEF Tx
<1>2. [t EXCEPT !.stopReq = TRUE] \in Tx
  BY DEF Tx
<1>3. [t EXCEPT !.stopConf = TRUE] \in Tx
  BY DEF Tx
<1> QED
  BY <1>1, <1>2, <1>3

\* A pending request that is well-typed, and the queue of such requests.
GoodRequest(r) == r \in Request /\ (r.kind = "auth" => r.o # 0)
GoodQueue(q) == q \in Seq(Request) /\ \A i \in DOMAIN q : GoodRequest(q[i])

\* What is in a sequence when an entry is added or removed.
Part(p, q) == \A i \in DOMAIN p : \E j \in DOMAIN q : p[i] = q[j]

LEMMA PartsOf ==
    ASSUME NEW T, NEW q \in Seq(T)
    PROVE  /\ \A r \in T :
                  /\ Append(q, r) \in Seq(T)
                  /\ \A i \in DOMAIN Append(q, r) :
                         Append(q, r)[i] = r \/ \E j \in DOMAIN q : Append(q, r)[i] = q[j]
           /\ q # <<>> => Tail(q) \in Seq(T) /\ Head(q) \in T /\ Part(Tail(q), q)
           /\ \A i \in DOMAIN q : RemoveAt(q, i) \in Seq(T) /\ Part(RemoveAt(q, i), q)
<1>1. Len(q) \in Nat /\ DOMAIN q = 1..Len(q)
  OBVIOUS
<1>2. ASSUME NEW r \in T
      PROVE  /\ Append(q, r) \in Seq(T)
             /\ \A i \in DOMAIN Append(q, r) :
                    Append(q, r)[i] = r \/ \E j \in DOMAIN q : Append(q, r)[i] = q[j]
  BY <1>1
<1>3. ASSUME q # <<>> PROVE Tail(q) \in Seq(T) /\ Head(q) \in T /\ Part(Tail(q), q)
  <2>1. Tail(q) \in Seq(T) /\ Head(q) \in T
    BY <1>1, <1>3
  <2>2. \A i \in DOMAIN Tail(q) : i + 1 \in DOMAIN q /\ Tail(q)[i] = q[i + 1]
    BY <1>1, <1>3
  <2> QED
    BY <2>1, <2>2 DEF Part
<1>4. ASSUME NEW i \in DOMAIN q PROVE RemoveAt(q, i) \in Seq(T) /\ Part(RemoveAt(q, i), q)
  <2> DEFINE before == SubSeq(q, 1, i - 1)
             after == SubSeq(q, i + 1, Len(q))
  <2>1. before \in Seq(T) /\ after \in Seq(T)
    BY <1>1
  <2>2. /\ \A j \in DOMAIN before : j \in DOMAIN q /\ before[j] = q[j]
        /\ \A j \in DOMAIN after : j + i \in DOMAIN q /\ after[j] = q[j + i]
    BY <1>1
  <2> HIDE DEF before, after
  <2>3. before \o after \in Seq(T)
    BY <2>1
  <2>4. \A j \in DOMAIN (before \o after) :
            \/ j \in DOMAIN before /\ (before \o after)[j] = before[j]
            \/ j - Len(before) \in DOMAIN after /\ (before \o after)[j] = after[j - Len(before)]
    BY <2>1
  <2>5. Part(before \o after, q)
    BY <2>2, <2>4 DEF Part
  <2> QED
    BY <2>3, <2>5 DEF RemoveAt, before, after
<1> QED
  BY <1>2, <1>3, <1>4

\* The queue stays well-typed when a request is added, answered or dropped, or a part is kept.
LEMMA QueueType ==
    ASSUME NEW q, GoodQueue(q)
    PROVE  /\ \A r : GoodRequest(r) => GoodQueue(Append(q, r))
           /\ q # <<>> => GoodQueue(Tail(q)) /\ Head(q) \in Request
           /\ \A i \in DOMAIN q : GoodQueue(RemoveAt(q, i))
           /\ \A S \in SUBSET DOMAIN q : GoodQueue(Keep(q, S))
<1>1. q \in Seq(Request)
  BY DEF GoodQueue
<1>2. ASSUME NEW p \in Seq(Request), Part(p, q) PROVE GoodQueue(p)
  BY <1>2 DEF GoodQueue, Part
<1>3. ASSUME NEW r, GoodRequest(r) PROVE GoodQueue(Append(q, r))
  <2>1. r \in Request
    BY <1>3 DEF GoodRequest
  <2>2. /\ Append(q, r) \in Seq(Request)
        /\ \A i \in DOMAIN Append(q, r) :
               Append(q, r)[i] = r \/ \E j \in DOMAIN q : Append(q, r)[i] = q[j]
    BY <1>1, <2>1, PartsOf
  <2> QED
    BY <1>3, <2>2 DEF GoodQueue
<1>4. q # <<>> => GoodQueue(Tail(q)) /\ Head(q) \in Request
  BY <1>1, <1>2, PartsOf
<1>5. \A i \in DOMAIN q : GoodQueue(RemoveAt(q, i))
  BY <1>1, <1>2, PartsOf
<1>6. ASSUME NEW S \in SUBSET DOMAIN q PROVE GoodQueue(Keep(q, S))
  BY <1>1, KeepType DEF GoodQueue
<1> QED
  BY <1>3, <1>4, <1>5, <1>6

\* What TypeInv says of the queue.
LEMMA QueueGood ==
    TypeInv => GoodQueue(queue)
BY DEF TypeInv, TypeOK, HasObject, GoodQueue, GoodRequest

-----------------------------------------------------------------------------
(* Every action preserves the invariant *)

\* A device that is off satisfies it, new or used.
LEMMA InitTypeInv ==
    Init => TypeInv
<1> SUFFICES ASSUME Init PROVE TypeInv
  OBVIOUS
<1>1. txBegin \in TxNr /\ txEnd \in TxNr
  BY TxAssumption DEF Init, TxNr
<1>2. file \in [TxNr -> Tx]
  BY PlaceholderTypes DEF Init
<1>3. TypeOK
  <2>1. queue \in Seq(Request) /\ cache \in Seq(ObjId) /\ opLog \in Seq(Op)
    BY DEF Init
  <2>2. obj \in [ObjId -> Tx] /\ work \in Work
    BY PlaceholderTypes DEF Init
  <2>3. /\ tx \in ObjId \cup {0} /\ registered \in BOOLEAN /\ pc \in Places \cup {"off"}
        /\ sessions \in Nat /\ cuts \in Nat
        /\ closed \subseteq Nat /\ lost \subseteq Nat /\ stranded \subseteq Nat
    BY DEF Init
  <2> QED
    BY <1>1, <1>2, <2>1, <2>2, <2>3 DEF TypeOK
<1>4. HasObject
  BY DEF Init, HasObject
<1> QED
  BY <1>3, <1>4 DEF TypeInv

\* beginTransaction starts to allocate: nothing but the handler changes.
LEMMA BeginTypeInv ==
    ASSUME TypeInv, NEW how \in How, Begin(how)
    PROVE  TypeInv'
<1>1. work' \in Work
  BY DEF Begin, NoWork, Work
<1>2. TypeOK'
  BY <1>1 DEF TypeInv, TypeOK, Begin, Places, flash, heap, history
<1>3. HasObject'
  BY DEF TypeInv, HasObject, Begin, heap
<1> QED
  BY <1>2, <1>3 DEF TypeInv

\* The allocation of a number and a file (allocateTransaction), and its commit.
LEMMA AllocateTypeInv ==
    ASSUME TypeInv, Allocate
    PROVE  TypeInv'
<1> USE DEF TypeInv
<1>1. ASSUME Trim PROVE TypeInv'
  <2>1. PrevNr(txEnd) \in TxNr
    BY NeighbourType DEF TypeOK
  <2>2. file' \in [TxNr -> Tx]
    BY <1>1, <2>1, FileType DEF Trim
  <2> QED
    BY <1>1, <2>2 DEF TypeOK, HasObject, Trim, Places, heap, history
<1>2. ASSUME TrimSave PROVE TypeInv'
  <2>1. PrevNr(txEnd) \in TxNr
    BY NeighbourType DEF TypeOK
  <2> QED
    BY <1>2, <2>1 DEF TypeOK, HasObject, TrimSave, Places, heap, history
<1>3. ASSUME TrimEnd PROVE TypeInv'
  BY <1>3 DEF TypeOK, HasObject, TrimEnd, Places, flash, heap, history
<1>4. ASSUME Evict PROVE TypeInv'
  <2>1. file' \in [TxNr -> Tx]
    BY <1>4, FileType DEF Evict, TypeOK
  <2> QED
    BY <1>4, <2>1 DEF TypeOK, HasObject, Evict, Places, heap, history
<1>5. ASSUME EvictSave PROVE TypeInv'
  <2>1. NextNr(txBegin) \in TxNr
    BY NeighbourType DEF TypeOK
  <2> QED
    BY <1>5, <2>1 DEF TypeOK, HasObject, EvictSave, Places, heap, history
<1>6. ASSUME Refuse PROVE TypeInv'
  BY <1>6, PlaceholderTypes DEF TypeOK, HasObject, Refuse, Places, flash, heap, history
<1>7. ASSUME NEW o \in ObjId, Create(o) \/ CreateSilent(o) PROVE TypeInv'
  <2>1. PICK silent \in BOOLEAN : CreateTransaction(o, silent)
    BY <1>7 DEF Create, CreateSilent
  <2>2. NewTx(txEnd, sessions, silent) \in Tx
    BY NewTxType DEF TypeOK
  <2>3. obj' \in [ObjId -> Tx] /\ cache' \in Seq(ObjId)
    BY <2>1, <2>2, AddObjectType DEF CreateTransaction
  <2>4. NextNr(txEnd) \in TxNr
    BY NeighbourType DEF TypeOK
  <2>5. work' \in Work /\ work'.o # 0
    BY <2>1, TxAssumption DEF CreateTransaction, TypeOK, Work
  <2> QED
    BY <2>1, <2>3, <2>4, <2>5 DEF TypeOK, HasObject, CreateTransaction, Places, history
<1>8. ASSUME CreateCommit PROVE TypeInv'
  <2>1. work.o \in ObjId
    BY <1>8 DEF TypeOK, HasObject, CreateCommit, Work
  <2>2. file' \in [TxNr -> Tx]
    BY <1>8, <2>1, FileType, ObjType DEF CreateCommit
  <2> QED
    BY <1>8, <2>2 DEF TypeOK, HasObject, CreateCommit, Places, heap, history
<1>9. ASSUME BeginCommit PROVE TypeInv'
  <2> DEFINE t == [obj[work.o] EXCEPT !.begun = registered,
                                      !.authorized = work.how # "authorize"]
             r == [kind |-> "auth", o |-> work.o, txNr |-> t.txNr, session |-> t.session]
  <2>1. work.o \in ObjId
    BY <1>9 DEF TypeOK, HasObject, BeginCommit, Work
  <2>2. t \in Tx
    <3>1. registered \in BOOLEAN /\ (work.how # "authorize") \in BOOLEAN
      BY DEF TypeOK
    <3> QED
      BY <2>1, <3>1, ObjType, ChangeType
  <2>3. file' \in [TxNr -> Tx] /\ obj' \in [ObjId -> Tx]
    BY <1>9, <2>1, <2>2, FileType DEF BeginCommit
  <2>4. GoodRequest(r)
    <3>1. t.txNr \in TxNr /\ t.session \in Nat
      BY <2>2 DEF Tx
    <3> QED
      BY <2>1, <3>1, TxAssumption DEF GoodRequest, Request
  <2>5. queue' \in {queue, Append(queue, r)}
    BY <1>9 DEF BeginCommit
  <2>6. GoodQueue(queue')
    <3> HIDE DEF r
    <3> QED
      BY <2>4, <2>5, QueueGood, QueueType
  <2>7. /\ tx' = work.o /\ pc' = "idle" /\ work' = NoWork
        /\ UNCHANGED <<txBegin, txEnd, cache, registered, sessions, cuts, history>>
    BY <1>9 DEF BeginCommit
  <2> HIDE DEF t, r
  <2> QED
    BY <2>1, <2>3, <2>6, <2>7, PlaceholderTypes
    DEF TypeOK, HasObject, Places, history, GoodQueue, GoodRequest
<1> QED
  BY <1>1, <1>2, <1>3, <1>4, <1>5, <1>6, <1>7, <1>8, <1>9 DEF Allocate

\* The ways a session becomes inactive.
LEMMA EndTypeInv ==
    ASSUME TypeInv, End
    PROVE  TypeInv'
<1> USE DEF TypeInv
<1>1. tx # 0 /\ Deactivate
  BY DEF End, EndTransaction, EvDisconnects, ConnectionTimeout, DeAuthorize
<1>2. tx \in ObjId
  BY <1>1 DEF TypeOK
<1>3. [obj[tx] EXCEPT !.active = FALSE] \in Tx
  BY <1>2, ObjType DEF Tx
<1>4. file' \in [TxNr -> Tx] /\ obj' \in [ObjId -> Tx]
  BY <1>1, <1>2, <1>3, FileType DEF Deactivate
<1> QED
  BY <1>1, <1>4 DEF Deactivate, TypeOK, HasObject, ctl, history

\* The clean-up of aborted and completed transactions at the beginning of the loop.
LEMMA CollectTypeInv ==
    ASSUME TypeInv, Collect
    PROVE  TypeInv'
<1> USE DEF TypeInv
<1>1. ASSUME CollectAborted PROVE TypeInv'
  <2>1. tx \in ObjId
    BY <1>1 DEF CollectAborted, TypeOK
  <2>2. file' \in [TxNr -> Tx]
    BY <1>1, <2>1, FileType, ObjType DEF CollectAborted
  <2> QED
    BY <1>1, <2>2 DEF CollectAborted, TypeOK, HasObject, Places, heap, history
<1>2. ASSUME CollectSave PROVE TypeInv'
  <2>1. tx \in ObjId
    BY <1>2 DEF CollectSave, TypeOK, HasObject
  <2>2. obj[tx].txNr \in TxNr /\ obj[tx].session \in Nat
    BY <2>1, ObjType
  <2>3. stranded' \subseteq Nat
    BY <1>2, <2>2 DEF CollectSave, RollBack, TypeOK
  <2> QED
    BY <1>2, <2>2, <2>3 DEF CollectSave, RollBack, TypeOK, HasObject, Places, heap
<1>3. ASSUME CollectCompleted PROVE TypeInv'
  BY <1>3 DEF CollectCompleted, Looping, TypeOK, HasObject, flash, heap, ctl, history
<1> QED
  BY <1>1, <1>2, <1>3 DEF Collect

\* StartTransaction, StopTransaction and their silent forms, up to the written op file.
LEMMA ChargeTypeInv ==
    ASSUME TypeInv, Charge
    PROVE  TypeInv'
<1> USE DEF TypeInv
<1>1. ASSUME StartTx PROVE TypeInv'
  <2> DEFINE t == [obj[tx] EXCEPT !.start = IF @ = 0 \/ registered THEN 0 ELSE BootNr]
  <2>1. tx \in ObjId
    BY <1>1 DEF StartTx, TypeOK
  <2>2. t \in Tx
    <3>1. (IF obj[tx].start = 0 \/ registered THEN 0 ELSE BootNr) \in Nat \cup {-1}
      BY DEF BootNr, TypeOK
    <3> QED
      BY <2>1, <3>1, ObjType, ChangeType
  <2>3. file' \in [TxNr -> Tx] /\ obj' \in [ObjId -> Tx]
    BY <1>1, <2>1, <2>2, FileType DEF StartTx
  <2>4. work' \in Work /\ work'.o # 0
    BY <1>1, <2>1, TxAssumption DEF StartTx, TypeOK, Work
  <2>5. pc' = "start1" /\ UNCHANGED <<txBegin, txEnd, queue, tx, cache, registered, sessions, cuts, history>>
    BY <1>1 DEF StartTx
  <2> QED
    BY <2>3, <2>4, <2>5 DEF TypeOK, HasObject, Places, history
<1>2. ASSUME StartSilent PROVE TypeInv'
  <2> DEFINE t == [obj[tx] EXCEPT !.start = IF @ = 0 \/ registered THEN 0 ELSE BootNr,
                                  !.startReq = TRUE, !.startConf = TRUE]
  <2>1. tx \in ObjId
    BY <1>2 DEF StartSilent, TypeOK
  <2>2. t \in Tx
    <3>1. (IF obj[tx].start = 0 \/ registered THEN 0 ELSE BootNr) \in Nat \cup {-1}
      BY DEF BootNr, TypeOK
    <3> QED
      BY <2>1, <3>1, ObjType, ChangeType
  <2>3. file' \in [TxNr -> Tx] /\ obj' \in [ObjId -> Tx]
    BY <1>2, <2>1, <2>2, FileType DEF StartSilent
  <2>4. UNCHANGED <<txBegin, txEnd, queue, tx, cache, registered, ctl, sessions, cuts, history>>
    BY <1>2 DEF StartSilent
  <2> QED
    BY <2>3, <2>4 DEF TypeOK, HasObject, ctl, history
<1>3. ASSUME StopTx PROVE TypeInv'
  <2>1. tx \in ObjId
    BY <1>3 DEF StopTx, TypeOK
  <2>2. file' \in [TxNr -> Tx]
    BY <1>3, <2>1, FileType, ObjType DEF StopTx
  <2>3. work' \in Work /\ work'.o # 0
    BY <1>3, <2>1, TxAssumption DEF StopTx, TypeOK, Work
  <2> QED
    BY <1>3, <2>2, <2>3 DEF StopTx, TypeOK, HasObject, Places, heap, history
<1>4. ASSUME StopSilent PROVE TypeInv'
  <2>1. tx \in ObjId
    BY <1>4 DEF StopSilent, TypeOK
  <2>2. file' \in [TxNr -> Tx]
    BY <1>4, <2>1, FileType, ObjType DEF StopSilent
  <2> QED
    BY <1>4, <2>2 DEF StopSilent, TypeOK, HasObject, Places, heap, history
<1>5. ASSUME SilentSave PROVE TypeInv'
  <2>1. tx \in ObjId
    BY <1>5 DEF SilentSave, TypeOK, HasObject
  <2>2. obj[tx].txNr \in TxNr /\ obj[tx].session \in Nat
    BY <2>1, ObjType
  <2>3. stranded' \subseteq Nat
    BY <1>5, <2>2 DEF SilentSave, RollBack, TypeOK
  <2> QED
    BY <1>5, <2>2, <2>3 DEF SilentSave, RollBack, TypeOK, HasObject, Places, heap
<1>6. ASSUME NEW kind \in {"start", "stop"}, NEW next \in {"start2", "stop2"},
             pc \in {"start1", "stop1"}, InitiateOp(kind, next)
      PROVE  TypeInv'
  <2> DEFINE t == obj[work.o]
             r == [kind |-> kind, o |-> work.o, txNr |-> t.txNr, session |-> t.session]
             op == [kind |-> kind, session |-> t.session]
  <2>1. work.o \in ObjId /\ work.o # 0
    BY <1>6 DEF TypeOK, HasObject, Work
  <2>2. t.txNr \in TxNr /\ t.session \in Nat
    BY <2>1, ObjType
  <2>3. GoodRequest(r) /\ op \in Op
    BY <2>1, <2>2 DEF GoodRequest, Request, Op
  <2>4. /\ queue' = Append(queue, r) /\ opLog' = Append(opLog, op) /\ pc' = next
        /\ UNCHANGED <<flash, tx, heap, registered, work, sessions, cuts, closed, lost, stranded>>
    BY <1>6 DEF InitiateOp
  <2> HIDE DEF r, op
  <2>5. GoodQueue(queue')
    BY <2>3, <2>4, QueueGood, QueueType
  <2>6. opLog' \in Seq(Op)
    BY <2>3, <2>4 DEF TypeOK
  <2> QED
    BY <2>1, <2>4, <2>5, <2>6 DEF TypeOK, HasObject, Places, flash, heap, GoodQueue, GoodRequest
<1>7. ASSUME NEW t \in Tx, pc \in {"start2", "stop2"}, InitiateTx(t) PROVE TypeInv'
  <2>1. work.o \in ObjId
    BY <1>7 DEF TypeOK, HasObject, Work
  <2>2. file' \in [TxNr -> Tx] /\ obj' \in [ObjId -> Tx]
    BY <1>7, <2>1, FileType DEF InitiateTx
  <2> QED
    BY <1>7, <2>2, PlaceholderTypes DEF InitiateTx, TypeOK, HasObject, Places, history
<1>8. ASSUME Initiate PROVE TypeInv'
  <2>1. CASE pc = "start1" /\ InitiateOp("start", "start2")
    BY <1>6, <2>1
  <2>2. CASE pc = "start2" /\ InitiateTx([obj[work.o] EXCEPT !.startReq = TRUE])
    <3>1. work.o \in ObjId
      BY <2>2 DEF TypeOK, HasObject, Work
    <3>2. [obj[work.o] EXCEPT !.startReq = TRUE] \in Tx
      BY <3>1, ObjType, FlagType
    <3> QED
      BY <1>7, <2>2, <3>2
  <2>3. CASE pc = "stop1" /\ InitiateOp("stop", "stop2")
    BY <1>6, <2>3
  <2>4. CASE pc = "stop2" /\ InitiateTx([obj[work.o] EXCEPT !.stopReq = TRUE])
    <3>1. work.o \in ObjId
      BY <2>4 DEF TypeOK, HasObject, Work
    <3>2. [obj[work.o] EXCEPT !.stopReq = TRUE] \in Tx
      BY <3>1, ObjType, FlagType
    <3> QED
      BY <1>7, <2>4, <3>2
  <2> QED
    BY <1>8, <2>1, <2>2, <2>3, <2>4 DEF Initiate
<1> QED
  BY <1>1, <1>2, <1>3, <1>4, <1>5, <1>8 DEF Charge

\* The callbacks of an Authorize request, wherever it is in the queue.
LEMMA AuthorizeTypeInv ==
    ASSUME TypeInv, Authorize
    PROVE  TypeInv'
<1> USE DEF TypeInv
<1>1. ASSUME NEW i \in DOMAIN queue, NEW result \in AuthResults, pc = "idle", AuthCallback(i, result)
      PROVE  TypeInv'
  <2> DEFINE o == queue[i].o
             t == Decide(obj[o], result)
  <2>1. o \in ObjId
    <3>1. queue[i] \in Request /\ queue[i].kind = "auth"
      BY <1>1 DEF AuthCallback, TypeOK
    <3> QED
      BY <3>1 DEF HasObject, Request
  <2>2. t \in Tx
    <3>1. obj[o] \in Tx
      BY <2>1, ObjType
    <3>2. /\ (obj[o].authorized \/ result = "authorized") \in BOOLEAN
          /\ (obj[o].deauthorized \/ result = "deauthorized") \in BOOLEAN
          /\ (obj[o].active /\ result # "inactive") \in BOOLEAN
      OBVIOUS
    <3> QED
      BY <3>1, <3>2, ChangeType DEF Decide
  <2>3. /\ Update(o, t) /\ queue' = RemoveAt(queue, i)
        /\ UNCHANGED <<txBegin, txEnd, tx, cache, registered, ctl, sessions, cuts, history>>
    BY <1>1 DEF AuthCallback
  <2> HIDE DEF t
  <2>4. file' \in [TxNr -> Tx] /\ obj' \in [ObjId -> Tx]
    BY <2>1, <2>2, <2>3, FileType
  <2>5. GoodQueue(queue')
    BY <2>3, QueueGood, QueueType
  <2> QED
    BY <1>1, <2>3, <2>4, <2>5 DEF TypeOK, HasObject, ctl, history, GoodQueue, GoodRequest
<1>2. ASSUME NEW i \in DOMAIN queue, NEW result \in AuthResults, AuthTimeout(i, result)
      PROVE  TypeInv'
  BY <1>1, <1>2 DEF AuthTimeout
<1>3. ASSUME NEW result \in AuthResults, AuthAnswer(result) PROVE TypeInv'
  <2>1. 1 \in DOMAIN queue
    BY <1>3 DEF AuthAnswer, Served, TypeOK
  <2> QED
    BY <1>1, <1>3, <2>1 DEF AuthAnswer, Served
<1>4. ASSUME AuthError PROVE TypeInv'
  <2>1. GoodQueue(queue')
    BY <1>4, QueueGood, QueueType DEF AuthError, Served
  <2> QED
    BY <1>4, <2>1
    DEF AuthError, Served, TypeOK, HasObject, flash, heap, ctl, history, GoodQueue, GoodRequest
<1> QED
  BY <1>2, <1>3, <1>4 DEF Authorize

\* The answers of the server to the head of the queue.
LEMMA AnswerTypeInv ==
    ASSUME TypeInv, Answer
    PROVE  TypeInv'
<1> USE DEF TypeInv
<1>1. ASSUME NEW kind, Served(kind)
      PROVE  queue # <<>> /\ Head(queue).o \in ObjId /\ Head(queue).session \in Nat
  <2>1. Head(queue) \in Request /\ Head(queue).o # 0 /\ queue # <<>>
    BY <1>1, QueueGood, QueueType DEF Served
  <2> QED
    BY <2>1 DEF Request
<1>2. ASSUME NEW t \in Tx, NEW kind, Served(kind), NEW next \in {"idle", "pop"}, Confirm(t, next),
             closed' \subseteq Nat
      PROVE  TypeInv'
  <2>1. file' \in [TxNr -> Tx] /\ obj' \in [ObjId -> Tx]
    BY <1>1, <1>2, FileType DEF Confirm
  <2> QED
    BY <1>1, <1>2, <2>1 DEF Confirm, TypeOK, HasObject, Places
<1>3. ASSUME NEW accepted \in BOOLEAN, StartConf(accepted) PROVE TypeInv'
  <2> DEFINE o == Head(queue).o
             t == [obj[o] EXCEPT !.start = IF @ = BootNr THEN 0 ELSE @, !.startConf = TRUE,
                                 !.deauthorized = @ \/ ~accepted]
  <2>1. o \in ObjId
    BY <1>1, <1>3 DEF StartConf
  <2>2. t \in Tx
    <3>1. obj[o] \in Tx
      BY <2>1, ObjType
    <3>2. (obj[o].deauthorized \/ ~accepted) \in BOOLEAN
      OBVIOUS
    <3>3. (IF obj[o].start = BootNr THEN 0 ELSE obj[o].start) \in Nat \cup {-1}
      BY <3>1 DEF Tx
    <3> QED
      BY <3>1, <3>2, <3>3, ChangeType
  <2>3. Served("start") /\ Confirm(t, "pop") /\ closed' = closed
    BY <1>3 DEF StartConf
  <2>4. closed' \subseteq Nat
    BY <2>3 DEF TypeOK
  <2> HIDE DEF t
  <2> QED
    BY <1>2, <2>2, <2>3, <2>4
<1>4. ASSUME NEW error \in BOOLEAN, StopConf(error) PROVE TypeInv'
  <2> DEFINE t == [obj[Head(queue).o] EXCEPT !.stopConf = TRUE]
             next == IF error THEN "idle" ELSE "pop"
  <2>1. Served("stop") /\ Confirm(t, next) /\ closed' = closed \cup {Head(queue).session}
    BY <1>4 DEF StopConf
  <2>2. t \in Tx
    BY <1>1, <2>1, ObjType, FlagType
  <2>3. closed' \subseteq Nat
    BY <1>1, <2>1 DEF TypeOK
  <2>4. next \in {"idle", "pop"}
    OBVIOUS
  <2> HIDE DEF t, next
  <2> QED
    BY <1>2, <2>1, <2>2, <2>3, <2>4
<1>5. ASSUME StartError PROVE TypeInv'
  BY <1>1, <1>5 DEF StartError, TypeOK, HasObject, Places, flash, heap, history
<1>6. ASSUME Pop PROVE TypeInv'
  <2>1. GoodQueue(queue')
    BY <1>6, QueueGood, QueueType DEF Pop, HasObject
  <2> QED
    BY <1>6, <2>1
    DEF Pop, TypeOK, HasObject, Places, flash, heap, history, GoodQueue, GoodRequest
<1> QED
  BY <1>3, <1>4, <1>5, <1>6 DEF Answer

\* A reset keeps nothing but op files.
LEMMA ResetTypeInv ==
    ASSUME TypeInv, NEW q, GoodQueue(q), Reset(q)
    PROVE  TypeInv'
<1> DEFINE S == {i \in DOMAIN q : InFlash(q[i])}
           ops == Keep(q, S)
<1>1. q \in Seq(Request) /\ S \subseteq DOMAIN q
  BY DEF GoodQueue
<1>2. ops \in Seq(Request) /\ \A k \in DOMAIN ops : \E i \in S : ops[k] = q[i]
  <2> HIDE DEF S
  <2> QED
    BY <1>1, KeepType
<1>3. \A k \in DOMAIN ops : ops[k] \in Request /\ ops[k].kind # "auth"
  BY <1>2 DEF InFlash
<1>4. queue' = [i \in DOMAIN ops |-> [ops[i] EXCEPT !.o = 0]]
  BY DEF Reset
<1> HIDE DEF ops
<1>5. \A k \in DOMAIN ops : /\ [ops[k] EXCEPT !.o = 0] \in Request
                            /\ [ops[k] EXCEPT !.o = 0].kind # "auth"
  BY <1>3 DEF Request
<1>6. queue' \in Seq(Request)
  <2>1. DOMAIN ops = 1..Len(ops) /\ Len(ops) \in Nat
    BY <1>2
  <2>2. queue' \in [1..Len(ops) -> Request]
    BY <1>4, <1>5, <2>1
  <2> QED
    BY <2>1, <2>2, SeqDef
<1>7. \A i \in DOMAIN queue' : queue'[i].kind # "auth"
  BY <1>4, <1>5
<1>8. /\ cuts' = cuts + 1 /\ pc' = "off" /\ work' = NoWork /\ tx' = 0
      /\ obj' = [o \in ObjId |-> NoTx] /\ cache' = <<>> /\ registered' = FALSE
      /\ UNCHANGED <<flash, sessions, history>>
  BY DEF Reset
<1>9. obj' \in [ObjId -> Tx] /\ cache' \in Seq(ObjId)
  BY <1>8, PlaceholderTypes
<1>10. TypeOK'
  <2>1. /\ txBegin' \in TxNr /\ txEnd' \in TxNr /\ file' \in [TxNr -> Tx] /\ sessions' \in Nat
        /\ opLog' \in Seq(Op) /\ closed' \subseteq Nat /\ lost' \subseteq Nat
        /\ stranded' \subseteq Nat
    BY <1>8 DEF TypeInv, TypeOK, flash, history
  <2>2. cuts' \in Nat
    BY <1>8 DEF TypeInv, TypeOK
  <2>3. pc' \in Places \cup {"off"} /\ tx' \in ObjId \cup {0} /\ registered' \in BOOLEAN
    BY <1>8
  <2>4. work' \in Work
    BY <1>8, PlaceholderTypes
  <2> QED
    BY <1>6, <1>9, <2>1, <2>2, <2>3, <2>4 DEF TypeOK
<1>11. HasObject'
  BY <1>7, <1>8 DEF HasObject
<1> QED
  BY <1>10, <1>11 DEF TypeInv

\* Power cuts, the boot, and the restoration of pending requests.
LEMMA RecoverTypeInv ==
    ASSUME TypeInv, PowerCut \/ Recover
    PROVE  TypeInv'
<1> USE DEF TypeInv
<1>1. ASSUME PowerCut PROVE TypeInv'
  BY <1>1, QueueGood, ResetTypeInv DEF PowerCut
<1>2. ASSUME Panic PROVE TypeInv'
  BY <1>2, QueueGood, QueueType, ResetTypeInv DEF Panic, HasObject
<1>3. ASSUME Register PROVE TypeInv'
  BY <1>3 DEF Register, TypeOK, HasObject, flash, heap, ctl, history
<1>4. ASSUME NEW o \in ObjId, NEW n \in TxNr, Load(o, n)
      PROVE  obj' \in [ObjId -> Tx] /\ cache' \in Seq(ObjId)
  BY <1>4, AddObjectType DEF Load, TypeOK
<1>5. ASSUME NEW o \in ObjId, Boot(o) PROVE TypeInv'
  <2>1. PrevNr(txEnd) \in TxNr
    BY NeighbourType DEF TypeOK
  <2>2. obj' \in [ObjId -> Tx] /\ cache' \in Seq(ObjId) /\ tx' \in ObjId \cup {0}
    BY <1>4, <1>5, <2>1 DEF Boot, heap, TypeOK
  <2>3. /\ pc' = "idle"
        /\ UNCHANGED <<flash, queue, registered, work, sessions, cuts, history>>
    BY <1>5 DEF Boot
  <2> QED
    BY <2>2, <2>3 DEF TypeOK, HasObject, Places, flash, history
<1>6. ASSUME Unrestored
      PROVE  queue # <<>> /\ Head(queue) \in Request /\ Head(queue).txNr \in TxNr
             /\ Head(queue).session \in Nat
  <2>1. queue # <<>> /\ Head(queue) \in Request
    BY <1>6, QueueGood, QueueType DEF Unrestored
  <2> QED
    BY <2>1 DEF Request
<1>7. ASSUME NEW o \in ObjId, Restore(o) PROVE TypeInv'
  <2> DEFINE n == Head(queue).txNr
             found == IF Cached(n) # 0 THEN Cached(n) ELSE o
  <2>1. n \in TxNr /\ queue # <<>> /\ Head(queue) \in Request
    BY <1>6, <1>7 DEF Restore
  <2>2. found \in ObjId
    BY <2>1, CachedType
  <2>3. obj' \in [ObjId -> Tx] /\ cache' \in Seq(ObjId)
    BY <1>4, <1>7, <2>1 DEF Restore, heap, TypeOK
  <2>4. /\ queue' = [queue EXCEPT ![1].o = found] /\ pc' = "idle"
        /\ UNCHANGED <<flash, tx, registered, work, sessions, cuts, history>>
    BY <1>7 DEF Restore
  <2> HIDE DEF found
  <2>5. queue \in Seq(Request) /\ 1 \in DOMAIN queue
    BY <2>1 DEF TypeOK
  <2>6. [queue[1] EXCEPT !.o = found] \in Request /\ [queue[1] EXCEPT !.o = found].o # 0
    <3>1. queue[1] \in Request
      BY <2>5
    <3>2. found # 0 /\ found \in ObjId \cup {0}
      BY <2>2, TxAssumption
    <3> QED
      BY <3>1, <3>2 DEF Request
  <2>7. queue' = [queue EXCEPT ![1] = [queue[1] EXCEPT !.o = found]]
    BY <2>4, <2>5
  <2>8. queue' \in Seq(Request)
    BY <2>5, <2>6, <2>7
  <2>9. \A i \in DOMAIN queue' : queue'[i].kind = "auth" => queue'[i].o # 0
    BY <2>5, <2>6, <2>7 DEF HasObject
  <2> QED
    BY <2>3, <2>4, <2>8, <2>9 DEF TypeOK, HasObject, Places, flash, history
<1>8. ASSUME RestoreFails PROVE TypeInv'
  <2> DEFINE r == Head(queue)
             t == [Look(r.txNr) EXCEPT !.silent = TRUE, !.active = FALSE]
  <2>1. r.txNr \in TxNr /\ r.session \in Nat /\ queue # <<>>
    BY <1>6, <1>8 DEF RestoreFails
  <2>2. t \in Tx
    <3>1. Look(r.txNr) \in Tx
      BY <2>1, LookType
    <3> QED
      BY <3>1, ChangeType
  <2>3. Cached(r.txNr) \in ObjId \cup {0}
    BY <2>1, CachedType
  <2>4. \/ Commit(t) /\ obj' = IF Cached(r.txNr) = 0 THEN obj ELSE [obj EXCEPT ![Cached(r.txNr)] = t]
        \/ UNCHANGED <<file, obj>>
    BY <1>8 DEF RestoreFails
  <2>5. /\ lost' = lost \cup {r.session}
        /\ pc' \in {"skip", "pop"}
        /\ UNCHANGED <<txBegin, txEnd, queue, tx, cache, registered, work, sessions, cuts, opLog, closed,
                       stranded>>
    BY <1>8 DEF RestoreFails
  <2> HIDE DEF t
  <2>6. file' \in [TxNr -> Tx] /\ obj' \in [ObjId -> Tx]
    BY <2>2, <2>3, <2>4, FileType DEF TypeOK
  <2>7. lost' \subseteq Nat
    BY <2>1, <2>5 DEF TypeOK
  <2> QED
    BY <2>1, <2>5, <2>6, <2>7 DEF TypeOK, HasObject, Places
<1> QED
  BY <1>1, <1>2, <1>3, <1>5, <1>7, <1>8 DEF Recover

\* Every step preserves the invariant.
LEMMA NextTypeInv ==
    TypeInv /\ [Next]_vars => TypeInv'
<1> SUFFICES ASSUME TypeInv, [Next]_vars PROVE TypeInv'
  OBVIOUS
<1>1. CASE Next
  BY <1>1, BeginTypeInv, AllocateTypeInv, EndTypeInv, CollectTypeInv, ChargeTypeInv,
     AuthorizeTypeInv, AnswerTypeInv, RecoverTypeInv DEF Next
<1>2. CASE UNCHANGED vars
  BY <1>2 DEF TypeInv, TypeOK, HasObject, vars, flash, heap, ctl, history
<1> QED
  BY <1>1, <1>2

-----------------------------------------------------------------------------
(* The theorems *)

\* The inductive invariant holds in every reachable state.
LEMMA AlwaysTypeInv ==
    Spec => []TypeInv
<1>1. Init => TypeInv
  BY InitTypeInv
<1>2. TypeInv /\ [Next]_vars => TypeInv'
  BY NextTypeInv
<1> QED
  BY <1>1, <1>2, PTL DEF Spec

\* The state of the transaction process keeps its type: the journal's ring arithmetic stays
\* within the transaction numbers, whatever is restored from flash is a transaction, and the
\* queue survives any interleaving of timeouts, answers, handlers and resets.
THEOREM TypeCorrect ==
    Spec => []TypeOK
<1>1. TypeInv => TypeOK
  BY DEF TypeInv
<1> QED
  BY <1>1, AlwaysTypeInv, PTL

\* No handler and no Authorize callback works on a transaction that does not exist, and no
\* answer is taken for an empty queue, although timeouts and answers remove requests between
\* the steps and a reset clears the heap (the null checks Connector.cpp and
\* StartTransaction.cpp leave out).
THEOREM ObjectsExist ==
    Spec => []HasObject
<1>1. TypeInv => HasObject
  BY DEF TypeInv
<1> QED
  BY <1>1, AlwaysTypeInv, PTL

-----------------------------------------------------------------------------
(* Each session is reported once: the inductive invariant *)

\* The power is not cut between the op file of a request and the flag that notes it.
Atomic == {"start2", "stop2"} \cap CutPoints = {}

Live == {o \in ObjId : Alive(o)}

\* What RAM and flash know of the transactions.
Versions == {obj[o] : o \in Live} \cup {file[n] : n \in {m \in TxNr : file[m] # NoTx}}

\* The places of beginTransaction before the transaction is created.
Allocating == pc \in {"trim", "trimmed", "alloc", "evicted"}

\* The store finds every object that exists.
Referenced == \A o \in Live : \E i \in DOMAIN cache : cache[i] = o

\* A session has one number and at most one object.
OwnFile == \A n \in TxNr : file[n] # NoTx => file[n].txNr = n
OneNumber == \A t, u \in Versions : t.session = u.session => t.txNr = u.txNr
OneObject == \A o, p \in Live : obj[o].session = obj[p].session => o = p

Stopped == \A t \in Versions : t.stopReq => ~t.active

\* What RAM and flash know of a session notes the messages that are in the queue, or will
\* before the handler ends.
Noted ==
    \A t \in Versions :
        /\ Logged("start", t.session)
               => t.startReq \/ (pc = "start2" /\ t.session = obj[work.o].session)
        /\ Logged("stop", t.session)
               => t.stopReq \/ (pc = "stop2" /\ t.session = obj[work.o].session)

\* A session that is about to be created is new.
Past ==
    /\ \A t \in Versions : t.session <= sessions /\ (Allocating => t.session < sessions)
    /\ \A i \in DOMAIN opLog :
           opLog[i].session <= sessions /\ (Allocating => opLog[i].session < sessions)

\* What a handler has found of its transaction, and that a device that is off has no objects.
Handled ==
    /\ pc = "start1" => ~obj[work.o].startReq
    /\ pc = "stop1" => ~obj[work.o].stopReq
    /\ pc \in {"stop1", "stop2"} => ~obj[work.o].active
    /\ pc = "off" => tx = 0 /\ work.o = 0 /\ \A i \in DOMAIN queue : queue[i].o = 0

ReportInv ==
    /\ Referenced /\ OwnFile /\ OneNumber /\ OneObject /\ Stopped
    /\ Noted /\ Past /\ Handled /\ ReportedOnce

-----------------------------------------------------------------------------
(* Objects and versions from step to step *)

\* A version u of the transaction of which t is an earlier one.
Grown(t, u) ==
    /\ u.session = t.session /\ u.txNr = t.txNr
    /\ t.startReq => u.startReq
    /\ t.stopReq => u.stopReq
    /\ u.active => t.active /\ u.stopReq = t.stopReq

\* The objects that exist are those of the heap that something refers to.
LEMMA LiveType ==
    ASSUME TypeInv
    PROVE  /\ Live \subseteq ObjId /\ Versions \subseteq Tx
           /\ tx # 0 => tx \in Live
           /\ work.o # 0 => work.o \in Live
           /\ \A i \in DOMAIN queue : queue[i].o # 0 => queue[i].o \in Live
<1>1. /\ tx \in ObjId \cup {0} /\ work.o \in ObjId \cup {0}
      /\ obj \in [ObjId -> Tx] /\ file \in [TxNr -> Tx] /\ queue \in Seq(Request)
  BY DEF TypeInv, TypeOK, Work
<1>2. \A i \in DOMAIN queue : queue[i] \in Request
  BY <1>1
<1>3. \A i \in DOMAIN queue : queue[i].o \in ObjId \cup {0}
  BY <1>2 DEF Request
<1> QED
  BY <1>1, <1>3 DEF Live, Versions, Alive

\* An object is not brought back by a handler that passes the references on it has.
LEMMA LiveKept ==
    ASSUME TypeInv, TypeInv',
           tx' \in Live \cup {0}, work'.o \in Live \cup {0},
           \A i \in DOMAIN queue' : queue'[i].o \in Live \cup {0}
    PROVE  Live' \subseteq Live
BY DEF Live, Alive

\* If a reference matches, the store returns an object that does.
LEMMA CachedFinds ==
    ASSUME TypeInv, NEW n \in TxNr
    PROVE  /\ Cached(n) # 0 => Cached(n) \in Live /\ obj[Cached(n)].txNr = n
           /\ Referenced => \A o \in Live : obj[o].txNr = n => Cached(n) # 0
<1>1. TypeOK
  BY DEF TypeInv
<1>2. cache \in Seq(ObjId) /\ 0 \notin ObjId
  BY <1>1, TxAssumption DEF TypeOK
<1>3. CASE \E k \in DOMAIN cache : Cached(n) = cache[k] /\ Finds(cache[k], n)
  BY <1>2, <1>3 DEF Finds, Live
<1>4. CASE Cached(n) = 0 /\ ~(\E k \in DOMAIN cache : Finds(cache[k], n))
  BY <1>4 DEF Finds, Live, Referenced
<1> QED
  BY <1>1, <1>3, <1>4, CachedCases

\* What a change of the transactions that exist leaves of the objects and files.
Kept ==
    /\ \A o \in Live' : o \in Live /\ Grown(obj[o], obj'[o])
    /\ \A n \in TxNr :
           \/ file'[n] \in {file[n], NoTx}
           \/ file[n] # NoTx /\ Grown(file[n], file'[n])
           \/ \E o \in Live : Grown(obj[o], file'[n]) /\ obj[o].txNr = n

LEMMA GrownKept ==
    ASSUME TypeInv, TypeInv', ReportInv, cache' = cache \/ Live' = {}, Kept
    PROVE  /\ Referenced' /\ OwnFile' /\ OneObject'
           /\ \A u \in Versions' : \E t \in Versions : Grown(t, u)
<1>1. Referenced'
  BY DEF ReportInv, Referenced, Kept
<1>2. ASSUME NEW n \in TxNr, file'[n] # NoTx
      PROVE  file'[n].txNr = n /\ \E t \in Versions : Grown(t, file'[n])
  <2>1. CASE file'[n] = file[n]
    BY <1>2, <2>1 DEF ReportInv, OwnFile, Versions, Grown
  <2>2. CASE \E o \in Live : Grown(obj[o], file'[n]) /\ obj[o].txNr = n
    BY <2>2 DEF Versions, Grown
  <2>3. CASE file[n] # NoTx /\ Grown(file[n], file'[n])
    BY <2>3 DEF ReportInv, OwnFile, Versions, Grown
  <2> QED
    BY <1>2, <2>1, <2>2, <2>3 DEF Kept
<1>3. OwnFile'
  BY <1>2 DEF OwnFile
<1>4. OneObject'
  <2> SUFFICES ASSUME NEW o \in Live', NEW p \in Live', obj'[o].session = obj'[p].session
               PROVE  o = p
    BY DEF OneObject
  <2>1. o \in Live /\ p \in Live /\ obj[o].session = obj[p].session
    BY DEF Kept, Grown
  <2> QED
    BY <2>1 DEF ReportInv, OneObject
<1>5. ASSUME NEW u \in Versions' PROVE \E t \in Versions : Grown(t, u)
  <2>1. CASE \E o \in Live' : u = obj'[o]
    <3>1. PICK o \in Live' : u = obj'[o]
      BY <2>1
    <3> QED
      BY <3>1 DEF Kept, Versions
  <2>2. CASE \E n \in TxNr : file'[n] # NoTx /\ u = file'[n]
    BY <1>2, <2>2
  <2> QED
    BY <1>5, <2>1, <2>2 DEF Versions
<1> QED
  BY <1>1, <1>3, <1>4, <1>5

\* The handler that wrote a message to the queue notes it in all that is known of its session.
NotesOp ==
    \A u \in Versions' :
        u.session = obj[work.o].session
            => (pc = "start2" => u.startReq) /\ (pc = "stop2" => u.stopReq)

\* A step that does not write to the queue keeps the invariant if what it leaves of the
\* transactions are versions of those that were there.
LEMMA ReportKept ==
    ASSUME TypeInv, TypeInv', ReportInv,
           Referenced', OwnFile', OneObject', Handled',
           \A u \in Versions' : \E t \in Versions : Grown(t, u),
           opLog' = opLog, sessions' \in {sessions, sessions + 1},
           Allocating' => Allocating \/ sessions' = sessions + 1,
           NotesOp
    PROVE  ReportInv'
<1>1. /\ Versions \subseteq Tx /\ Versions' \subseteq Tx
      /\ \A s : Logged("start", s)' = Logged("start", s)
      /\ \A s : Logged("stop", s)' = Logged("stop", s)
  BY LiveType DEF Logged, TypeInv, TypeOK, Live, Versions
<1>2. OneNumber'
  <2> SUFFICES ASSUME NEW u \in Versions', NEW v \in Versions', u.session = v.session
               PROVE  u.txNr = v.txNr
    BY DEF OneNumber
  <2>1. PICK t \in Versions : Grown(t, u)
    OBVIOUS
  <2>2. PICK w \in Versions : Grown(w, v)
    OBVIOUS
  <2>3. t.session = w.session => t.txNr = w.txNr
    BY DEF ReportInv, OneNumber
  <2> QED
    BY <2>1, <2>2, <2>3 DEF Grown
<1>3. ASSUME NEW u \in Versions'
      PROVE  /\ u.stopReq => ~u.active
             /\ Logged("start", u.session) => u.startReq
             /\ Logged("stop", u.session) => u.stopReq
             /\ u.session <= sessions /\ (Allocating => u.session < sessions)
  <2>1. PICK t \in Versions : Grown(t, u)
    BY <1>3
  <2>2. /\ t.stopReq => ~t.active
        /\ t.session <= sessions /\ (Allocating => t.session < sessions)
    BY DEF ReportInv, Stopped, Past
  <2>3. /\ Logged("start", t.session)
               => t.startReq \/ (pc = "start2" /\ t.session = obj[work.o].session)
        /\ Logged("stop", t.session)
               => t.stopReq \/ (pc = "stop2" /\ t.session = obj[work.o].session)
    BY DEF ReportInv, Noted
  <2>4. u.session = obj[work.o].session
            => (pc = "start2" => u.startReq) /\ (pc = "stop2" => u.stopReq)
    BY DEF NotesOp
  <2>5. /\ u.session = t.session
        /\ t.startReq => u.startReq
        /\ t.stopReq => u.stopReq
        /\ u.active => t.active /\ u.stopReq = t.stopReq
    BY <2>1 DEF Grown
  <2>6. /\ Logged("start", u.session) => u.startReq
        /\ Logged("stop", u.session) => u.stopReq
    BY <2>3, <2>4, <2>5
  <2> QED
    BY <2>2, <2>5, <2>6
<1>4. Stopped' /\ Noted'
  BY <1>1, <1>3, Zenon DEF Stopped, Noted
<1>5. Past'
  <2>1. /\ sessions \in Nat /\ sessions' \in Nat
        /\ \A i \in DOMAIN opLog : opLog[i].session \in Nat
    <3>1. opLog \in Seq(Op)
      BY DEF TypeInv, TypeOK
    <3>2. \A i \in DOMAIN opLog : opLog[i] \in Op
      BY <3>1
    <3> QED
      BY <3>2 DEF TypeInv, TypeOK, Op
  <2>2. \A u \in Versions' : u.session \in Nat
    BY <1>1 DEF Tx
  <2>3. \A u \in Versions' : u.session <= sessions' /\ (Allocating' => u.session < sessions')
    BY <1>3, <2>1, <2>2
  <2>4. \A i \in DOMAIN opLog :
            opLog[i].session <= sessions' /\ (Allocating' => opLog[i].session < sessions')
    BY <2>1 DEF ReportInv, Past
  <2> QED
    BY <2>3, <2>4 DEF Past
<1>6. ReportedOnce'
  BY DEF ReportInv, ReportedOnce
<1> QED
  BY <1>2, <1>4, <1>5, <1>6 DEF ReportInv

\* What the writing and the removal of files and the change of an object leave.
LEMMA DataKept ==
    ASSUME TypeInv, Live' \subseteq Live
    PROVE  /\ UNCHANGED <<file, obj>> => Kept
           /\ \A n \in TxNr : Delete(n) /\ obj' = obj => Kept
           /\ \A o \in Live : Commit(obj[o]) /\ obj' = obj => Kept
           /\ \A o \in Live, t \in Tx : Update(o, t) /\ Grown(obj[o], t) => Kept
<1>1. /\ file \in [TxNr -> Tx] /\ obj \in [ObjId -> Tx] /\ Live \subseteq ObjId
      /\ \A o \in Live : Grown(obj[o], obj[o])
  BY LiveType DEF TypeInv, TypeOK, Grown
<1>2. UNCHANGED <<file, obj>> => Kept
  BY <1>1 DEF Kept
<1>3. \A n \in TxNr : Delete(n) /\ obj' = obj => Kept
  BY <1>1 DEF Kept, Delete
<1>4. ASSUME NEW o \in Live, Commit(obj[o]), obj' = obj PROVE Kept
  <2>1. \A n \in TxNr : file'[n] = file[n] \/ (n = obj[o].txNr /\ file'[n] = obj[o])
    BY <1>1, <1>4 DEF Commit
  <2> QED
    BY <1>1, <1>4, <2>1 DEF Kept
<1>5. ASSUME NEW o \in Live, NEW t \in Tx, Update(o, t), Grown(obj[o], t) PROVE Kept
  <2>1. \A n \in TxNr : file'[n] = file[n] \/ (n = t.txNr /\ file'[n] = t)
    BY <1>1, <1>5 DEF Update, Commit
  <2>2. \A p \in Live : obj'[p] = IF p = o THEN t ELSE obj[p]
    BY <1>1, <1>5 DEF Update
  <2>3. t.txNr = obj[o].txNr
    BY <1>5 DEF Grown
  <2> QED
    BY <1>1, <1>5, <2>1, <2>2, <2>3 DEF Kept
<1> QED
  BY <1>2, <1>3, <1>4, <1>5

\* The handlers that only change transactions that exist, and no message.
LEMMA HandlerKept ==
    ASSUME TypeInv, TypeInv', ReportInv, Kept, cache' = cache \/ Live' = {}, Handled',
           opLog' = opLog, sessions' \in {sessions, sessions + 1},
           Allocating' => Allocating \/ sessions' = sessions + 1,
           pc \notin {"start2", "stop2"}
    PROVE  ReportInv'
<1>1. NotesOp
  BY DEF NotesOp
<1> QED
  BY <1>1, GrownKept, ReportKept

\* ... and of these the ones of which the state of the handler needs no proof.
LEMMA RestKept ==
    ASSUME TypeInv, TypeInv', ReportInv, cache' = cache, opLog' = opLog, sessions' = sessions,
           tx' \in Live \cup {0}, work'.o \in Live \cup {0},
           \A i \in DOMAIN queue' : queue'[i].o \in Live \cup {0},
           Live' \subseteq Live => Kept,
           pc' \notin {"start1", "stop1", "stop2", "off"}, Allocating' => Allocating,
           pc \notin {"start2", "stop2"}
    PROVE  ReportInv'
<1>1. Live' \subseteq Live
  BY LiveKept
<1>2. Handled'
  BY DEF Handled
<1> QED
  BY <1>1, <1>2, HandlerKept

\* The references of the state and of parts of the queue.
LEMMA References ==
    ASSUME TypeInv
    PROVE  /\ tx \in Live \cup {0} /\ work.o \in Live \cup {0}
           /\ \A i \in DOMAIN queue : queue[i].o \in Live \cup {0}
           /\ \A q : Part(q, queue) => \A i \in DOMAIN q : q[i].o \in Live \cup {0}
<1>1. /\ tx \in Live \cup {0} /\ work.o \in Live \cup {0}
      /\ \A i \in DOMAIN queue : queue[i].o \in Live \cup {0}
  BY LiveType
<1> QED
  BY <1>1 DEF Part

LEMMA AllocateReport ==
    ASSUME TypeInv, TypeInv', ReportInv,
           \/ Trim \/ TrimSave \/ TrimEnd \/ Evict \/ EvictSave \/ Refuse
           \/ CreateCommit \/ BeginCommit
    PROVE  ReportInv'
<1> USE References
<1>0. TypeOK /\ HasObject
  BY DEF TypeInv
<1>1. PrevNr(txEnd) \in TxNr /\ txBegin \in TxNr
  BY <1>0, NeighbourType DEF TypeOK
<1>2. CASE Trim
  BY <1>1, <1>2, DataKept, RestKept DEF Trim, heap, history, Allocating
<1>3. CASE TrimSave
  BY <1>3, DataKept, RestKept DEF TrimSave, heap, history, Allocating
<1>4. CASE TrimEnd
  BY <1>4, DataKept, RestKept DEF TrimEnd, flash, heap, history, Allocating
<1>5. CASE Evict
  BY <1>1, <1>5, DataKept, RestKept DEF Evict, heap, history, Allocating
<1>6. CASE EvictSave
  BY <1>6, DataKept, RestKept DEF EvictSave, heap, history, Allocating
<1>7. CASE Refuse
  BY <1>7, DataKept, RestKept DEF Refuse, NoWork, flash, heap, history, Allocating
<1>8. CASE CreateCommit
  <2>1. work.o \in Live
    BY <1>0, <1>8 DEF CreateCommit, HasObject
  <2> QED
    BY <1>8, <2>1, DataKept, RestKept DEF CreateCommit, heap, history, Allocating
<1>9. CASE BeginCommit
  <2> DEFINE t == [obj[work.o] EXCEPT !.begun = registered,
                                      !.authorized = work.how # "authorize"]
             r == [kind |-> "auth", o |-> work.o, txNr |-> t.txNr, session |-> t.session]
  <2>1. work.o \in Live /\ work.o \in ObjId
    BY <1>0, <1>9, LiveType DEF BeginCommit, HasObject
  <2>2. t \in Tx /\ Grown(obj[work.o], t)
    <3>1. obj[work.o] \in Tx
      BY <1>0, <2>1 DEF TypeOK
    <3>2. registered \in BOOLEAN /\ (work.how # "authorize") \in BOOLEAN
      BY <1>0 DEF TypeOK
    <3> QED
      BY <3>1, <3>2 DEF Tx, Grown
  <2>3. r \in Request
    BY <2>1, <2>2 DEF Request, Tx
  <2>4. \A i \in DOMAIN Append(queue, r) : Append(queue, r)[i].o \in Live \cup {0}
    <3>1. \A i \in DOMAIN Append(queue, r) :
              Append(queue, r)[i] = r \/ \E j \in DOMAIN queue : Append(queue, r)[i] = queue[j]
      <4> HIDE DEF r
      <4> QED
        BY <1>0, <2>3, PartsOf DEF TypeOK
    <3> QED
      BY <2>1, <3>1
  <2>5. /\ Update(work.o, t) /\ tx' = work.o /\ work' = NoWork /\ pc' = "idle" /\ pc = "begin"
        /\ queue' = queue \/ queue' = Append(queue, r)
        /\ UNCHANGED <<cache, sessions, opLog>>
    BY <1>9 DEF BeginCommit, history
  <2> HIDE DEF t, r
  <2>6. \A i \in DOMAIN queue' : queue'[i].o \in Live \cup {0}
    BY <2>4, <2>5
  <2>7. work'.o \in Live \cup {0}
    BY <2>5 DEF NoWork
  <2> QED
    BY <2>1, <2>2, <2>5, <2>6, <2>7, DataKept, RestKept DEF Allocating
<1> QED
  BY <1>2, <1>3, <1>4, <1>5, <1>6, <1>7, <1>8, <1>9

\* A flag of the connector's transaction that an action may change.
LEMMA EndReport ==
    ASSUME TypeInv, TypeInv', ReportInv, End
    PROVE  ReportInv'
<1> USE References
<1>1. tx # 0 /\ pc = "idle" /\ Deactivate
  BY DEF End, EndTransaction, EvDisconnects, ConnectionTimeout, DeAuthorize, Looping
<1>2. tx \in Live /\ obj[tx] \in Tx
  BY <1>1, LiveType DEF TypeInv, TypeOK
<1> DEFINE t == [obj[tx] EXCEPT !.active = FALSE]
<1>3. t \in Tx /\ Grown(obj[tx], t)
  BY <1>2 DEF Tx, Grown
<1>4. Update(tx, t) /\ UNCHANGED <<queue, tx, cache, ctl, sessions, opLog>>
  BY <1>1 DEF Deactivate, history
<1> HIDE DEF t
<1> QED
  BY <1>1, <1>2, <1>3, <1>4, DataKept, RestKept DEF ctl, Allocating

LEMMA CollectReport ==
    ASSUME TypeInv, TypeInv', ReportInv, Collect
    PROVE  ReportInv'
<1> USE References
<1>1. CASE CollectAborted
  <2>1. tx # 0 /\ tx \in ObjId /\ obj[tx].txNr \in TxNr
    BY <1>1, ObjType DEF CollectAborted, TypeInv, TypeOK
  <2> QED
    BY <1>1, <2>1, DataKept, RestKept DEF CollectAborted, Looping, heap, history, Allocating
<1>2. CASE CollectSave
  BY <1>2, DataKept, RestKept DEF CollectSave, RollBack, heap, history, Allocating
<1>3. CASE CollectCompleted
  BY <1>3, DataKept, RestKept DEF CollectCompleted, Looping, flash, heap, ctl, history, Allocating
<1> QED
  BY <1>1, <1>2, <1>3 DEF Collect

\* The connector's loop up to the messages: what may start has not started, what may stop has
\* not stopped.
LEMMA ChargeReport ==
    ASSUME TypeInv, TypeInv', ReportInv,
           StartTx \/ StartSilent \/ StopTx \/ StopSilent \/ SilentSave
    PROVE  ReportInv'
<1> USE References
<1>0. TypeOK
  BY DEF TypeInv
<1>1. CASE SilentSave
  BY <1>1, DataKept, RestKept DEF SilentSave, RollBack, heap, history, Allocating
<1>2. ASSUME ~SilentSave
      PROVE  /\ tx \in Live /\ tx \in ObjId /\ obj[tx] \in Tx /\ pc = "idle"
             /\ obj[tx] \in Versions
  <2>1. tx # 0 /\ pc = "idle"
    BY <1>2 DEF StartTx, StartSilent, StopTx, StopSilent, Looping
  <2> QED
    BY <1>0, <2>1, LiveType DEF TypeOK, Versions
<1>3. ASSUME NEW s \in Nat \cup {-1}, obj[tx] \in Tx
      PROVE  /\ [obj[tx] EXCEPT !.start = s] \in Tx
             /\ [obj[tx] EXCEPT !.start = s].startReq = obj[tx].startReq
             /\ [obj[tx] EXCEPT !.start = s, !.startReq = TRUE, !.startConf = TRUE] \in Tx
             /\ Grown(obj[tx], [obj[tx] EXCEPT !.start = s])
             /\ Grown(obj[tx], [obj[tx] EXCEPT !.start = s, !.startReq = TRUE, !.startConf = TRUE])
  BY <1>3 DEF Tx, Grown
<1>4. obj[tx] \in Tx => (IF obj[tx].start = 0 \/ registered THEN 0 ELSE BootNr) \in Nat \cup {-1}
  BY <1>0 DEF TypeOK, BootNr
<1>5. CASE StartTx
  <2> DEFINE t == [obj[tx] EXCEPT !.start = IF @ = 0 \/ registered THEN 0 ELSE BootNr]
  <2>1. /\ tx \in Live /\ tx \in ObjId /\ obj[tx] \in Tx /\ obj[tx] \in Versions
        /\ MayStart(obj[tx]) /\ pc = "idle" /\ pc' = "start1" /\ tx' = tx /\ work'.o = tx
        /\ Update(tx, t) /\ UNCHANGED <<queue, cache, sessions, opLog>>
    <3>1. work \in Work
      BY <1>0 DEF TypeOK
    <3>2. work'.o = tx
      BY <1>5, <3>1 DEF StartTx, Work
    <3> QED
      BY <1>2, <1>5, <3>2 DEF StartTx, SilentSave, Looping, history
  <2>2. ~t.startReq /\ t \in Tx /\ Grown(obj[tx], t)
    <3>1. ~obj[tx].startReq
      BY <2>1 DEF MayStart, IsRunning, ReportInv, Stopped
    <3> QED
      BY <1>3, <1>4, <2>1, <3>1
  <2> HIDE DEF t
  <2>3. Live' \subseteq Live /\ Kept
    BY <2>1, <2>2, LiveKept, DataKept
  <2>4. obj'[tx] = t
    BY <1>0, <2>1 DEF Update, TypeOK
  <2>5. Handled'
    BY <2>1, <2>2, <2>4 DEF Handled
  <2> QED
    BY <2>1, <2>3, <2>5, HandlerKept DEF Allocating
<1>6. CASE StartSilent
  <2> DEFINE t == [obj[tx] EXCEPT !.start = IF @ = 0 \/ registered THEN 0 ELSE BootNr,
                                  !.startReq = TRUE, !.startConf = TRUE]
  <2>1. /\ tx \in Live /\ obj[tx] \in Tx /\ pc = "idle"
        /\ Update(tx, t) /\ UNCHANGED <<queue, tx, cache, ctl, sessions, opLog>>
    BY <1>2, <1>6 DEF StartSilent, SilentSave, Looping, history
  <2>2. t \in Tx /\ Grown(obj[tx], t)
    BY <1>3, <1>4, <2>1
  <2> HIDE DEF t
  <2> QED
    BY <2>1, <2>2, DataKept, RestKept DEF ctl, Allocating
<1>7. CASE StopTx
  <2>1. /\ tx \in Live /\ obj[tx] \in Tx
        /\ MayStop(obj[tx]) /\ pc = "idle" /\ pc' = "stop1" /\ tx' = 0 /\ work'.o = tx
        /\ Commit(obj[tx]) /\ UNCHANGED <<queue, obj, cache, sessions, opLog>>
    <3>1. work \in Work
      BY <1>0 DEF TypeOK
    <3>2. work'.o = tx
      BY <1>7, <3>1 DEF StopTx, Work
    <3> QED
      BY <1>2, <1>7, <3>2 DEF StopTx, SilentSave, Looping, heap, history
  <2>2. Live' \subseteq Live /\ Kept
    BY <2>1, LiveKept, DataKept
  <2>3. Handled'
    BY <2>1 DEF Handled, MayStop, IsRunning
  <2> QED
    BY <2>1, <2>2, <2>3, HandlerKept DEF Allocating
<1>8. CASE StopSilent
  <2>1. obj[tx].txNr \in TxNr /\ pc = "idle"
    BY <1>2, <1>8 DEF StopSilent, SilentSave, Looping, Tx
  <2> QED
    BY <1>8, <2>1, DataKept, RestKept DEF StopSilent, heap, history, Allocating
<1> QED
  BY <1>1, <1>5, <1>6, <1>7, <1>8

\* A message is written to the queue only if it was not before.
LEMMA InitiateOpReport ==
    ASSUME TypeInv, TypeInv', ReportInv,
           NEW kind, NEW next, InitiateOp(kind, next),
           \/ kind = "start" /\ pc = "start1" /\ next = "start2"
           \/ kind = "stop" /\ pc = "stop1" /\ next = "stop2"
    PROVE  ReportInv'
<1> USE References
<1> DEFINE s == obj[work.o].session
           op == [kind |-> kind, session |-> s]
           r == [kind |-> kind, o |-> work.o, txNr |-> obj[work.o].txNr, session |-> s]
<1>1. TypeOK /\ work.o \in Live /\ work.o \in ObjId
  BY LiveType DEF TypeInv, HasObject
<1>2. /\ s \in Nat /\ op \in Op /\ r \in Request /\ obj[work.o] \in Versions /\ obj[work.o] \in Tx
      /\ opLog \in Seq(Op) /\ queue \in Seq(Request) /\ sessions \in Nat
  BY <1>1, ObjType DEF Op, Request, Versions, TypeOK
<1>3. /\ queue' = Append(queue, r) /\ opLog' = Append(opLog, op) /\ pc' = next
      /\ UNCHANGED <<file, obj, cache, tx, work, sessions>>
  BY DEF InitiateOp, flash, heap
<1> HIDE DEF op, r
<1>4. Live' \subseteq Live /\ Versions' \subseteq Versions
  <2>1. \A i \in DOMAIN queue' : queue'[i] = r \/ \E j \in DOMAIN queue : queue'[i] = queue[j]
    BY <1>2, <1>3, PartsOf
  <2>2. \A i \in DOMAIN queue' : queue'[i].o \in Live \cup {0}
    BY <1>1, <2>1 DEF r
  <2>3. Live' \subseteq Live
    BY <1>3, <2>2, LiveKept
  <2> QED
    BY <1>3, <2>3 DEF Versions
<1>5. \A k, x : Logged(k, x)' <=> Logged(k, x) \/ (k = kind /\ x = s)
  <2>1. /\ \A i \in DOMAIN opLog' : opLog'[i] = op \/ \E j \in DOMAIN opLog : opLog'[i] = opLog[j]
        /\ \A i \in DOMAIN opLog : i \in DOMAIN opLog' /\ opLog'[i] = opLog[i]
        /\ \E i \in DOMAIN opLog' : opLog'[i] = op
    BY <1>2, <1>3
  <2> QED
    BY <2>1 DEF Logged, op
<1>6. ~Logged(kind, s)
  BY <1>2 DEF ReportInv, Noted, Handled
<1>7. ReportedOnce'
  <2>1. DOMAIN opLog = 1..Len(opLog) /\ Len(opLog) \in Nat /\ DOMAIN opLog' = 1..(Len(opLog) + 1)
    BY <1>2, <1>3
  <2>2. \A i \in DOMAIN opLog : opLog'[i] = opLog[i]
    BY <1>2, <1>3
  <2>3. opLog'[Len(opLog) + 1] = op
    BY <1>2, <1>3
  <2>4. \A i \in DOMAIN opLog : opLog[i] # op
    BY <1>6 DEF Logged, op
  <2> SUFFICES ASSUME NEW i \in DOMAIN opLog', NEW j \in DOMAIN opLog', i # j
               PROVE  opLog'[i] # opLog'[j]
    BY DEF ReportedOnce
  <2>5. CASE i \in DOMAIN opLog /\ j \in DOMAIN opLog
    BY <2>2, <2>5 DEF ReportInv, ReportedOnce
  <2>6. CASE i = Len(opLog) + 1 /\ j \in DOMAIN opLog
    BY <2>2, <2>3, <2>4, <2>6
  <2>7. CASE i \in DOMAIN opLog /\ j = Len(opLog) + 1
    BY <2>2, <2>3, <2>4, <2>7
  <2> QED
    BY <2>1, <2>5, <2>6, <2>7
<1>8. Noted'
  <2> SUFFICES ASSUME NEW u \in Versions'
               PROVE  /\ Logged("start", u.session)'
                             => u.startReq \/ (pc' = "start2" /\ u.session = obj'[work'.o].session)
                      /\ Logged("stop", u.session)'
                             => u.stopReq \/ (pc' = "stop2" /\ u.session = obj'[work'.o].session)
    BY DEF Noted
  <2>1. /\ Logged("start", u.session) => u.startReq
        /\ Logged("stop", u.session) => u.stopReq
    BY <1>4 DEF ReportInv, Noted
  <2>2. obj'[work'.o].session = s
    BY <1>3
  <2> QED
    BY <1>3, <1>5, <2>1, <2>2
<1>9. Past'
  <2>1. s <= sessions /\ ~Allocating'
    BY <1>2, <1>3 DEF ReportInv, Past, Allocating
  <2>2. \A i \in DOMAIN opLog' : opLog'[i] = op \/ \E j \in DOMAIN opLog : opLog'[i] = opLog[j]
    BY <1>2, <1>3
  <2> QED
    BY <1>3, <1>4, <2>1, <2>2 DEF ReportInv, Past, op
<1>10. Referenced' /\ OwnFile' /\ OneNumber' /\ OneObject' /\ Stopped'
  BY <1>3, <1>4 DEF ReportInv, Referenced, OwnFile, OneNumber, OneObject, Stopped
<1>11. Handled'
  BY <1>3 DEF ReportInv, Handled
<1> QED
  BY <1>7, <1>8, <1>9, <1>10, <1>11 DEF ReportInv

\* Then the transaction notes it, and so do its object and its file.
LEMMA InitiateTxReport ==
    ASSUME TypeInv, TypeInv', ReportInv, NEW t \in Tx, InitiateTx(t),
           \/ pc = "start2" /\ t = [obj[work.o] EXCEPT !.startReq = TRUE]
           \/ pc = "stop2" /\ t = [obj[work.o] EXCEPT !.stopReq = TRUE]
    PROVE  ReportInv'
<1> USE References
<1>1. TypeOK /\ work.o \in Live /\ work.o \in ObjId /\ obj[work.o] \in Tx /\ obj[work.o] \in Versions
  BY LiveType DEF TypeInv, HasObject, TypeOK, Versions
<1>2. /\ Update(work.o, t) /\ pc' = "idle" /\ work' = NoWork
      /\ UNCHANGED <<queue, tx, cache, sessions, opLog>>
  BY DEF InitiateTx, history
<1>3. /\ Grown(obj[work.o], t)
      /\ pc = "start2" => t.startReq
      /\ pc = "stop2" => t.stopReq
  <2>1. CASE pc = "start2"
    BY <1>1, <2>1 DEF Tx, Grown
  <2>2. CASE pc = "stop2"
    <3>1. ~obj[work.o].active
      BY <2>2 DEF ReportInv, Handled
    <3> QED
      BY <1>1, <2>2, <3>1 DEF Tx, Grown
  <2> QED
    BY <2>1, <2>2
<1>4. Live' \subseteq Live
  BY <1>2, LiveKept DEF NoWork
<1>5. Kept
  BY <1>1, <1>2, <1>3, <1>4, DataKept
<1>6. NotesOp
  <2> SUFFICES ASSUME NEW u \in Versions', u.session = obj[work.o].session
               PROVE  u = t
    BY <1>3 DEF NotesOp
  <2>1. ASSUME NEW o \in Live', u = obj'[o] PROVE u = t
    <3>1. o \in Live /\ o \in ObjId /\ obj[o].session = obj[work.o].session
      BY <1>1, <1>5, <2>1, LiveType DEF Kept, Grown
    <3>2. o = work.o
      BY <1>1, <3>1 DEF ReportInv, OneObject
    <3> QED
      BY <1>1, <1>2, <2>1, <3>2 DEF Update, TypeOK
  <2>2. ASSUME NEW n \in TxNr, file'[n] # NoTx, u = file'[n] PROVE u = t
    <3>1. file'[n] = IF n = t.txNr THEN t ELSE file[n]
      BY <1>1, <1>2 DEF Update, Commit, TypeOK
    <3>2. ASSUME n # t.txNr PROVE FALSE
      <4>1. file[n] # NoTx /\ u = file[n] /\ u \in Versions /\ u.txNr = n
        BY <2>2, <3>1, <3>2 DEF ReportInv, OwnFile, Versions
      <4>2. u.txNr = obj[work.o].txNr
        BY <1>1, <4>1 DEF ReportInv, OneNumber
      <4> QED
        BY <1>3, <3>2, <4>1, <4>2 DEF Grown
    <3> QED
      BY <2>2, <3>1, <3>2
  <2> QED
    BY <2>1, <2>2 DEF Versions
<1>7. Handled' /\ ~Allocating'
  BY <1>2 DEF Handled, Allocating
<1> QED
  BY <1>2, <1>5, <1>6, <1>7, GrownKept, ReportKept

\* Answers change flags of transactions that exist, and take a request from the queue.
LEMMA AuthorizeReport ==
    ASSUME TypeInv, TypeInv', ReportInv, Authorize
    PROVE  ReportInv'
<1> USE References
<1>0. TypeOK
  BY DEF TypeInv
<1>1. ASSUME NEW i \in DOMAIN queue, NEW result \in AuthResults, pc = "idle", AuthCallback(i, result)
      PROVE  ReportInv'
  <2> DEFINE o == queue[i].o
             t == Decide(obj[o], result)
  <2>1. o \in Live /\ o \in ObjId
    BY <1>1, LiveType DEF AuthCallback, TypeInv, HasObject
  <2>2. t \in Tx /\ Grown(obj[o], t)
    <3>1. obj[o] \in Tx
      BY <2>1, <1>0 DEF TypeOK
    <3>2. /\ (obj[o].authorized \/ result = "authorized") \in BOOLEAN
          /\ (obj[o].deauthorized \/ result = "deauthorized") \in BOOLEAN
          /\ (obj[o].active /\ result # "inactive") \in BOOLEAN
      OBVIOUS
    <3>3. Grown(obj[o], t)
      BY <3>1 DEF Decide, Tx, Grown
    <3> QED
      BY <3>1, <3>2, <3>3, ChangeType DEF Decide
  <2>3. /\ Update(o, t) /\ queue' = RemoveAt(queue, i)
        /\ UNCHANGED <<tx, cache, ctl, sessions, opLog>>
    BY <1>1 DEF AuthCallback, history
  <2> HIDE DEF t, o
  <2>4. Part(queue', queue)
    BY <1>0, <2>3, PartsOf DEF TypeOK
  <2> QED
    BY <1>1, <2>1, <2>2, <2>3, <2>4, DataKept, RestKept DEF ctl, Allocating
<1>2. ASSUME NEW i \in DOMAIN queue, NEW result \in AuthResults, AuthTimeout(i, result)
      PROVE  ReportInv'
  BY <1>1, <1>2 DEF AuthTimeout
<1>3. ASSUME NEW result \in AuthResults, AuthAnswer(result) PROVE ReportInv'
  <2>1. 1 \in DOMAIN queue
    BY <1>0, <1>3 DEF AuthAnswer, Served, TypeOK
  <2> QED
    BY <1>1, <1>3, <2>1 DEF AuthAnswer, Served
<1>4. ASSUME AuthError PROVE ReportInv'
  <2>1. Part(queue', queue)
    BY <1>0, <1>4, PartsOf DEF AuthError, Served, TypeOK
  <2> QED
    BY <1>4, <2>1, DataKept, RestKept DEF AuthError, Served, flash, heap, ctl, history, Allocating
<1> QED
  BY <1>2, <1>3, <1>4 DEF Authorize

LEMMA AnswerReport ==
    ASSUME TypeInv, TypeInv', ReportInv, Answer
    PROVE  ReportInv'
<1> USE References
<1>0. TypeOK
  BY DEF TypeInv
<1>1. ASSUME NEW kind, Served(kind)
      PROVE  /\ Head(queue).o \in Live /\ Head(queue).o \in ObjId /\ obj[Head(queue).o] \in Tx
             /\ pc = "idle"
  <2>1. Head(queue) = queue[1] /\ 1 \in DOMAIN queue /\ Head(queue).o # 0
    BY <1>0, <1>1 DEF Served, TypeOK
  <2> QED
    BY <1>0, <1>1, <2>1, LiveType DEF Served, TypeOK
<1>2. ASSUME NEW t \in Tx, NEW kind, Served(kind), NEW next \in {"idle", "pop"}, Confirm(t, next),
             Grown(obj[Head(queue).o], t)
      PROVE  ReportInv'
  BY <1>1, <1>2, DataKept, RestKept DEF Confirm, Allocating
<1>3. ASSUME NEW accepted \in BOOLEAN, StartConf(accepted) PROVE ReportInv'
  <2> DEFINE o == Head(queue).o
             t == [obj[o] EXCEPT !.start = IF @ = BootNr THEN 0 ELSE @, !.startConf = TRUE,
                                 !.deauthorized = @ \/ ~accepted]
  <2>1. Served("start") /\ Confirm(t, "pop")
    BY <1>3 DEF StartConf
  <2>2. obj[o] \in Tx
    BY <1>1, <2>1
  <2>3. t \in Tx /\ Grown(obj[o], t)
    <3>1. (obj[o].deauthorized \/ ~accepted) \in BOOLEAN
      OBVIOUS
    <3>2. (IF obj[o].start = BootNr THEN 0 ELSE obj[o].start) \in Nat \cup {-1}
      BY <2>2 DEF Tx
    <3>3. Grown(obj[o], t)
      BY <2>2 DEF Tx, Grown
    <3> QED
      BY <2>2, <3>1, <3>2, <3>3, ChangeType
  <2> HIDE DEF t
  <2> QED
    BY <1>2, <2>1, <2>3
<1>4. ASSUME NEW error \in BOOLEAN, StopConf(error) PROVE ReportInv'
  <2> DEFINE t == [obj[Head(queue).o] EXCEPT !.stopConf = TRUE]
             next == IF error THEN "idle" ELSE "pop"
  <2>1. Served("stop") /\ Confirm(t, next)
    BY <1>4 DEF StopConf
  <2>2. obj[Head(queue).o] \in Tx
    BY <1>1, <2>1
  <2>3. t \in Tx /\ Grown(obj[Head(queue).o], t) /\ next \in {"idle", "pop"}
    BY <2>2 DEF Tx, Grown
  <2> HIDE DEF t, next
  <2> QED
    BY <1>2, <2>1, <2>3
<1>5. ASSUME StartError PROVE ReportInv'
  BY <1>1, <1>5, DataKept, RestKept DEF StartError, flash, heap, history, Allocating
<1>6. ASSUME Pop PROVE ReportInv'
  <2>1. Part(queue', queue)
    BY <1>0, <1>6, PartsOf DEF Pop, TypeInv, HasObject, TypeOK
  <2> QED
    BY <1>6, <2>1, DataKept, RestKept DEF Pop, flash, heap, history, Allocating
<1> QED
  BY <1>3, <1>4, <1>5, <1>6 DEF Answer

\* Of a device that is off there are only files.
LEMMA ResetReport ==
    ASSUME Atomic, TypeInv, TypeInv', ReportInv, PowerCut \/ Panic
    PROVE  ReportInv'
<1>1. PICK q : Reset(q)
  BY DEF PowerCut, Panic
<1>2. /\ tx' = 0 /\ work' = NoWork /\ pc' = "off"
      /\ UNCHANGED <<file, sessions, opLog>>
      /\ \A i \in DOMAIN queue' : queue'[i].o = 0
  <2> DEFINE ops == Keep(q, {i \in DOMAIN q : InFlash(q[i])})
  <2>1. queue' = [i \in DOMAIN ops |-> [ops[i] EXCEPT !.o = 0]]
    BY <1>1 DEF Reset
  <2> HIDE DEF ops
  <2>2. /\ tx' = 0 /\ work' = NoWork /\ pc' = "off"
        /\ UNCHANGED <<file, sessions, opLog>>
    BY <1>1 DEF Reset, flash, history
  <2>3. queue' \in Seq(Request)
    BY DEF TypeInv, TypeOK
  <2>4. \A i \in DOMAIN queue' : queue'[i] \in Request /\ queue'[i] = [ops[i] EXCEPT !.o = 0]
    BY <2>1, <2>3
  <2>5. \A r : [r EXCEPT !.o = 0] \in Request => [r EXCEPT !.o = 0].o = 0
    BY DEF Request
  <2> QED
    BY <2>2, <2>4, <2>5
<1>3. Live' = {} /\ work'.o = 0
  BY <1>2 DEF Live, Alive, NoWork
<1>4. Kept
  BY <1>2, <1>3 DEF Kept
<1>5. Handled' /\ ~Allocating'
  BY <1>2, <1>3 DEF Handled, Allocating
<1>6. pc \notin {"start2", "stop2"}
  BY DEF PowerCut, Panic, Atomic
<1> QED
  BY <1>2, <1>3, <1>4, <1>5, <1>6, HandlerKept

\* A device that is off has no objects and no messages, and its history has ended.
LEMMA InitReport ==
    Init => ReportInv
<1> SUFFICES ASSUME Init PROVE ReportInv
  OBVIOUS
<1>1. Live = {} /\ opLog = <<>> /\ sessions = 0 /\ pc = "off" /\ ~Allocating
  BY DEF Init, Live, Alive, NoWork, Allocating
<1>2. \A n \in TxNr : /\ OldTx(n).txNr = n /\ OldTx(n).session = 0
                      /\ OldTx(n).stopReq /\ ~OldTx(n).active
  BY DEF OldTx, NewTx
<1>3. \A n \in TxNr : file[n] # NoTx => n = FirstTxNr - 1 /\ file[n] = OldTx(n)
  BY DEF Init
<1>4. \A t \in Versions : \E n \in TxNr : n = FirstTxNr - 1 /\ t = OldTx(n)
  BY <1>1, <1>3 DEF Versions
<1>5. Referenced /\ OneObject /\ ReportedOnce
  BY <1>1 DEF Referenced, OneObject, ReportedOnce
<1>6. OwnFile /\ OneNumber /\ Stopped
  BY <1>2, <1>3, <1>4 DEF OwnFile, OneNumber, Stopped
<1>7. Noted /\ Past
  BY <1>1, <1>2, <1>4 DEF Noted, Past, Logged
<1>8. Handled
  BY DEF Init, Handled, NoWork
<1> QED
  BY <1>5, <1>6, <1>7, <1>8 DEF ReportInv

\* A new session begins with no transaction of its own, and the server accepts a boot.
LEMMA BeginReport ==
    ASSUME TypeInv, TypeInv', ReportInv,
           (\E how \in How : Begin(how)) \/ Register
    PROVE  ReportInv'
<1> USE References
<1>1. ASSUME NEW how \in How, Begin(how) PROVE ReportInv'
  <2>1. /\ work'.o = 0 /\ pc' = "trim" /\ pc = "idle" /\ sessions' = sessions + 1
        /\ UNCHANGED <<file, obj, queue, tx, cache, opLog>>
    BY <1>1 DEF Begin, NoWork, flash, heap, history
  <2>2. Live' \subseteq Live
    BY <2>1, LiveKept
  <2>3. Kept /\ Handled'
    BY <2>1, <2>2, DataKept DEF Handled
  <2> QED
    BY <2>1, <2>3, HandlerKept
<1>2. CASE Register
  BY <1>2, DataKept, RestKept DEF Register, flash, heap, ctl, history, Allocating
<1> QED
  BY <1>1, <1>2

\* A new object is none of those that exist, and the store finds it and still finds them.
LEMMA AddObjectKept ==
    ASSUME TypeInv, Referenced, NEW o \in ObjId, NEW t \in Tx, Fresh(o), AddObject(o, t),
           Live' \subseteq Live \cup {o}
    PROVE  /\ o \notin Live /\ obj'[o] = t
           /\ \A p \in Live : obj'[p] = obj[p]
           /\ Referenced'
<1> DEFINE S == {i \in DOMAIN cache : Alive(cache[i])}
<1>1. o \notin Live /\ Live \subseteq ObjId
  BY DEF Fresh, Live
<1>2. obj'[o] = t /\ \A p \in Live : obj'[p] = obj[p]
  BY <1>1 DEF AddObject, Live
<1>3. cache \in Seq(ObjId) /\ cache' = Append(Keep(cache, S), o) /\ S \subseteq DOMAIN cache
  BY DEF AddObject, TypeInv, TypeOK
<1>4. \A p \in Live : \E i \in S : cache[i] = p
  BY DEF Referenced, Live
<1> HIDE DEF S
<1>5. /\ Keep(cache, S) \in Seq(ObjId)
      /\ \A i \in S : \E k \in DOMAIN Keep(cache, S) : Keep(cache, S)[k] = cache[i]
  BY <1>3, KeepType
<1>6. \A p \in Live \cup {o} : \E k \in DOMAIN cache' : cache'[k] = p
  <2>1. /\ \A k \in DOMAIN Keep(cache, S) : k \in DOMAIN cache' /\ cache'[k] = Keep(cache, S)[k]
        /\ \E k \in DOMAIN cache' : cache'[k] = o
    BY <1>3, <1>5
  <2> QED
    BY <1>4, <1>5, <2>1
<1>7. Referenced'
  BY <1>6 DEF Referenced
<1> QED
  BY <1>1, <1>2, <1>7

\* A transaction that is read from flash is the only object of its session, for the store would
\* have found another one.
LEMMA LoadReport ==
    ASSUME TypeInv, TypeInv', ReportInv, NEW o \in ObjId, NEW n \in TxNr, Load(o, n),
           file[n] # NoTx, \A p \in Live : obj[p].txNr # n,
           Live' \subseteq Live \cup {o}, UNCHANGED <<file, sessions, opLog>>,
           Handled', ~Allocating', pc \notin {"start2", "stop2"}
    PROVE  ReportInv'
<1>1. file[n] \in Tx
  BY DEF TypeInv, TypeOK
<1>2. /\ o \notin Live /\ obj'[o] = file[n] /\ Referenced'
      /\ \A p \in Live : obj'[p] = obj[p]
  BY <1>1, AddObjectKept DEF Load, ReportInv
<1>3. Versions' \subseteq Versions
  BY <1>2 DEF Versions
<1>4. OwnFile'
  BY DEF ReportInv, OwnFile
<1>5. \A p \in Live : obj[p].session # file[n].session
  <2>1. \A p \in Live : obj[p] \in Versions
    BY DEF Versions
  <2>2. file[n] \in Versions /\ file[n].txNr = n
    BY DEF Versions, ReportInv, OwnFile
  <2> QED
    BY <2>1, <2>2 DEF ReportInv, OneNumber
<1>6. OneObject'
  BY <1>2, <1>5 DEF ReportInv, OneObject
<1>7. \A u \in Versions' : \E t \in Versions : Grown(t, u)
  BY <1>3 DEF Grown
<1>8. NotesOp
  BY DEF NotesOp
<1> QED
  BY <1>2, <1>4, <1>6, <1>7, <1>8, ReportKept

\* The transaction the connector goes on with, and those of the op files.
LEMMA RestoreReport ==
    ASSUME TypeInv, TypeInv', ReportInv, NEW o \in ObjId, Boot(o) \/ Restore(o)
    PROVE  ReportInv'
<1> USE References
<1>0. TypeOK
  BY DEF TypeInv
<1>1. CASE Boot(o)
  <2> DEFINE n == PrevNr(txEnd)
  <2>1. n \in TxNr
    BY <1>0, NeighbourType DEF TypeOK
  <2>2. /\ pc = "off" /\ pc' = "idle"
        /\ UNCHANGED <<file, queue, work, sessions, opLog>>
    BY <1>1 DEF Boot, flash, history
  <2>3. Live = {}
    BY <1>0, <2>2 DEF ReportInv, Handled, Live, Alive, TypeOK
  <2>4. Handled' /\ ~Allocating'
    BY <2>2 DEF Handled, Allocating
  <2>5. CASE file[n] # NoTx
    <3>1. Load(o, n) /\ tx' = o
      BY <1>1, <2>5 DEF Boot
    <3>2. Live' \subseteq Live \cup {o}
      BY <2>2, <3>1 DEF Live, Alive
    <3> HIDE DEF n
    <3> QED
      BY <2>1, <2>2, <2>3, <2>4, <2>5, <3>1, <3>2, LoadReport
  <2>6. CASE file[n] = NoTx
    <3>1. UNCHANGED <<tx, obj, cache>>
      BY <1>1, <2>6 DEF Boot, heap
    <3> QED
      BY <2>2, <3>1, DataKept, RestKept DEF Allocating
  <2> QED
    BY <2>5, <2>6
<1>2. CASE Restore(o)
  <2> DEFINE n == Head(queue).txNr
             found == IF Cached(n) # 0 THEN Cached(n) ELSE o
  <2>1. /\ queue # <<>> /\ queue \in Seq(Request) /\ Restorable(Head(queue))
        /\ queue' = [queue EXCEPT ![1].o = found]
        /\ pc \in {"idle", "fetch"} /\ pc' = "idle"
        /\ UNCHANGED <<file, tx, work, sessions, opLog>>
    BY <1>0, <1>2 DEF Restore, Unrestored, TypeOK, flash, history
  <2>2. n \in TxNr
    <3>1. Head(queue) \in Request
      BY <2>1
    <3> QED
      BY <3>1 DEF Request
  <2>3. /\ \A i \in DOMAIN queue' : queue'[i].o = found \/ queue'[i].o = queue[i].o
        /\ DOMAIN queue' = DOMAIN queue
    <3> HIDE DEF found
    <3>1. \A i \in DOMAIN queue : queue[i] \in Request
      BY <2>1
    <3> QED
      BY <2>1, <3>1 DEF Request
  <2>4. \A i \in DOMAIN queue' : queue'[i].o \in Live \cup {0, found}
    BY <2>3
  <2>5. CASE Cached(n) # 0
    <3>1. found \in Live /\ UNCHANGED <<obj, cache>>
      BY <1>2, <2>2, <2>5, CachedFinds DEF Restore, heap
    <3> HIDE DEF found
    <3> QED
      BY <2>1, <2>4, <3>1, DataKept, RestKept DEF Allocating
  <2>6. CASE Cached(n) = 0
    <3>1. found = o /\ Load(o, n) /\ file[n] # NoTx
      BY <1>2, <2>1, <2>6 DEF Restore, Restorable, Exists
    <3>2. \A p \in Live : obj[p].txNr # n
      BY <2>2, <2>6, CachedFinds DEF ReportInv
    <3>3. Live' \subseteq Live \cup {o}
      <4>1. tx' \in Live \cup {0} /\ work'.o \in Live \cup {0}
        BY <2>1
      <4> HIDE DEF found
      <4> QED
        BY <2>4, <3>1, <4>1 DEF Live, Alive
    <3>4. Handled' /\ ~Allocating'
      BY <2>1 DEF Handled, Allocating
    <3> HIDE DEF n, found
    <3> QED
      BY <2>1, <2>2, <2>6, <3>1, <3>2, <3>3, <3>4, LoadReport
  <2> QED
    BY <2>5, <2>6
<1> QED
  BY <1>1, <1>2

\* A transaction that becomes silent is a version of the one that was found.
LEMMA RestoreFailsReport ==
    ASSUME TypeInv, TypeInv', ReportInv, RestoreFails
    PROVE  ReportInv'
<1> USE References
<1> DEFINE n == Head(queue).txNr
           c == Cached(n)
           t == [Look(n) EXCEPT !.silent = TRUE, !.active = FALSE]
<1>1. /\ queue # <<>> /\ queue \in Seq(Request) /\ pc \in {"idle", "fetch"}
      /\ pc' \in {"skip", "pop"}
      /\ UNCHANGED <<queue, tx, cache, work, sessions, opLog>>
  BY DEF RestoreFails, Unrestored, TypeInv, TypeOK
<1>2. n \in TxNr
  <2>1. Head(queue) \in Request
    BY <1>1
  <2> QED
    BY <2>1 DEF Request
<1>3. \/ UNCHANGED <<file, obj>>
      \/ c # 0 /\ Update(c, t)
      \/ c = 0 /\ file[n] # NoTx /\ Commit(t) /\ obj' = obj
  BY DEF RestoreFails, Exists, Update
<1>4. ASSUME Live' \subseteq Live PROVE Kept
  <2>1. CASE UNCHANGED <<file, obj>>
    BY <1>4, <2>1, DataKept
  <2>2. Look(n) \in Tx
    BY <1>2, LookType DEF TypeInv
  <2>3. t \in Tx /\ Grown(Look(n), t)
    <3> HIDE DEF n
    <3> QED
      BY <2>2 DEF Tx, Grown
  <2>4. CASE c # 0 /\ Update(c, t)
    <3>1. c \in Live /\ Look(n) = obj[c]
      BY <1>2, <2>4, CachedFinds DEF Look
    <3> HIDE DEF n, c, t
    <3> QED
      BY <1>4, <2>3, <2>4, <3>1, DataKept
  <2>5. CASE c = 0 /\ file[n] # NoTx /\ Commit(t) /\ obj' = obj
    <3>1. Look(n) = file[n] /\ t.txNr = n
      BY <1>2, <2>3, <2>5 DEF Look, Grown, ReportInv, OwnFile
    <3>2. file \in [TxNr -> Tx]
      BY DEF TypeInv, TypeOK
    <3> HIDE DEF n, c, t
    <3>3. \A m \in TxNr : file'[m] = IF m = n THEN t ELSE file[m]
      BY <1>2, <2>5, <3>1, <3>2 DEF Commit
    <3>4. \A p \in Live' : p \in Live /\ obj'[p] = obj[p]
      BY <1>4, <2>5
    <3> QED
      BY <1>2, <2>3, <2>5, <3>1, <3>3, <3>4 DEF Kept, Grown
  <2> QED
    BY <1>3, <2>1, <2>4, <2>5
<1> QED
  BY <1>1, <1>4, RestKept DEF Allocating

\* A new transaction is the only one of its session, for no session was begun with this number
\* before.
LEMMA CreateReport ==
    ASSUME TypeInv, TypeInv', ReportInv, NEW o \in ObjId, Create(o) \/ CreateSilent(o)
    PROVE  ReportInv'
<1> USE References
<1>0. TypeOK
  BY DEF TypeInv
<1>1. PICK silent \in BOOLEAN : pc = "alloc" /\ CreateTransaction(o, silent)
  BY DEF Create, CreateSilent
<1> DEFINE t == NewTx(txEnd, sessions, silent)
<1>2. /\ Fresh(o) /\ AddObject(o, t) /\ work'.o = o /\ pc' = "created"
      /\ UNCHANGED <<file, queue, tx, sessions, opLog>>
  <2>1. work \in Work
    BY <1>0 DEF TypeOK
  <2>2. work'.o = o
    BY <1>1, <2>1 DEF CreateTransaction, Work
  <2> QED
    BY <1>1, <2>2 DEF CreateTransaction, history
<1>3. /\ t \in Tx /\ t.session = sessions /\ t.txNr = txEnd /\ ~t.stopReq
  BY <1>0, NewTxType DEF TypeOK, NewTx
<1> HIDE DEF t
<1>4. Live' \subseteq Live \cup {o}
  BY <1>2 DEF Live, Alive
<1>5. /\ o \notin Live /\ obj'[o] = t /\ Referenced'
      /\ \A p \in Live : obj'[p] = obj[p]
  BY <1>2, <1>3, <1>4, AddObjectKept DEF ReportInv
<1>6. Versions' \subseteq Versions \cup {t}
  BY <1>2, <1>4, <1>5 DEF Versions
<1>7. /\ \A u \in Versions : u.session < sessions /\ u.session \in Nat
      /\ \A i \in DOMAIN opLog : opLog[i].session < sessions /\ opLog[i].session \in Nat
      /\ sessions \in Nat
  <2>1. Versions \subseteq Tx /\ opLog \in Seq(Op) /\ sessions \in Nat
    BY <1>0, LiveType DEF TypeOK
  <2>2. \A i \in DOMAIN opLog : opLog[i] \in Op
    BY <2>1
  <2> QED
    BY <1>1, <2>1, <2>2 DEF ReportInv, Past, Allocating, Tx, Op
<1>8. OwnFile' /\ ReportedOnce' /\ Handled'
  BY <1>2 DEF ReportInv, OwnFile, ReportedOnce, Handled
<1>9. OneNumber' /\ Stopped'
  BY <1>3, <1>6, <1>7 DEF ReportInv, OneNumber, Stopped
<1>10. OneObject'
  <2>1. \A p \in Live : obj[p].session # sessions
    BY <1>7 DEF Versions
  <2> QED
    BY <1>3, <1>4, <1>5, <2>1 DEF ReportInv, OneObject
<1>11. Noted'
  <2>1. \A s : /\ Logged("start", s)' = Logged("start", s)
               /\ Logged("stop", s)' = Logged("stop", s)
    BY <1>2 DEF Logged
  <2>2. ~Logged("start", t.session) /\ ~Logged("stop", t.session)
    BY <1>3, <1>7 DEF Logged
  <2>3. \A u \in Versions : /\ Logged("start", u.session) => u.startReq
                            /\ Logged("stop", u.session) => u.stopReq
    BY <1>1 DEF ReportInv, Noted
  <2> QED
    BY <1>6, <2>1, <2>2, <2>3, Zenon DEF Noted
<1>12. Past'
  <2>1. ~Allocating'
    BY <1>2 DEF Allocating
  <2> QED
    BY <1>2, <1>3, <1>6, <1>7, <2>1 DEF Past
<1> QED
  BY <1>5, <1>8, <1>9, <1>10, <1>11, <1>12 DEF ReportInv

\* Every step keeps the invariant, unless the power is cut between a message and its flag.
LEMMA NextReport ==
    ASSUME Atomic, TypeInv, TypeInv', ReportInv, [Next]_vars
    PROVE  ReportInv'
<1>1. CASE \E how \in How : Begin(how)
  BY <1>1, BeginReport
<1>2. CASE Allocate
  BY <1>2, AllocateReport, CreateReport DEF Allocate
<1>3. CASE End \/ Collect
  BY <1>3, EndReport, CollectReport
<1>4. CASE Charge
  <2>1. ASSUME Initiate PROVE ReportInv'
    <3>1. CASE pc = "start1" \/ pc = "stop1"
      BY <2>1, <3>1, InitiateOpReport DEF Initiate
    <3>2. CASE pc = "start2" \/ pc = "stop2"
      <4>1. obj[work.o] \in Tx
        BY <3>2 DEF TypeInv, HasObject, TypeOK, Work
      <4>2. /\ [obj[work.o] EXCEPT !.startReq = TRUE] \in Tx
            /\ [obj[work.o] EXCEPT !.stopReq = TRUE] \in Tx
        BY <4>1, FlagType
      <4> QED
        BY <2>1, <3>2, <4>2, InitiateTxReport DEF Initiate
    <3> QED
      BY <2>1, <3>1, <3>2 DEF Initiate
  <2> QED
    BY <1>4, <2>1, ChargeReport DEF Charge
<1>5. CASE Authorize \/ Answer
  BY <1>5, AuthorizeReport, AnswerReport
<1>6. CASE PowerCut
  BY <1>6, ResetReport
<1>7. CASE Recover
  BY <1>7, BeginReport, RestoreReport, RestoreFailsReport, ResetReport DEF Recover
<1>8. CASE UNCHANGED vars
  <2>1. /\ \A k, s : Logged(k, s)' = Logged(k, s)
        /\ Live' = Live /\ Versions' = Versions /\ Allocating' = Allocating
    BY <1>8 DEF vars, flash, heap, ctl, history, Logged, Live, Versions, Alive, Allocating
  <2> QED
    BY <1>8, <2>1 DEF ReportInv, Referenced, OwnFile, OneNumber, OneObject, Stopped, Noted, Past,
       Handled, ReportedOnce, vars, flash, heap, ctl, history
<1> QED
  BY <1>1, <1>2, <1>3, <1>4, <1>5, <1>6, <1>7, <1>8 DEF Next

-----------------------------------------------------------------------------
(* The theorem *)

LEMMA AlwaysReport ==
    ASSUME Atomic
    PROVE  Spec => [](TypeInv /\ ReportInv)
<1>1. Init => TypeInv /\ ReportInv
  BY InitTypeInv, InitReport
<1>2. TypeInv /\ ReportInv /\ [Next]_vars => (TypeInv /\ ReportInv)'
  BY NextTypeInv, NextReport
<1> QED
  BY <1>1, <1>2, PTL DEF Spec

\* A session is reported to the server as one transaction, whatever the server, the authorization
\* and the inputs do, and wherever else the power is cut: its StartTransaction and its
\* StopTransaction are written to the queue at most once each, if the power is never cut between
\* the op file and the flag of the transaction that notes it (StartTransaction::initiate and
\* StopTransaction::initiate write the op file first and commit the transaction afterwards).
THEOREM OnceReported ==
    ASSUME Atomic
    PROVE  Spec => []ReportedOnce
<1>1. TypeInv /\ ReportInv => ReportedOnce
  BY DEF ReportInv
<1> QED
  BY <1>1, AlwaysReport, PTL

-----------------------------------------------------------------------------
(* The journal: the inductive invariant *)

\* The numbers of the journal in the order in which they are given, from the first file on.
Origin == IF FirstTxNr = 0 THEN 0 ELSE FirstTxNr - 1
Turn(n) == IF n >= Origin THEN n - Origin ELSE n + TxCnt - Origin

\* The op files of the queue, and all that knows the number of a session.
Ops == {queue[i] : i \in {j \in DOMAIN queue : InFlash(queue[j])}}
Carriers == Versions \cup Ops

\* The power is not cut between a message and its flag, the journal holds more than one
\* transaction, and the device is used for fewer sessions than there are numbers.
JournalAssumption ==
    /\ Atomic
    /\ RecordSize > 1
    /\ MaxSessions + 1 < TxCnt

Bounds ==
    /\ sessions <= MaxSessions
    /\ Turn(txBegin) <= Turn(txEnd)
    /\ Turn(txEnd) <= sessions + 1
    /\ Allocating => sessions # 0 /\ Turn(txEnd) <= sessions

\* Numbers are given in the order of the sessions, inside the journal, and only sessions that
\* are closed fall out of it at its beginning.
Numbered ==
    /\ \A x \in Carriers :
           /\ Turn(x.txNr) < Turn(txEnd)
           /\ Turn(x.txNr) < Turn(txBegin) => x.session \in closed
    /\ \A x, y \in Carriers : Turn(x.txNr) <= Turn(y.txNr) <=> x.session <= y.session

\* The sessions of the messages.
LogOrder ==
    /\ \A i \in DOMAIN opLog : opLog[i].session # 0
    /\ \A s \in closed : Logged("stop", s)

\* Only the latest transaction of the journal may be one that has not stopped, and the flags of
\* a transaction tell which messages were written.
Flagged(t) ==
    /\ ~t.stopReq => Turn(t.txNr) + 1 = Turn(txEnd) /\ t.session # 0
    /\ t.stopReq => t.startReq /\ ~t.silent
    /\ t.session # 0 /\ t.startReq /\ ~t.silent => Logged("start", t.session)
    /\ t.session # 0 /\ t.stopReq => Logged("stop", t.session)
    /\ t.silent => ~Logged("start", t.session)
    /\ t.stopConf => t.stopReq /\ t.session \in closed \cup {0}

\* A message in flash has its transaction, unless it is answered, and there is a transaction of
\* a started session at its number or above, so that the number is not given back.
Backed(r) ==
    /\ Logged(r.kind, r.session)
    /\ file[r.txNr].session = r.session \/ r.session \in closed
    /\ \E n \in TxNr : /\ Turn(r.txNr) <= Turn(n) /\ Turn(n) < Turn(txEnd)
                       /\ Logged("start", file[n].session)

\* The StopTransaction of the session of a request is behind it in the queue.
Followed(q, i) == \E j \in DOMAIN q : i < j /\ q[j].kind = "stop" /\ q[j].session = q[i].session

\* The session of an Authorize request goes on: the connector has it, or its StopTransaction is
\* about to be written.
Awaited(r) ==
    /\ r.o = tx \/ (pc = "stop1" /\ r.o = work.o)
    /\ r.session # 0 /\ ~Logged("stop", r.session)

\* The objects of the requests are those of their sessions, and an Authorize request belongs to
\* the session that goes on, or to one whose StopTransaction will be answered after it.
Attached ==
    /\ \A i \in DOMAIN queue :
           queue[i].o # 0 => /\ obj[queue[i].o].session = queue[i].session
                             /\ obj[queue[i].o].txNr = queue[i].txNr
    /\ \A i \in DOMAIN queue :
           queue[i].kind = "auth" => Followed(queue, i) \/ Awaited(queue[i])

\* What is in RAM is in flash.
InSync ==
    \A o \in Live :
        \/ file[obj[o].txNr] = obj[o]
        \/ /\ file[obj[o].txNr] = NoTx
           /\ \/ pc = "created" /\ o = work.o
              \/ pc \in {"collect", "silent"} /\ o = tx
              \/ obj[o].session \in closed

\* A connector without a transaction has none that has not stopped.
Resting == tx = 0 /\ (Allocating \/ pc \in {"idle", "pop", "fetch"})
NoneOpen == Resting => \A t \in Versions : t.stopReq

\* A session the server was told of, and not told to be over, is the latest of the journal.
OpenLast ==
    \A s \in Nat \ {0} :
        Logged("start", s) /\ ~Logged("stop", s) => file[PrevNr(txEnd)].session = s

\* What the handlers work on.
Where ==
    /\ pc # "skip"
    /\ tx # 0 => Turn(obj[tx].txNr) + 1 = Turn(txEnd)
    /\ pc \in Places \ {"idle", "pop", "fetch", "collect", "silent", "start1", "start2"} => tx = 0
    /\ pc \in {"start1", "start2"} => work.o = tx
    /\ pc \in Places \ {"created", "begin", "start1", "start2", "stop1", "stop2"} => work.o = 0
    /\ pc \in {"created", "begin", "start1", "start2", "stop1", "stop2"}
           => Turn(obj[work.o].txNr) + 1 = Turn(txEnd)
    /\ pc \in {"created", "begin"} => obj[work.o].active
    /\ pc \in {"start1", "start2", "stop1", "stop2"} => ~obj[work.o].silent
    /\ pc \in {"stop1", "stop2"} => obj[work.o].startReq
    /\ pc = "start2" => Logged("start", obj[work.o].session)
    /\ pc = "stop2" => Logged("stop", obj[work.o].session)
    /\ pc \in {"collect", "silent"} =>
           /\ file[obj[tx].txNr] = NoTx
           /\ ~obj[tx].active /\ ~Logged("start", obj[tx].session)
    /\ pc = "trimmed" => Turn(txBegin) < Turn(txEnd) /\ file[PrevNr(txEnd)] = NoTx
    /\ pc = "alloc" /\ Turn(txBegin) < Turn(txEnd) => file[PrevNr(txEnd)] # NoTx
    /\ pc = "evicted" => /\ Turn(txBegin) + 1 < Turn(txEnd)
                         /\ file[PrevNr(txEnd)] # NoTx /\ file[txBegin] = NoTx

JournalInv ==
    /\ Bounds /\ Numbered /\ LogOrder
    /\ \A t \in Versions : Flagged(t)
    /\ \A r \in Ops : Backed(r)
    /\ Attached /\ InSync /\ NoneOpen /\ OpenLast /\ Where

-----------------------------------------------------------------------------
(* The order of the numbers *)

\* Remainders of numbers that are at most once too large.
LEMMA Remainders ==
    \A a \in TxNr : a % TxCnt = a /\ (a + TxCnt) % TxCnt = a
<1> SUFFICES ASSUME NEW a \in TxNr
             PROVE  a % TxCnt = a /\ (a + TxCnt) % TxCnt = a
  OBVIOUS
<1>1. TxCnt \in Nat \ {0} /\ a \in Nat /\ a < TxCnt
  BY TxAssumption DEF TxNr
<1> QED
  BY <1>1

\* The turns of the neighbours of a number.
LEMMA Turns ==
    /\ \A n \in TxNr : Turn(n) \in TxNr
    /\ \A n, m \in TxNr : Turn(n) = Turn(m) => n = m
    /\ \A n \in TxNr : Turn(n) + 1 < TxCnt => Turn(NextNr(n)) = Turn(n) + 1
    /\ \A n \in TxNr : Turn(n) > 0 => Turn(PrevNr(n)) = Turn(n) - 1
<1>1. TxCnt \in Nat \ {0} /\ Origin \in Nat /\ Origin < TxCnt
  BY TxAssumption DEF Origin
<1>2. \A n \in TxNr : Turn(n) \in TxNr
  BY <1>1 DEF Turn, TxNr
<1>3. \A n, m \in TxNr : Turn(n) = Turn(m) => n = m
  BY <1>1 DEF Turn, TxNr
<1>4. \A n \in TxNr : NextNr(n) = IF n = TxCnt - 1 THEN 0 ELSE n + 1
  <2> SUFFICES ASSUME NEW n \in TxNr
               PROVE  NextNr(n) = IF n = TxCnt - 1 THEN 0 ELSE n + 1
    OBVIOUS
  <2>1. CASE n = TxCnt - 1
    <3>1. 0 \in TxNr /\ n + 1 = 0 + TxCnt
      BY <1>1, <2>1 DEF TxNr
    <3> QED
      BY <2>1, <3>1, Remainders DEF NextNr
  <2>2. CASE n # TxCnt - 1
    <3>1. n + 1 \in TxNr
      BY <1>1, <2>2 DEF TxNr
    <3> QED
      BY <2>2, <3>1, Remainders DEF NextNr
  <2> QED
    BY <2>1, <2>2
<1>5. \A n \in TxNr : PrevNr(n) = IF n = 0 THEN TxCnt - 1 ELSE n - 1
  <2> SUFFICES ASSUME NEW n \in TxNr
               PROVE  PrevNr(n) = IF n = 0 THEN TxCnt - 1 ELSE n - 1
    OBVIOUS
  <2>1. CASE n = 0
    <3>1. TxCnt - 1 \in TxNr /\ n + TxCnt - 1 = TxCnt - 1
      BY <1>1, <2>1 DEF TxNr
    <3> QED
      BY <2>1, <3>1, Remainders DEF PrevNr
  <2>2. CASE n # 0
    <3>1. n - 1 \in TxNr /\ n + TxCnt - 1 = (n - 1) + TxCnt
      BY <1>1, <2>2 DEF TxNr
    <3> QED
      BY <2>2, <3>1, Remainders DEF PrevNr
  <2> QED
    BY <2>1, <2>2
<1>6. \A n \in TxNr : Turn(n) + 1 < TxCnt => Turn(NextNr(n)) = Turn(n) + 1
  BY <1>1, <1>4 DEF Turn, TxNr
<1>7. \A n \in TxNr : Turn(n) > 0 => Turn(PrevNr(n)) = Turn(n) - 1
  BY <1>1, <1>5 DEF Turn, TxNr
<1> QED
  BY <1>2, <1>3, <1>6, <1>7

\* What is in the journal, by the turns of the numbers.
LEMMA JournalTurns ==
    ASSUME txBegin \in TxNr, txEnd \in TxNr, Turn(txBegin) <= Turn(txEnd)
    PROVE  /\ Size = Turn(txEnd) - Turn(txBegin)
           /\ \A n \in TxNr :
                  Turn(txBegin) <= Turn(n) /\ Turn(n) < Turn(txEnd) => InJournal(n)
<1>1. TxCnt \in Nat \ {0} /\ Origin \in Nat /\ Origin < TxCnt
  BY TxAssumption DEF Origin
<1>2. ASSUME NEW n \in TxNr, Turn(txBegin) <= Turn(n)
      PROVE  (n + TxCnt - txBegin) % TxCnt = Turn(n) - Turn(txBegin)
  <2> DEFINE d == Turn(n) - Turn(txBegin)
  <2>1. d \in TxNr /\ (n + TxCnt - txBegin = d \/ n + TxCnt - txBegin = d + TxCnt)
    BY <1>1, <1>2 DEF Turn, TxNr
  <2> HIDE DEF d
  <2>2. (n + TxCnt - txBegin) % TxCnt = d
    BY <2>1, Remainders
  <2> QED
    BY <2>2 DEF d
<1>3. Size = Turn(txEnd) - Turn(txBegin)
  BY <1>2 DEF Size
<1>4. ASSUME NEW n \in TxNr, Turn(txBegin) <= Turn(n), Turn(n) < Turn(txEnd)
      PROVE  InJournal(n)
  <2>1. (n + TxCnt - txBegin) % TxCnt = Turn(n) - Turn(txBegin)
    BY <1>2, <1>4
  <2>2. Turn(n) \in Int /\ Turn(txBegin) \in Int /\ Turn(txEnd) \in Int
    BY Turns DEF TxNr
  <2> QED
    BY <1>3, <1>4, <2>1, <2>2 DEF InJournal
<1> QED
  BY <1>3, <1>4

-----------------------------------------------------------------------------
(* What a step leaves of the journal *)

\* What knows the number of a session is well-typed.
LEMMA CarrierType ==
    ASSUME TypeInv
    PROVE  /\ Versions \subseteq Tx /\ Ops \subseteq Request
           /\ \A x \in Carriers : x.txNr \in TxNr /\ x.session \in Nat /\ Turn(x.txNr) \in Nat
           /\ Turn(txBegin) \in Nat /\ Turn(txEnd) \in Nat
<1>1. queue \in Seq(Request) /\ txBegin \in TxNr /\ txEnd \in TxNr
  BY DEF TypeInv, TypeOK
<1>2. \A i \in DOMAIN queue : queue[i] \in Request
  BY <1>1
<1>3. Versions \subseteq Tx /\ Ops \subseteq Request
  BY <1>2, LiveType DEF Ops
<1>4. \A x \in Carriers : x.txNr \in TxNr /\ x.session \in Nat
  BY <1>3 DEF Carriers, Tx, Request
<1>5. \A n \in TxNr : Turn(n) \in Nat
  BY Turns DEF TxNr
<1> QED
  BY <1>1, <1>3, <1>4, <1>5

\* A number belongs to one session, as a session has one number.
LEMMA SameNumber ==
    ASSUME TypeInv, Numbered, NEW x \in Carriers, NEW y \in Carriers
    PROVE  x.txNr = y.txNr <=> x.session = y.session
<1>1. /\ x.txNr \in TxNr /\ x.session \in Nat /\ Turn(x.txNr) \in Nat
      /\ y.txNr \in TxNr /\ y.session \in Nat /\ Turn(y.txNr) \in Nat
  BY CarrierType
<1>2. /\ Turn(x.txNr) <= Turn(y.txNr) <=> x.session <= y.session
      /\ Turn(y.txNr) <= Turn(x.txNr) <=> y.session <= x.session
  BY DEF Numbered
<1>3. Turn(x.txNr) = Turn(y.txNr) <=> x.session = y.session
  BY <1>1, <1>2
<1> QED
  BY <1>1, <1>3, Turns

\* No message was written of the sessions of absent files, nor of a session that has not started.
Unlogged(s) == ~Logged("start", s) /\ ~Logged("stop", s)

\* Files keep their session, or were of no session that was reported.
FilesKept == \A n \in TxNr : file'[n].session = file[n].session \/ Unlogged(file[n].session)

LEMMA AbsentUnlogged ==
    LogOrder => Unlogged(0) /\ NoTx.session = 0
<1>1. NoTx.session = 0
  BY DEF NoTx, NewTx
<1> QED
  BY <1>1 DEF LogOrder, Unlogged, Logged

\* The numbers and the flags, if no message is written and the journal keeps its bounds.
LEMMA NumbersKept ==
    ASSUME TypeInv, TypeInv', JournalInv,
           UNCHANGED <<txBegin, txEnd, opLog>>, closed \subseteq closed',
           \A s \in closed' : Logged("stop", s),
           \A u \in Versions' :
               \/ u \in Versions
               \/ Flagged(u)' /\ \E t \in Versions : u.session = t.session /\ u.txNr = t.txNr,
           \A x \in Ops' : \E y \in Ops :
               x.kind = y.kind /\ x.session = y.session /\ x.txNr = y.txNr
    PROVE  /\ Numbered' /\ LogOrder'
           /\ \A t \in Versions' : Flagged(t)'
<1>1. \A k, s : Logged(k, s)' = Logged(k, s)
  BY DEF Logged
<1>2. Numbered'
  <2>1. \A x \in Carriers' : \E y \in Carriers : x.session = y.session /\ x.txNr = y.txNr
    BY DEF Carriers
  <2>2. Numbered
    BY DEF JournalInv
  <2>3. \A x \in Carriers' : /\ Turn(x.txNr) < Turn(txEnd)
                             /\ Turn(x.txNr) < Turn(txBegin) => x.session \in closed
    BY <2>1, <2>2 DEF Numbered
  <2>4. \A x, y \in Carriers' : Turn(x.txNr) <= Turn(y.txNr) <=> x.session <= y.session
    BY <2>1, <2>2 DEF Numbered
  <2> QED
    BY <2>3, <2>4 DEF Numbered
<1>3. LogOrder'
  BY <1>1 DEF JournalInv, LogOrder
<1>4. \A t \in Versions' : Flagged(t)'
  <2> SUFFICES ASSUME NEW t \in Versions, Flagged(t) PROVE Flagged(t)'
    BY DEF JournalInv
  <2> QED
    BY <1>1 DEF Flagged
<1> QED
  BY <1>2, <1>3, <1>4

\* The flash and the messages, if no message is written and the journal keeps its bounds.
LEMMA FlashKept ==
    ASSUME TypeInv, TypeInv', JournalInv,
           UNCHANGED <<txBegin, txEnd, opLog>>, closed \subseteq closed',
           \A s \in closed' : Logged("stop", s),
           FilesKept,
           \A u \in Versions' :
               \/ u \in Versions
               \/ Flagged(u)' /\ \E t \in Versions : u.session = t.session /\ u.txNr = t.txNr,
           \A x \in Ops' : \E y \in Ops :
               x.kind = y.kind /\ x.session = y.session /\ x.txNr = y.txNr
    PROVE  /\ Numbered' /\ LogOrder' /\ OpenLast'
           /\ \A t \in Versions' : Flagged(t)'
           /\ \A r \in Ops' : Backed(r)'
<1>1. \A k, s : Logged(k, s)' = Logged(k, s)
  BY DEF Logged
<1>2. Numbered' /\ LogOrder' /\ \A t \in Versions' : Flagged(t)'
  BY NumbersKept
<1>3. ASSUME NEW r \in Ops' PROVE Backed(r)'
  <2>1. PICK y \in Ops : r.kind = y.kind /\ r.session = y.session /\ r.txNr = y.txNr
    OBVIOUS
  <2>2. Backed(y) /\ y.txNr \in TxNr /\ LogOrder
    <3>1. y \in Request
      BY CarrierType
    <3> QED
      BY <3>1 DEF JournalInv, Request
  <2>3. \A n \in TxNr : Logged("start", file[n].session) => file'[n].session = file[n].session
    BY DEF FilesKept, Unlogged
  <2>4. file'[y.txNr].session = y.session \/ y.session \in closed'
    <3>1. file[y.txNr].session = y.session \/ y.session \in closed
      BY <2>2 DEF Backed
    <3>2. y.kind \in {"start", "stop"} /\ Logged(y.kind, y.session)
      <4>1. y \in Request /\ InFlash(y)
        BY CarrierType DEF Ops
      <4> QED
        BY <2>2, <4>1 DEF Request, InFlash, Backed
    <3> QED
      BY <2>2, <3>1, <3>2 DEF FilesKept, Unlogged
  <2>5. \E n \in TxNr : /\ Turn(y.txNr) <= Turn(n) /\ Turn(n) < Turn(txEnd)
                        /\ Logged("start", file'[n].session)
    BY <2>2, <2>3 DEF Backed
  <2>6. Logged(r.kind, r.session)
    BY <2>1, <2>2 DEF Backed
  <2> QED
    BY <1>1, <2>1, <2>4, <2>5, <2>6 DEF Backed
<1>4. OpenLast'
  <2> SUFFICES ASSUME NEW s \in Nat \ {0}, Logged("start", s), ~Logged("stop", s)
               PROVE  file'[PrevNr(txEnd)].session = s
    BY <1>1 DEF OpenLast
  <2>1. PrevNr(txEnd) \in TxNr /\ file[PrevNr(txEnd)].session = s
    BY NeighbourType DEF JournalInv, OpenLast, TypeInv, TypeOK
  <2> QED
    BY <2>1 DEF FilesKept, Unlogged
<1> QED
  BY <1>2, <1>3, <1>4

\* The change of an object that is committed: it replaces what was known of its session.
LEMMA UpdateKeeps ==
    ASSUME TypeInv, TypeInv', ReportInv, JournalInv,
           NEW o \in Live, NEW t \in Tx, Update(o, t), Grown(obj[o], t), Live' \subseteq Live
    PROVE  /\ FilesKept
           /\ \A u \in Versions' : u \in Versions \/ u = t
           /\ \A p \in Live : obj'[p] = IF p = o THEN t ELSE obj[p]
           /\ \A n \in TxNr : file'[n] = IF n = t.txNr THEN t ELSE file[n]
           /\ \A p \in Live : p # o => obj[p].txNr # t.txNr
<1>1. /\ file \in [TxNr -> Tx] /\ obj \in [ObjId -> Tx] /\ Live \subseteq ObjId
      /\ t.txNr = obj[o].txNr /\ t.session = obj[o].session /\ t.txNr \in TxNr
  BY LiveType DEF TypeInv, TypeOK, Grown, Tx
<1>2. \A p \in Live : obj'[p] = IF p = o THEN t ELSE obj[p]
  BY <1>1 DEF Update
<1>3. \A n \in TxNr : file'[n] = IF n = t.txNr THEN t ELSE file[n]
  BY <1>1 DEF Update, Commit
<1>4. \A p \in Live : obj[p] \in Carriers
  BY DEF Versions, Carriers
<1>5. \A n \in TxNr : file[n] # NoTx => file[n] \in Carriers /\ file[n].txNr = n
  BY DEF Versions, Carriers, ReportInv, OwnFile
<1>6. FilesKept
  <2>1. file[t.txNr] # NoTx => file[t.txNr].session = t.session
    BY <1>1, <1>4, <1>5, SameNumber DEF JournalInv
  <2> QED
    BY <1>3, <2>1, AbsentUnlogged DEF FilesKept, JournalInv
<1>7. \A u \in Versions' : u \in Versions \/ u = t
  BY <1>2, <1>3 DEF Versions
<1>8. \A p \in Live : p # o => obj[p].txNr # t.txNr
  BY <1>1, <1>4, SameNumber DEF JournalInv, ReportInv, OneObject
<1> QED
  BY <1>2, <1>3, <1>6, <1>7, <1>8

\* A step that answers or drops a request at most: the first one, or an Authorize request.
Removal(p, q) ==
    p = q \/ \E i \in DOMAIN q : (i = 1 \/ q[i].kind = "auth") /\ p = RemoveAt(q, i)

\* Every request that is left was there, and is followed by its StopTransaction if it was.
Kin(p, q) ==
    \A i \in DOMAIN p : \E j \in DOMAIN q : p[i] = q[j] /\ (Followed(q, j) => Followed(p, i))

LEMMA RemovalParts ==
    ASSUME NEW T, NEW q \in Seq(T)
    PROVE  /\ q # <<>> => Tail(q) = RemoveAt(q, 1) /\ 1 \in DOMAIN q
           /\ \A p : Removal(p, q) => p \in Seq(T) /\ Part(p, q)
           /\ \A p : Removal(p, q) => Kin(p, q)
<1>1. ASSUME q # <<>> PROVE Tail(q) = RemoveAt(q, 1) /\ 1 \in DOMAIN q
  <2>1. 1 \in DOMAIN q /\ Len(q) \in Nat /\ Len(q) > 0
    BY <1>1
  <2>2. SubSeq(q, 1, 0) = <<>> /\ SubSeq(q, 2, Len(q)) = Tail(q)
    BY <2>1
  <2>3. <<>> \o Tail(q) = Tail(q) /\ Tail(q) \in Seq(T)
    BY <1>1
  <2>4. RemoveAt(q, 1) = SubSeq(q, 1, 0) \o SubSeq(q, 2, Len(q))
    <3>1. 1 - 1 = 0 /\ 1 + 1 = 2
      OBVIOUS
    <3> QED
      BY <3>1 DEF RemoveAt
  <2> QED
    BY <2>1, <2>2, <2>3, <2>4
<1>2. ASSUME NEW i \in DOMAIN q
      PROVE  /\ \A j \in DOMAIN RemoveAt(q, i) :
                    LET k == IF j < i THEN j ELSE j + 1
                    IN  k \in DOMAIN q /\ RemoveAt(q, i)[j] = q[k]
             /\ \A k \in DOMAIN q : k # i =>
                    LET j == IF k < i THEN k ELSE k - 1
                    IN  j \in DOMAIN RemoveAt(q, i) /\ RemoveAt(q, i)[j] = q[k]
             /\ DOMAIN RemoveAt(q, i) \subseteq Nat
  <2> DEFINE before == SubSeq(q, 1, i - 1)
             after == SubSeq(q, i + 1, Len(q))
  <2>1. before \in Seq(T) /\ after \in Seq(T) /\ Len(before) = i - 1 /\ Len(after) = Len(q) - i
        /\ i \in 1..Len(q) /\ Len(q) \in Nat /\ DOMAIN q = 1..Len(q)
    OBVIOUS
  <2>2. /\ \A x \in 1..Len(before) : before[x] = q[x]
        /\ \A x \in 1..Len(after) : after[x] = q[x + i]
    OBVIOUS
  <2>3. RemoveAt(q, i) = before \o after
    BY DEF RemoveAt
  <2> HIDE DEF before, after
  <2>4. DOMAIN RemoveAt(q, i) = 1..(Len(q) - 1)
    <3>1. before \o after \in Seq(T) /\ Len(before \o after) = Len(before) + Len(after)
      BY <2>1
    <3>2. DOMAIN (before \o after) = 1..Len(before \o after)
      BY <3>1
    <3> QED
      BY <2>1, <2>3, <3>1, <3>2
  <2>5. ASSUME NEW j \in 1..(Len(q) - 1)
        PROVE  RemoveAt(q, i)[j] = q[IF j < i THEN j ELSE j + 1]
    <3>1. RemoveAt(q, i)[j] = IF j <= Len(before) THEN before[j] ELSE after[j - Len(before)]
      BY <2>1, <2>3, <2>5
    <3>2. CASE j < i
      BY <2>1, <2>2, <2>5, <3>1, <3>2
    <3>3. CASE ~(j < i)
      <4>1. /\ j - Len(before) \in 1..Len(after) /\ ~(j <= Len(before))
            /\ (j - Len(before)) + i = j + 1
        BY <2>1, <2>5, <3>3
      <4> QED
        BY <2>2, <3>1, <3>3, <4>1
    <3> QED
      BY <3>2, <3>3
  <2>6. \A j \in DOMAIN RemoveAt(q, i) :
            LET k == IF j < i THEN j ELSE j + 1
            IN  k \in DOMAIN q /\ RemoveAt(q, i)[j] = q[k]
    BY <2>1, <2>4, <2>5
  <2>7. ASSUME NEW k \in DOMAIN q, k # i
        PROVE  LET j == IF k < i THEN k ELSE k - 1
               IN  j \in DOMAIN RemoveAt(q, i) /\ RemoveAt(q, i)[j] = q[k]
    <3>1. CASE k < i
      <4>1. k \in 1..(Len(q) - 1)
        BY <2>1, <3>1
      <4> QED
        BY <2>4, <2>5, <3>1, <4>1
    <3>2. CASE ~(k < i)
      <4>1. PICK j \in 1..(Len(q) - 1) : j = k - 1 /\ ~(j < i) /\ j + 1 = k
        BY <2>1, <2>7, <3>2
      <4> QED
        BY <2>4, <2>5, <3>2, <4>1
    <3> QED
      BY <3>1, <3>2
  <2>8. DOMAIN RemoveAt(q, i) \subseteq Nat
    BY <2>4
  <2> QED
    BY <2>6, <2>7, <2>8
<1>3. ASSUME NEW p, Removal(p, q) PROVE p \in Seq(T) /\ Part(p, q)
  <2>1. Part(q, q)
    BY DEF Part
  <2> QED
    BY <1>3, <2>1, PartsOf DEF Removal
<1>4. ASSUME NEW i \in DOMAIN q, i = 1 \/ q[i].kind = "auth" PROVE Kin(RemoveAt(q, i), q)
  <2> SUFFICES ASSUME NEW j \in DOMAIN RemoveAt(q, i)
               PROVE  \E k \in DOMAIN q : /\ RemoveAt(q, i)[j] = q[k]
                                          /\ Followed(q, k) => Followed(RemoveAt(q, i), j)
    BY DEF Kin
  <2>1. PICK k \in DOMAIN q : k = (IF j < i THEN j ELSE j + 1) /\ RemoveAt(q, i)[j] = q[k]
    BY <1>2
  <2>2. i \in Nat \ {0} /\ j \in Nat /\ k \in Nat \ {0} /\ DOMAIN q \subseteq Nat \ {0}
    BY <1>2
  <2>3. ASSUME NEW m \in DOMAIN q, k < m, q[m].kind = "stop", q[m].session = q[k].session
        PROVE  Followed(RemoveAt(q, i), j)
    <3>1. m # i
      BY <1>4, <2>2, <2>3
    <3>2. PICK x : x = (IF m < i THEN m ELSE m - 1)
      OBVIOUS
    <3>3. x \in DOMAIN RemoveAt(q, i) /\ RemoveAt(q, i)[x] = q[m]
      BY <1>2, <3>1, <3>2
    <3>4. j < x
      BY <2>1, <2>2, <2>3, <3>1, <3>2
    <3> QED
      BY <2>1, <2>3, <3>3, <3>4 DEF Followed
  <2> QED
    BY <2>1, <2>3 DEF Followed
<1>5. ASSUME NEW p, Removal(p, q) PROVE Kin(p, q)
  <2>1. Kin(q, q)
    BY DEF Kin
  <2> QED
    BY <1>4, <1>5, <2>1 DEF Removal
<1> QED
  BY <1>1, <1>3, <1>5

\* Objects and files stay in step if none changes, or one is committed.
LEMMA SyncKept ==
    ASSUME TypeInv, TypeInv', ReportInv, JournalInv, Live' \subseteq Live, closed \subseteq closed'
    PROVE  /\ /\ UNCHANGED <<file, obj>>
              /\ pc = "created" => pc' = "created" /\ work'.o = work.o
              /\ pc \in {"collect", "silent"} => pc' = pc /\ tx' = tx
              => InSync'
           /\ \A o \in Live, t \in Tx :
                  /\ Update(o, t) /\ Grown(obj[o], t)
                  /\ pc = "created" => o = work.o
                  /\ pc \notin {"collect", "silent"}
                  => InSync'
<1>1. ASSUME UNCHANGED <<file, obj>>,
             pc = "created" => pc' = "created" /\ work'.o = work.o,
             pc \in {"collect", "silent"} => pc' = pc /\ tx' = tx
      PROVE  InSync'
  BY <1>1 DEF JournalInv, InSync
<1>2. ASSUME NEW o \in Live, NEW t \in Tx, Update(o, t), Grown(obj[o], t),
             pc = "created" => o = work.o,
             pc \notin {"collect", "silent"}
      PROVE  InSync'
  <2>1. /\ \A p \in Live : obj'[p] = IF p = o THEN t ELSE obj[p]
        /\ \A n \in TxNr : file'[n] = IF n = t.txNr THEN t ELSE file[n]
        /\ \A p \in Live : p # o => obj[p].txNr # t.txNr
    BY <1>2, UpdateKeeps
  <2>2. \A p \in Live : obj[p].txNr \in TxNr
    BY LiveType DEF Tx, TypeInv, TypeOK
  <2>3. t.txNr \in TxNr
    BY DEF Tx
  <2> SUFFICES ASSUME NEW p \in Live'
               PROVE  \/ file'[obj'[p].txNr] = obj'[p]
                      \/ /\ file'[obj'[p].txNr] = NoTx
                         /\ obj'[p].session \in closed'
    BY DEF InSync
  <2>4. CASE p = o
    BY <2>1, <2>3, <2>4
  <2>5. CASE p # o
    <3>1. \/ file[obj[p].txNr] = obj[p]
          \/ /\ file[obj[p].txNr] = NoTx
             /\ \/ pc = "created" /\ p = work.o
                \/ pc \in {"collect", "silent"} /\ p = tx
                \/ obj[p].session \in closed
      BY DEF JournalInv, InSync
    <3>2. obj'[p] = obj[p] /\ file'[obj[p].txNr] = file[obj[p].txNr]
      BY <2>1, <2>2, <2>5
    <3> QED
      BY <1>2, <2>5, <3>1, <3>2
  <2> QED
    BY <2>4, <2>5
<1> QED
  BY <1>1, <1>2

\* The requests that are left keep their objects, and a session that goes on still does.
LEMMA AttachedKept ==
    ASSUME TypeInv, TypeInv', JournalInv, Removal(queue', queue), UNCHANGED <<tx, opLog>>,
           pc # "stop1", \A o \in Live' : Grown(obj[o], obj'[o])
    PROVE  Attached'
<1>1. queue \in Seq(Request)
  BY DEF TypeInv, TypeOK
<1>2. Kin(queue', queue)
  BY <1>1, RemovalParts
<1>3. \A i \in DOMAIN queue' : queue'[i].o # 0 => queue'[i].o \in Live'
  <2>1. \A i \in DOMAIN queue' : queue'[i] \in Request
    BY DEF TypeInv, TypeOK
  <2> QED
    BY <2>1 DEF Live, Alive, Request
<1>4. ASSUME NEW i \in DOMAIN queue'
      PROVE  /\ queue'[i].o # 0 => /\ obj'[queue'[i].o].session = queue'[i].session
                                   /\ obj'[queue'[i].o].txNr = queue'[i].txNr
             /\ queue'[i].kind = "auth" => Followed(queue, i)' \/ Awaited(queue[i])'
  <2>1. PICK j \in DOMAIN queue :
            queue'[i] = queue[j] /\ (Followed(queue, j) => Followed(queue', i))
    BY <1>2 DEF Kin
  <2>2. Followed(queue, j) => Followed(queue, i)'
    BY <2>1 DEF Followed
  <2>3. Awaited(queue[j]) => Awaited(queue[i])'
    BY <2>1 DEF Awaited, Logged
  <2>4. queue'[i].o # 0 => /\ obj'[queue'[i].o].session = queue'[i].session
                           /\ obj'[queue'[i].o].txNr = queue'[i].txNr
    BY <1>3, <2>1 DEF JournalInv, Attached, Grown
  <2> QED
    BY <2>1, <2>2, <2>3, <2>4 DEF JournalInv, Attached
<1> QED
  BY <1>4 DEF Attached

\* Nor does anything change for the requests if the objects and messages are the same.
LEMMA AttachedSame ==
    ASSUME JournalInv, UNCHANGED <<queue, obj, tx, opLog>>, pc # "stop1"
    PROVE  Attached'
<1>1. ASSUME NEW i \in DOMAIN queue
      PROVE  /\ Followed(queue, i) => Followed(queue, i)'
             /\ Awaited(queue[i]) => Awaited(queue[i])'
  BY DEF Followed, Awaited, Logged
<1> QED
  BY <1>1 DEF JournalInv, Attached

\* Without a transaction of the connector, every Authorize request is followed.
LEMMA AllFollowed ==
    ASSUME TypeInv, JournalInv, tx = 0, pc # "stop1",
           NEW i \in DOMAIN queue, queue[i].kind = "auth"
    PROVE  Followed(queue, i)
BY DEF TypeInv, HasObject, JournalInv, Attached, Awaited

\* What a handler has found of its transaction, if there is no handler.
LEMMA WhereIdle ==
    ASSUME pc' \in {"idle", "pop", "fetch"}, work'.o = 0,
           tx' # 0 => Turn(obj'[tx'].txNr) + 1 = Turn(txEnd')
    PROVE  Where'
BY DEF Where

\* A step that writes no message and keeps the bounds of the journal and the connector's
\* transaction, and changes and commits one transaction at most.
LEMMA StepJournal ==
    ASSUME TypeInv, TypeInv', ReportInv, JournalInv,
           UNCHANGED <<txBegin, txEnd, tx, opLog>>,
           closed \subseteq closed', \A s \in closed' : Logged("stop", s),
           Removal(queue', queue), work'.o \in {0, work.o, tx},
           Bounds', Where', pc # "stop1",
           Resting' => Resting \/ \A u \in Versions' : u.stopReq,
           \/ /\ UNCHANGED <<file, obj>>
              /\ pc = "created" => pc' = "created" /\ work'.o = work.o
              /\ pc \in {"collect", "silent"} => pc' = pc
           \/ \E o \in Live, t \in Tx :
                  /\ Update(o, t) /\ Grown(obj[o], t) /\ Flagged(t)'
                  /\ pc = "created" => o = work.o
                  /\ pc \notin {"collect", "silent"}
    PROVE  JournalInv'
<1> USE References
<1>1. Part(queue', queue)
  BY RemovalParts DEF TypeInv, TypeOK
<1>2. Live' \subseteq Live
  <2>1. tx' \in Live \cup {0} /\ work'.o \in Live \cup {0}
    OBVIOUS
  <2>2. \A i \in DOMAIN queue' : queue'[i].o \in Live \cup {0}
    BY <1>1
  <2> QED
    BY <2>1, <2>2, LiveKept
<1>3. \A x \in Ops' : \E y \in Ops : x.kind = y.kind /\ x.session = y.session /\ x.txNr = y.txNr
  BY <1>1 DEF Ops, Part
<1>4. Kept /\ InSync'
  BY <1>2, DataKept, SyncKept
<1>5. /\ FilesKept
      /\ \A u \in Versions' :
             \/ u \in Versions
             \/ Flagged(u)' /\ \E t \in Versions : u.session = t.session /\ u.txNr = t.txNr
      /\ \A u \in Versions' : \E t \in Versions : t.stopReq => u.stopReq
  <2>1. CASE UNCHANGED <<file, obj>>
    BY <1>2, <2>1 DEF FilesKept, Versions
  <2>2. ASSUME NEW o \in Live, NEW t \in Tx, Update(o, t), Grown(obj[o], t), Flagged(t)'
        PROVE  /\ FilesKept
               /\ \A u \in Versions' :
                     \/ u \in Versions
                     \/ Flagged(u)' /\ \E v \in Versions : u.session = v.session /\ u.txNr = v.txNr
               /\ \A u \in Versions' : \E v \in Versions : v.stopReq => u.stopReq
    <3>1. FilesKept /\ \A u \in Versions' : u \in Versions \/ u = t
      BY <1>2, <2>2, UpdateKeeps
    <3>2. obj[o] \in Versions
      BY DEF Versions
    <3> QED
      BY <2>2, <3>1, <3>2 DEF Grown
  <2> QED
    BY <2>1, <2>2
<1>6. NoneOpen'
  BY <1>5 DEF NoneOpen, JournalInv
<1>7. Attached'
  BY <1>4, AttachedKept DEF Kept
<1> QED
  BY <1>3, <1>4, <1>5, <1>6, <1>7, FlashKept DEF JournalInv

-----------------------------------------------------------------------------
(* Every action preserves the invariant of the journal *)

\* What the store finds is a version of the transaction with that number.
LEMMA LookVersion ==
    ASSUME TypeInv, OwnFile, NEW n \in TxNr, Exists(n)
    PROVE  Look(n) \in Versions /\ Look(n) \in Carriers /\ Look(n).txNr = n
<1>1. CASE Cached(n) # 0
  BY <1>1, CachedFinds DEF Look, Versions, Carriers
<1>2. CASE Cached(n) = 0
  BY <1>2 DEF Look, Exists, Versions, Carriers, OwnFile
<1> QED
  BY <1>1, <1>2

\* An object that neither the connector nor a handler works on is that of an op file.
LEMMA ObjectOfOp ==
    ASSUME TypeInv, JournalInv, NEW o \in Live, o # tx, o # work.o
    PROVE  \E r \in Ops : r.session = obj[o].session /\ r.txNr = obj[o].txNr
<1>1. PICK i \in DOMAIN queue : queue[i].o = o /\ o # 0
  BY DEF Live, Alive
<1>2. obj[o].session = queue[i].session /\ obj[o].txNr = queue[i].txNr
  BY <1>1 DEF JournalInv, Attached
<1>3. CASE queue[i].kind # "auth"
  BY <1>2, <1>3 DEF Ops, InFlash
<1>4. CASE queue[i].kind = "auth"
  <2>1. PICK j \in DOMAIN queue : queue[j].kind = "stop" /\ queue[j].session = queue[i].session
    BY <1>1, <1>4 DEF JournalInv, Attached, Awaited, Followed
  <2>2. queue[j] \in Ops
    BY <2>1 DEF Ops, InFlash
  <2>3. obj[o] \in Carriers /\ queue[j] \in Carriers
    BY <2>2 DEF Carriers, Versions
  <2> QED
    BY <1>2, <2>1, <2>2, <2>3, SameNumber DEF JournalInv
<1> QED
  BY <1>3, <1>4

\* Without a transaction of the connector all have stopped, so that the end of the journal is
\* free only if it is missing, and its beginning only if it is missing or answered.
LEMMA RestingFree ==
    ASSUME TypeInv, ReportInv, JournalInv, Allocating, NEW n \in TxNr
    PROVE  /\ tx = 0 /\ work.o = 0
           /\ Trimmable(n) => ~Exists(n) /\ file[n] = NoTx
           /\ Evictable(n) => ~Exists(n) \/ Look(n).stopConf
<1>1. tx = 0 /\ work.o = 0
  BY DEF JournalInv, Where, Allocating, Places
<1>2. ASSUME Exists(n)
      PROVE  ~Look(n).silent /\ ~IsAborted(Look(n))
  <2>1. Look(n) \in Versions
    BY <1>2, LookVersion DEF ReportInv
  <2>2. Look(n).stopReq /\ Flagged(Look(n))
    BY <1>1, <2>1 DEF JournalInv, NoneOpen, Resting
  <2> QED
    BY <2>2 DEF Flagged, IsAborted
<1>3. ~Exists(n) => file[n] = NoTx
  BY DEF Exists
<1> QED
  BY <1>1, <1>2, <1>3 DEF Trimmable, Evictable, IsCompleted

\* The end of the journal, if it is not empty.
LEMMA EndOfJournal ==
    ASSUME TypeInv, ReportInv, JournalInv
    PROVE  /\ txBegin \in TxNr /\ txEnd \in TxNr /\ PrevNr(txEnd) \in TxNr
           /\ Turn(txBegin) \in Nat /\ Turn(txEnd) \in Nat /\ Turn(PrevNr(txEnd)) \in Nat
           /\ Size = Turn(txEnd) - Turn(txBegin)
           /\ Turn(txEnd) # 0 => Turn(PrevNr(txEnd)) + 1 = Turn(txEnd)
           /\ \A n \in TxNr : Turn(n) + 1 = Turn(txEnd) => n = PrevNr(txEnd)
<1>1. txBegin \in TxNr /\ txEnd \in TxNr /\ PrevNr(txEnd) \in TxNr
  BY NeighbourType DEF TypeInv, TypeOK
<1>2. \A n \in TxNr : Turn(n) \in Nat
  BY Turns DEF TxNr
<1>3. Turn(txEnd) # 0 => Turn(PrevNr(txEnd)) + 1 = Turn(txEnd)
  BY <1>1, <1>2, Turns
<1>4. ASSUME NEW n \in TxNr, Turn(n) + 1 = Turn(txEnd) PROVE n = PrevNr(txEnd)
  <2>1. Turn(n) = Turn(PrevNr(txEnd))
    BY <1>1, <1>2, <1>3, <1>4
  <2> QED
    BY <1>1, <2>1, Turns
<1>5. Size = Turn(txEnd) - Turn(txBegin)
  BY <1>1, JournalTurns DEF JournalInv, Bounds
<1> QED
  BY <1>1, <1>2, <1>3, <1>4, <1>5

\* The last transaction of the journal is in flash if it exists: its session has a message that
\* backs it, or it would be in no object.
LEMMA LastThere ==
    ASSUME TypeInv, ReportInv, JournalInv, Allocating,
           NEW n \in TxNr, Turn(n) + 1 = Turn(txEnd), Exists(n)
    PROVE  file[n] # NoTx
<1>1. CASE Cached(n) = 0
  BY <1>1 DEF Exists
<1>2. CASE Cached(n) # 0
  <2> DEFINE o == Cached(n)
  <2>1. o \in Live /\ obj[o].txNr = n /\ tx = 0 /\ work.o = 0
    BY <1>2, CachedFinds, RestingFree
  <2> HIDE DEF o
  <2>2. o # 0
    BY <2>1 DEF Live, Alive
  <2>3. PICK r \in Ops : r.session = obj[o].session /\ r.txNr = n
    BY <2>1, <2>2, ObjectOfOp
  <2>4. PICK m \in TxNr : /\ Turn(n) <= Turn(m) /\ Turn(m) < Turn(txEnd)
                         /\ Logged("start", file[m].session)
    BY <2>3 DEF JournalInv, Backed
  <2>5. m = n
    <3>1. Turn(m) + 1 = Turn(txEnd)
      BY <2>4, EndOfJournal, Turns DEF TxNr
    <3> QED
      BY <3>1, EndOfJournal
  <2> QED
    BY <2>4, <2>5, AbsentUnlogged DEF JournalInv, Unlogged
<1> QED
  BY <1>1, <1>2

\* beginTransaction starts, and the end of the journal is cleaned.
LEMMA AllocateJournal ==
    ASSUME TypeInv, TypeInv', ReportInv, JournalInv,
           (\E how \in How : Begin(how)) \/ Trim \/ TrimEnd \/ Refuse
    PROVE  JournalInv'
<1>0. /\ closed \subseteq closed /\ \A s \in closed : Logged("stop", s)
      /\ Removal(queue, queue)
  BY DEF JournalInv, LogOrder, Removal
<1>1. sessions \in Nat /\ MaxSessions \in Nat
  BY TxAssumption DEF TypeInv, TypeOK
<1>2. ASSUME NEW how \in How, Begin(how) PROVE JournalInv'
  <2>1. /\ pc = "idle" /\ tx = 0 /\ pc' = "trim" /\ work'.o = 0 /\ sessions' = sessions + 1
        /\ sessions < MaxSessions
        /\ UNCHANGED <<txBegin, txEnd, file, obj, queue, tx, opLog, closed>>
    BY <1>2 DEF Begin, NoWork, flash, heap, history
  <2>2. Bounds'
    <3>1. Turn(txEnd) <= sessions + 1 /\ Turn(txBegin) <= Turn(txEnd) /\ Turn(txEnd) \in Nat
      BY EndOfJournal DEF JournalInv, Bounds
    <3> QED
      BY <1>1, <2>1, <3>1 DEF Bounds
  <2>3. Where' /\ (Resting' => Resting)
    BY <2>1 DEF Where, Resting
  <2> QED
    BY <1>0, <2>1, <2>2, <2>3, StepJournal
<1>3. ASSUME Allocating, UNCHANGED <<txBegin, txEnd, file, obj, queue, tx, sessions, opLog, closed>>,
             work'.o = 0, Where'
      PROVE  JournalInv'
  <2>1. Bounds'
    BY <1>3 DEF JournalInv, Bounds
  <2>2. Resting' => Resting
    BY <1>3 DEF Resting
  <2>3. pc \notin {"created", "collect", "silent", "stop1"}
    BY <1>3 DEF Allocating
  <2> QED
    BY <1>0, <1>3, <2>1, <2>2, <2>3, StepJournal
<1>4. CASE Trim
  <2> DEFINE n == PrevNr(txEnd)
  <2>1. /\ pc = "trim" /\ pc' = "trimmed" /\ Size > 0 /\ Trimmable(n) /\ Delete(n)
        /\ UNCHANGED <<txBegin, txEnd, queue, tx, obj, work, sessions, opLog, closed>>
    BY <1>4 DEF Trim, heap, history
  <2>2. Allocating
    BY <2>1 DEF Allocating
  <2>3. n \in TxNr /\ file[n] = NoTx /\ tx = 0 /\ work.o = 0 /\ file \in [TxNr -> Tx]
    BY <2>1, <2>2, EndOfJournal, RestingFree DEF TypeInv, TypeOK
  <2>4. file' = file
    BY <2>1, <2>3 DEF Delete
  <2>5. Turn(txBegin) < Turn(txEnd)
    BY <2>1, EndOfJournal
  <2>6. Where'
    BY <2>1, <2>3, <2>4, <2>5 DEF Where
  <2> QED
    BY <1>3, <2>1, <2>2, <2>3, <2>4, <2>6
<1>5. CASE TrimEnd
  <2> DEFINE n == PrevNr(txEnd)
  <2>1. /\ pc = "trim" /\ pc' = "alloc" /\ (Size = 0 \/ ~Trimmable(n))
        /\ UNCHANGED <<txBegin, txEnd, file, queue, tx, obj, work, sessions, opLog, closed>>
    BY <1>5 DEF TrimEnd, flash, heap, history
  <2>2. Allocating
    BY <1>5 DEF TrimEnd, Allocating
  <2>3. n \in TxNr /\ tx = 0 /\ work.o = 0
    BY <2>2, EndOfJournal, RestingFree
  <2>4. Turn(txBegin) < Turn(txEnd) => file[n] # NoTx
    <3> SUFFICES ASSUME Turn(txBegin) < Turn(txEnd) PROVE file[n] # NoTx
      OBVIOUS
    <3>1. Turn(n) + 1 = Turn(txEnd) /\ Size # 0
      BY EndOfJournal
    <3>2. Exists(n)
      BY <2>1, <3>1 DEF Trimmable
    <3> QED
      BY <2>2, <2>3, <3>1, <3>2, LastThere
  <2>5. Where'
    BY <2>1, <2>3, <2>4 DEF Where
  <2> QED
    BY <1>3, <2>1, <2>2, <2>3, <2>5
<1>6. CASE Refuse
  <2>1. /\ pc = "alloc" /\ pc' = "idle" /\ work'.o = 0
        /\ UNCHANGED <<txBegin, txEnd, file, queue, tx, obj, sessions, opLog, closed>>
    BY <1>6 DEF Refuse, NoWork, flash, heap, history
  <2>2. Allocating
    BY <2>1 DEF Allocating
  <2>3. tx = 0
    BY <2>2, NeighbourType, RestingFree DEF TypeInv, TypeOK
  <2>4. Where'
    BY <2>1, <2>3, WhereIdle
  <2> QED
    BY <1>3, <2>1, <2>2, <2>4
<1> QED
  BY <1>2, <1>4, <1>5, <1>6

\* A transaction that is changed in other flags only tells of the same messages.
LEMMA FlaggedSame ==
    ASSUME TypeInv, JournalInv, NEW v \in Versions, NEW t \in Tx,
           t.txNr = v.txNr, t.session = v.session, t.startReq = v.startReq,
           t.stopReq = v.stopReq, t.stopConf = v.stopConf, t.silent = v.silent,
           UNCHANGED <<txEnd, opLog>>, closed \subseteq closed'
    PROVE  Flagged(t)'
<1>1. Flagged(v) /\ \A k, s : Logged(k, s)' = Logged(k, s)
  BY DEF JournalInv, Logged
<1> QED
  BY <1>1 DEF Flagged

\* The steps after which no handler is running.
LEMMA IdleJournal ==
    ASSUME TypeInv, TypeInv', ReportInv, JournalInv,
           UNCHANGED <<txBegin, txEnd, tx, sessions, opLog>>,
           closed \subseteq closed', \A s \in closed' : Logged("stop", s),
           Removal(queue', queue), work'.o = 0,
           pc \notin {"created", "collect", "silent", "stop1"}, pc' \in {"idle", "pop", "fetch"},
           Resting' => Resting \/ \A u \in Versions' : u.stopReq,
           \/ UNCHANGED <<file, obj>>
           \/ \E o \in Live, t \in Tx : Update(o, t) /\ Grown(obj[o], t) /\ Flagged(t)'
    PROVE  JournalInv'
<1> USE References
<1>1. Bounds'
  BY DEF JournalInv, Bounds, Allocating
<1>2. tx # 0 => obj'[tx].txNr = obj[tx].txNr
  <2>1. ASSUME NEW o \in Live, NEW t \in Tx, Update(o, t), Grown(obj[o], t), tx # 0
        PROVE  obj'[tx].txNr = obj[tx].txNr
    <3>1. tx \in ObjId /\ o \in ObjId /\ obj \in [ObjId -> Tx]
      BY <2>1, LiveType DEF TypeInv, TypeOK
    <3> QED
      BY <2>1, <3>1 DEF Update, Grown
  <2> QED
    BY <2>1
<1>3. Where'
  <2>1. tx # 0 => Turn(obj[tx].txNr) + 1 = Turn(txEnd)
    BY DEF JournalInv, Where
  <2> QED
    BY <1>2, <2>1, WhereIdle
<1> QED
  BY <1>1, <1>3, StepJournal

\* The end of a transaction, also of one that waits for its authorization.
LEMMA EndJournal ==
    ASSUME TypeInv, TypeInv', ReportInv, JournalInv, End
    PROVE  JournalInv'
<1>0. PICK t : t = [obj[tx] EXCEPT !.active = FALSE]
  OBVIOUS
<1>1. tx # 0 /\ pc = "idle" /\ Deactivate
  BY DEF End, EndTransaction, EvDisconnects, ConnectionTimeout, DeAuthorize, Looping
<1>2. tx \in Live /\ obj[tx] \in Tx /\ obj[tx] \in Versions
  BY <1>1, LiveType DEF TypeInv, TypeOK, Versions
<1>3. /\ t \in Tx /\ Grown(obj[tx], t)
      /\ t.txNr = obj[tx].txNr /\ t.session = obj[tx].session /\ t.startReq = obj[tx].startReq
      /\ t.stopReq = obj[tx].stopReq /\ t.stopConf = obj[tx].stopConf
      /\ t.silent = obj[tx].silent
  BY <1>0, <1>2 DEF Tx, Grown
<1>4. Update(tx, t) /\ UNCHANGED <<txBegin, txEnd, queue, tx, pc, work, sessions, opLog, closed>>
  BY <1>0, <1>1 DEF Deactivate, ctl, history
<1>5. work.o = 0
  BY <1>1 DEF JournalInv, Where, Places
<1>6. /\ closed \subseteq closed' /\ \A s \in closed' : Logged("stop", s)
      /\ Removal(queue', queue) /\ ~Resting'
  BY <1>1, <1>4 DEF JournalInv, LogOrder, Removal, Resting
<1>7. Flagged(t)'
  BY <1>2, <1>3, <1>4, FlaggedSame
<1> QED
  BY <1>1, <1>2, <1>3, <1>4, <1>5, <1>6, <1>7, IdleJournal

\* The server's accepting the boot, and the answers and timeouts of requests.
LEMMA AuthorizeJournal ==
    ASSUME TypeInv, TypeInv', ReportInv, JournalInv, Authorize \/ Register
    PROVE  JournalInv'
<1>0. TypeOK
  BY DEF TypeInv
<1>1. /\ closed \subseteq closed /\ \A s \in closed : Logged("stop", s)
      /\ pc = "idle" => work.o = 0
  BY DEF JournalInv, LogOrder, Where, Places
<1>2. ASSUME NEW i \in DOMAIN queue, NEW result \in AuthResults, pc = "idle", AuthCallback(i, result)
      PROVE  JournalInv'
  <2>0. PICK o, t : o = queue[i].o /\ t = Decide(obj[o], result)
    OBVIOUS
  <2>1. o \in Live /\ o \in ObjId /\ obj[o] \in Tx /\ obj[o] \in Versions
    BY <1>0, <1>2, <2>0, LiveType DEF AuthCallback, TypeInv, HasObject, TypeOK, Versions
  <2>2. /\ t \in Tx /\ Grown(obj[o], t)
        /\ t.txNr = obj[o].txNr /\ t.session = obj[o].session /\ t.startReq = obj[o].startReq
        /\ t.stopReq = obj[o].stopReq /\ t.stopConf = obj[o].stopConf
        /\ t.silent = obj[o].silent
    <3>1. /\ (obj[o].authorized \/ result = "authorized") \in BOOLEAN
          /\ (obj[o].deauthorized \/ result = "deauthorized") \in BOOLEAN
          /\ (obj[o].active /\ result # "inactive") \in BOOLEAN
      OBVIOUS
    <3>2. t \in Tx
      BY <2>0, <2>1, <3>1, ChangeType DEF Decide
    <3> QED
      BY <2>0, <2>1, <3>2 DEF Decide, Tx, Grown
  <2>3. /\ Update(o, t) /\ queue' = RemoveAt(queue, i) /\ queue[i].kind = "auth"
        /\ UNCHANGED <<txBegin, txEnd, tx, pc, work, sessions, opLog, closed>>
    BY <1>2, <2>0 DEF AuthCallback, ctl, history
  <2>4. Flagged(t)'
    BY <2>1, <2>2, <2>3, FlaggedSame
  <2>5. Removal(queue', queue) /\ (Resting' => Resting)
    BY <1>2, <2>3 DEF Removal, Resting, Allocating
  <2> QED
    BY <1>1, <1>2, <2>1, <2>2, <2>3, <2>4, <2>5, IdleJournal
<1>3. ASSUME NEW i \in DOMAIN queue, NEW result \in AuthResults, AuthTimeout(i, result)
      PROVE  JournalInv'
  BY <1>2, <1>3 DEF AuthTimeout
<1>4. ASSUME NEW result \in AuthResults, AuthAnswer(result) PROVE JournalInv'
  <2>1. 1 \in DOMAIN queue
    BY <1>0, <1>4 DEF AuthAnswer, Served, TypeOK
  <2> QED
    BY <1>2, <1>4, <2>1 DEF AuthAnswer, Served
<1>5. ASSUME pc = "idle", Removal(queue', queue),
             UNCHANGED <<txBegin, txEnd, file, obj, tx, pc, work, sessions, opLog, closed>>
      PROVE  JournalInv'
  <2>1. Resting' => Resting
    BY <1>5 DEF Resting, Allocating
  <2> QED
    BY <1>1, <1>5, <2>1, IdleJournal
<1>6. CASE AuthError
  <2>1. Removal(queue', queue)
    BY <1>0, <1>6, RemovalParts DEF AuthError, Served, TypeOK, Removal
  <2> QED
    BY <1>5, <1>6, <2>1 DEF AuthError, Served, flash, heap, ctl, history
<1>7. CASE Register
  <2>1. Removal(queue', queue)
    BY <1>7 DEF Register, Removal
  <2> QED
    BY <1>5, <1>7, <2>1 DEF Register, flash, heap, ctl, history
<1> QED
  BY <1>3, <1>4, <1>6, <1>7 DEF Authorize

LEMMA AnswerJournal ==
    ASSUME TypeInv, TypeInv', ReportInv, JournalInv, Answer
    PROVE  JournalInv'
<1>0. TypeOK
  BY DEF TypeInv
<1>1. /\ closed \subseteq closed /\ \A s \in closed : Logged("stop", s)
      /\ pc \in {"idle", "pop"} => work.o = 0
      /\ Removal(queue, queue)
  BY DEF JournalInv, LogOrder, Where, Places, Removal
<1>2. ASSUME NEW kind \in {"start", "stop"}, Served(kind)
      PROVE  /\ Head(queue).o \in Live /\ Head(queue).o \in ObjId
             /\ obj[Head(queue).o] \in Tx /\ obj[Head(queue).o] \in Versions
             /\ obj[Head(queue).o].session = Head(queue).session
             /\ Logged(kind, Head(queue).session)
             /\ pc = "idle"
  <2>1. Head(queue) = queue[1] /\ 1 \in DOMAIN queue /\ Head(queue).o # 0 /\ queue[1].kind = kind
    BY <1>0, <1>2 DEF Served, TypeOK
  <2>2. Head(queue).o \in Live /\ Head(queue).o \in ObjId
    BY <1>0, <2>1, LiveType
  <2>3. obj[Head(queue).o].session = Head(queue).session
    BY <2>1 DEF JournalInv, Attached
  <2>4. queue[1] \in Ops
    BY <2>1 DEF Ops, InFlash
  <2> QED
    BY <1>0, <1>2, <2>1, <2>2, <2>3, <2>4 DEF Served, TypeOK, Versions, JournalInv, Backed
<1>3. ASSUME NEW t \in Tx, NEW kind \in {"start", "stop"}, Served(kind),
             NEW next \in {"idle", "pop"}, Confirm(t, next),
             closed \subseteq closed', \A s \in closed' : Logged("stop", s),
             Grown(obj[Head(queue).o], t), t.active = obj[Head(queue).o].active, Flagged(t)'
      PROVE  JournalInv'
  <2>1. PICK o : o = Head(queue).o
    OBVIOUS
  <2>2. /\ Update(o, t) /\ pc' = next /\ pc = "idle" /\ o \in Live /\ o \in ObjId
        /\ UNCHANGED <<txBegin, txEnd, queue, tx, work, sessions, opLog>>
    BY <1>2, <1>3, <2>1 DEF Confirm
  <2>3. Resting' => Resting
    BY <2>2 DEF Resting, Allocating
  <2> QED
    BY <1>1, <1>3, <2>1, <2>2, <2>3, IdleJournal
<1>4. ASSUME NEW accepted \in BOOLEAN, StartConf(accepted) PROVE JournalInv'
  <2>1. PICK o, t : /\ o = Head(queue).o
                    /\ t = [obj[o] EXCEPT !.start = IF @ = BootNr THEN 0 ELSE @,
                                          !.startConf = TRUE, !.deauthorized = @ \/ ~accepted]
    OBVIOUS
  <2>2. Served("start") /\ Confirm(t, "pop") /\ UNCHANGED <<txEnd, opLog, closed>>
    BY <1>4, <2>1 DEF StartConf, Confirm
  <2>3. obj[o] \in Tx /\ obj[o] \in Versions
    BY <1>2, <2>1, <2>2
  <2>4. /\ t \in Tx /\ Grown(obj[o], t) /\ t.active = obj[o].active
        /\ t.txNr = obj[o].txNr /\ t.session = obj[o].session /\ t.startReq = obj[o].startReq
        /\ t.stopReq = obj[o].stopReq /\ t.stopConf = obj[o].stopConf
        /\ t.silent = obj[o].silent
    <3>1. (obj[o].deauthorized \/ ~accepted) \in BOOLEAN
      OBVIOUS
    <3>2. (IF obj[o].start = BootNr THEN 0 ELSE obj[o].start) \in Nat \cup {-1}
      BY <2>3 DEF Tx
    <3>3. t \in Tx
      BY <2>1, <2>3, <3>1, <3>2, ChangeType
    <3>4. /\ t.active = obj[o].active /\ t.silent = obj[o].silent
          /\ t.txNr = obj[o].txNr /\ t.session = obj[o].session /\ t.startReq = obj[o].startReq
          /\ t.stopReq = obj[o].stopReq /\ t.stopConf = obj[o].stopConf
      BY <2>1, <2>3 DEF Tx
    <3> QED
      BY <3>3, <3>4 DEF Grown
  <2>5. Flagged(t)'
    BY <2>2, <2>3, <2>4, FlaggedSame
  <2> QED
    BY <1>1, <1>3, <2>1, <2>2, <2>4, <2>5
<1>5. ASSUME NEW error \in BOOLEAN, StopConf(error) PROVE JournalInv'
  <2>1. PICK o, t, next : /\ o = Head(queue).o
                          /\ t = [obj[o] EXCEPT !.stopConf = TRUE]
                          /\ next = IF error THEN "idle" ELSE "pop"
    OBVIOUS
  <2>2. /\ Served("stop") /\ Confirm(t, next) /\ UNCHANGED <<txEnd, opLog>>
        /\ closed' = closed \cup {Head(queue).session} /\ next \in {"idle", "pop"}
    BY <1>5, <2>1 DEF StopConf, Confirm
  <2>3. /\ obj[o] \in Tx /\ obj[o] \in Versions /\ pc = "idle"
        /\ obj[o].session = Head(queue).session /\ Logged("stop", obj[o].session)
    BY <1>2, <2>1, <2>2
  <2>4. /\ t \in Tx /\ Grown(obj[o], t) /\ t.active = obj[o].active
        /\ t.txNr = obj[o].txNr /\ t.session = obj[o].session /\ t.startReq = obj[o].startReq
        /\ t.stopReq = obj[o].stopReq /\ t.silent = obj[o].silent
    BY <2>1, <2>3 DEF Tx, Grown
  <2>5. obj[o].stopReq
    BY <2>3 DEF ReportInv, Noted
  <2>6. Flagged(t)'
    <3>1. Flagged(obj[o]) /\ \A k, s : Logged(k, s)' = Logged(k, s)
      BY <2>2, <2>3 DEF JournalInv, Logged
    <3> QED
      BY <2>2, <2>3, <2>4, <2>5, <3>1 DEF Flagged
  <2>7. closed \subseteq closed' /\ \A s \in closed' : Logged("stop", s)
    BY <1>1, <2>2, <2>3
  <2> QED
    BY <1>3, <2>1, <2>2, <2>4, <2>6, <2>7
<1>6. CASE StartError
  <2>1. /\ pc = "idle" /\ pc' = "pop"
        /\ UNCHANGED <<txBegin, txEnd, file, obj, queue, tx, work, sessions, opLog, closed>>
    BY <1>6 DEF StartError, Served, flash, heap, history
  <2>2. Resting' => Resting
    BY <2>1 DEF Resting, Allocating
  <2> QED
    BY <1>1, <2>1, <2>2, IdleJournal
<1>7. CASE Pop
  <2>1. /\ pc = "pop" /\ pc' \in {"fetch", "idle"} /\ queue' = Tail(queue) /\ queue # <<>>
        /\ UNCHANGED <<txBegin, txEnd, file, obj, tx, work, sessions, opLog, closed>>
    BY <1>7 DEF Pop, flash, heap, history, TypeInv, HasObject
  <2>2. Removal(queue', queue)
    BY <1>0, <2>1, RemovalParts DEF TypeOK, Removal
  <2>3. Resting' => Resting
    BY <2>1 DEF Resting, Allocating
  <2> QED
    BY <1>1, <2>1, <2>2, <2>3, IdleJournal
<1> QED
  BY <1>4, <1>5, <1>6, <1>7 DEF Answer

\* Request::initiate wrote the message: what is known of the session notes it.
LEMMA InitiateTxJournal ==
    ASSUME TypeInv, TypeInv', ReportInv, ReportInv', JournalInv, NEW t \in Tx, InitiateTx(t),
           \/ pc = "start2" /\ t = [obj[work.o] EXCEPT !.startReq = TRUE]
           \/ pc = "stop2" /\ t = [obj[work.o] EXCEPT !.stopReq = TRUE]
    PROVE  JournalInv'
<1>0. TypeOK
  BY DEF TypeInv
<1>1. PICK o : o = work.o
  OBVIOUS
<1>2. /\ o \in Live /\ o \in ObjId /\ obj[o] \in Tx /\ obj[o] \in Versions
      /\ obj[o] \in Carriers
  BY <1>0, <1>1, LiveType DEF TypeInv, HasObject, TypeOK, Versions, Carriers
<1>3. /\ Update(o, t) /\ pc' = "idle" /\ work'.o = 0
      /\ UNCHANGED <<txBegin, txEnd, queue, tx, sessions, opLog, closed>>
  BY <1>1 DEF InitiateTx, history, NoWork
<1>4. /\ Turn(obj[o].txNr) + 1 = Turn(txEnd) /\ ~obj[o].silent
      /\ pc = "start2" => o = tx /\ Logged("start", obj[o].session)
      /\ pc = "stop2" => obj[o].startReq /\ tx = 0 /\ Logged("stop", obj[o].session)
  BY <1>1 DEF JournalInv, Where, Places
<1>5. /\ Grown(obj[o], t) /\ t.txNr = obj[o].txNr /\ t.session = obj[o].session
      /\ t.active = obj[o].active /\ t.silent = obj[o].silent /\ t.stopConf = obj[o].stopConf
      /\ pc = "start2" => t.startReq /\ t.stopReq = obj[o].stopReq
      /\ pc = "stop2" => t.stopReq /\ t.startReq = obj[o].startReq
  <2>1. CASE pc = "start2"
    BY <1>1, <1>2, <2>1 DEF Tx, Grown
  <2>2. CASE pc = "stop2"
    <3>1. ~obj[o].active
      BY <1>1, <2>2 DEF ReportInv, Handled
    <3> QED
      BY <1>1, <1>2, <2>2, <3>1 DEF Tx, Grown
  <2> QED
    BY <2>1, <2>2
<1>6. Flagged(t)'
  <2>1. Flagged(obj[o]) /\ \A k, s : Logged(k, s)' = Logged(k, s)
    BY <1>2, <1>3 DEF JournalInv, Logged
  <2>2. CASE pc = "start2"
    BY <1>3, <1>4, <1>5, <2>1, <2>2 DEF Flagged
  <2>3. CASE pc = "stop2"
    BY <1>3, <1>4, <1>5, <2>1, <2>3 DEF Flagged
  <2> QED
    BY <2>2, <2>3
<1>7. Resting' => \A u \in Versions' : u.stopReq
  <2> SUFFICES ASSUME Resting', NEW u \in Versions', ~u.stopReq PROVE FALSE
    OBVIOUS
  <2>1. pc = "stop2"
    <3>1. o # 0
      BY <1>2 DEF Live, Alive
    <3> QED
      BY <1>3, <1>4, <3>1 DEF Resting
  <2>2. u \in Versions
    <3>1. Live' \subseteq Live
      BY <1>3, References, LiveKept
    <3> QED
      BY <1>2, <1>3, <1>5, <2>1, <3>1, UpdateKeeps
  <2>3. u.txNr \in TxNr /\ obj[o].txNr \in TxNr /\ u \in Carriers
    BY <1>2, <2>2, CarrierType DEF Carriers
  <2>4. u.txNr = obj[o].txNr
    <3>1. Turn(u.txNr) + 1 = Turn(txEnd)
      BY <2>2 DEF JournalInv, Flagged
    <3> QED
      BY <1>4, <2>3, <3>1, EndOfJournal
  <2>5. u.session = obj[o].session
    BY <1>2, <2>3, <2>4, SameNumber DEF JournalInv
  <2>6. Logged("stop", u.session)'
    BY <1>3, <1>4, <2>1, <2>5 DEF Logged
  <2> QED
    BY <1>3, <2>6 DEF ReportInv, Noted
<1>8. /\ closed \subseteq closed' /\ \A s \in closed' : Logged("stop", s)
      /\ Removal(queue', queue)
  BY <1>3 DEF JournalInv, LogOrder, Removal
<1> QED
  BY <1>2, <1>3, <1>5, <1>6, <1>7, <1>8, IdleJournal

\* An object and its file are all that is known of its session.
LEMMA OneVersion ==
    ASSUME TypeInv, ReportInv, JournalInv, NEW o \in Live
    PROVE  /\ \A u \in Versions : u.session = obj[o].session => u = obj[o]
           /\ /\ ~obj[o].stopReq /\ pc \notin {"created", "collect", "silent", "stop2"}
              => file[obj[o].txNr] = obj[o]
<1>1. obj[o] \in Versions /\ obj[o] \in Carriers
  BY DEF Versions, Carriers
<1>2. ASSUME NEW u \in Versions, u.session = obj[o].session PROVE u = obj[o]
  <2>1. u.txNr = obj[o].txNr
    BY <1>1, <1>2 DEF ReportInv, OneNumber
  <2>2. CASE \E p \in Live : u = obj[p]
    BY <1>2, <2>2 DEF ReportInv, OneObject
  <2>3. CASE \E n \in TxNr : file[n] # NoTx /\ u = file[n]
    BY <2>1, <2>3 DEF ReportInv, OwnFile, JournalInv, InSync
  <2> QED
    BY <1>2, <2>2, <2>3 DEF Versions
<1>3. ASSUME ~obj[o].stopReq, pc \notin {"created", "collect", "silent", "stop2"},
             file[obj[o].txNr] # obj[o]
      PROVE  FALSE
  <2>1. obj[o].session \in closed
    BY <1>3 DEF JournalInv, InSync
  <2>2. Logged("stop", obj[o].session)
    BY <2>1 DEF JournalInv, LogOrder
  <2> QED
    BY <1>1, <1>3, <2>2 DEF ReportInv, Noted
<1> QED
  BY <1>2, <1>3

\* If the latest transaction has stopped, all have.
LEMMA LastStopped ==
    ASSUME TypeInv, ReportInv, JournalInv, pc # "stop2",
           NEW v \in Versions, v.stopReq, Turn(v.txNr) + 1 = Turn(txEnd)
    PROVE  \A u \in Versions : u.stopReq
<1> SUFFICES ASSUME NEW u \in Versions, ~u.stopReq PROVE FALSE
  OBVIOUS
<1>1. u \in Carriers /\ v \in Carriers /\ u.txNr \in TxNr /\ v.txNr \in TxNr
  BY CarrierType DEF Carriers
<1>2. Turn(u.txNr) + 1 = Turn(txEnd) /\ u.session # 0
  BY DEF JournalInv, Flagged
<1>3. u.session = v.session
  BY <1>1, <1>2, EndOfJournal, SameNumber DEF JournalInv
<1>4. Logged("stop", u.session)
  BY <1>2, <1>3 DEF JournalInv, Flagged
<1> QED
  BY <1>4 DEF ReportInv, Noted

\* The handlers that take the connector's transaction up or over; only they move an object
\* between the connector and the requests.
LEMMA TakeJournal ==
    ASSUME TypeInv, TypeInv', ReportInv, JournalInv,
           UNCHANGED <<txBegin, txEnd, sessions, opLog, closed>>,
           NEW o \in Live, NEW t \in Tx, Update(o, t), Grown(obj[o], t), Flagged(t)',
           Live' \subseteq Live,
           pc \notin {"created", "collect", "silent"}, ~Allocating',
           \A x \in Ops' : x \in Ops,
           Attached', NoneOpen', Where'
    PROVE  JournalInv'
<1>1. /\ FilesKept
      /\ \A u \in Versions' : u \in Versions \/ u = t
  BY UpdateKeeps
<1>2. \A u \in Versions' :
          \/ u \in Versions
          \/ Flagged(u)' /\ \E v \in Versions : u.session = v.session /\ u.txNr = v.txNr
  <2>1. obj[o] \in Versions
    BY DEF Versions
  <2> QED
    BY <1>1, <2>1 DEF Grown
<1>3. closed \subseteq closed' /\ \A s \in closed' : Logged("stop", s)
  BY DEF JournalInv, LogOrder
<1>4. InSync'
  BY <1>3, SyncKept
<1>5. Bounds'
  BY DEF JournalInv, Bounds
<1> QED
  BY <1>1, <1>2, <1>3, <1>4, <1>5, FlashKept DEF JournalInv

\* The file of a new transaction is written, and the transaction becomes the connector's.
LEMMA CommitJournal ==
    ASSUME TypeInv, TypeInv', ReportInv, JournalInv, CreateCommit \/ BeginCommit
    PROVE  JournalInv'
<1> USE References
<1>0. TypeOK
  BY DEF TypeInv
<1>1. PICK o : o = work.o
  OBVIOUS
<1>2. /\ o \in Live /\ o \in ObjId /\ obj[o] \in Tx /\ obj[o] \in Versions /\ o # 0
      /\ tx = 0 /\ Turn(obj[o].txNr) + 1 = Turn(txEnd) /\ obj[o].active
  <2>1. pc \in {"created", "begin"}
    BY DEF CreateCommit, BeginCommit
  <2>2. o # 0
    BY <1>1, <2>1 DEF TypeInv, HasObject
  <2> QED
    BY <1>0, <1>1, <2>1, <2>2, LiveType DEF TypeOK, Versions, JournalInv, Where, Places
<1>3. CASE CreateCommit
  <2>1. PICK t : t = obj[o]
    OBVIOUS
  <2>2. /\ pc = "created" /\ pc' = "begin" /\ obj' = obj /\ Commit(t)
        /\ UNCHANGED <<txBegin, txEnd, queue, tx, work, sessions, opLog, closed>>
    BY <1>1, <1>3, <2>1 DEF CreateCommit, heap, history
  <2>3. Update(o, t) /\ Grown(obj[o], t) /\ t \in Tx
    BY <1>0, <1>2, <2>1, <2>2 DEF Update, Grown, TypeOK
  <2>4. Flagged(t)'
    BY <1>2, <2>1, <2>2, <2>3, FlaggedSame
  <2>5. Bounds' /\ Where' /\ ~Resting'
    BY <1>1, <1>2, <2>2 DEF JournalInv, Bounds, Where, Resting, Allocating, Places
  <2>6. /\ closed \subseteq closed' /\ \A s \in closed' : Logged("stop", s)
        /\ Removal(queue', queue)
    BY <2>2 DEF JournalInv, LogOrder, Removal
  <2> QED
    BY <1>1, <1>2, <2>2, <2>3, <2>4, <2>5, <2>6, StepJournal
<1>4. CASE BeginCommit
  <2>1. PICK t : t = [obj[o] EXCEPT !.begun = registered, !.authorized = work.how # "authorize"]
    OBVIOUS
  <2>2. PICK r : r = [kind |-> "auth", o |-> o, txNr |-> t.txNr, session |-> t.session]
    OBVIOUS
  <2>3. /\ pc = "begin" /\ pc' = "idle" /\ Update(o, t) /\ tx' = o /\ work' = NoWork
        /\ queue' = queue \/ queue' = Append(queue, r)
        /\ UNCHANGED <<txBegin, txEnd, sessions, opLog, closed>>
    BY <1>1, <1>4, <2>1, <2>2 DEF BeginCommit, history
  <2>4. /\ t \in Tx /\ Grown(obj[o], t) /\ t.active = obj[o].active
        /\ t.txNr = obj[o].txNr /\ t.session = obj[o].session /\ t.startReq = obj[o].startReq
        /\ t.stopReq = obj[o].stopReq /\ t.stopConf = obj[o].stopConf
        /\ t.silent = obj[o].silent
    <3>1. registered \in BOOLEAN /\ (work.how # "authorize") \in BOOLEAN
      BY <1>0 DEF TypeOK
    <3> QED
      BY <1>2, <2>1, <3>1 DEF Tx, Grown
  <2>5. Flagged(t)'
    BY <1>2, <2>3, <2>4, FlaggedSame
  <2>6. /\ r.kind = "auth" /\ r.o = o /\ r.txNr = t.txNr /\ r.session = t.session
        /\ r \in Request
    BY <1>2, <2>2, <2>4 DEF Request, Tx
  <2>7. /\ \A i \in DOMAIN queue' : queue'[i] = r \/ \E j \in DOMAIN queue : queue'[i] = queue[j]
        /\ \A i \in DOMAIN queue' : queue'[i] = r \/ i \in DOMAIN queue
        /\ \A i \in DOMAIN queue : i \in DOMAIN queue' /\ queue'[i] = queue[i]
    <3>1. queue \in Seq(Request)
      BY <1>0 DEF TypeOK
    <3> QED
      BY <2>3, <2>6, <3>1
  <2>8. Live' \subseteq Live
    <3>1. \A i \in DOMAIN queue' : queue'[i].o \in Live \cup {0}
      BY <1>2, <2>6, <2>7
    <3> QED
      BY <1>2, <2>3, <3>1, LiveKept DEF NoWork
  <2>9. obj'[o] = t /\ \A p \in Live : obj'[p] = IF p = o THEN t ELSE obj[p]
    BY <1>2, <2>3, <2>4, <2>8, UpdateKeeps
  <2>10. Attached'
    <3>1. ASSUME NEW i \in DOMAIN queue
          PROVE  queue[i].o # 0 => /\ obj'[queue[i].o].session = queue[i].session
                                   /\ obj'[queue[i].o].txNr = queue[i].txNr
      <4>1. queue[i].o # 0 => queue[i].o \in Live
        BY LiveType
      <4> QED
        BY <2>4, <2>9, <4>1 DEF JournalInv, Attached
    <3>2. Awaited(r)'
      <4>1. t.session # 0 /\ ~Logged("stop", t.session)
        BY <1>2, <2>3, <2>4 DEF ReportInv, Stopped, Noted, JournalInv, Flagged
      <4> QED
        BY <2>3, <2>6, <4>1 DEF Awaited, Logged
    <3>3. ASSUME NEW i \in DOMAIN queue, queue[i].kind = "auth" PROVE Followed(queue, i)'
      <4>1. Followed(queue, i)
        BY <1>2, <2>3, <3>3, AllFollowed
      <4> QED
        BY <2>7, <4>1 DEF Followed
    <3>4. ASSUME NEW i \in DOMAIN queue'
          PROVE  /\ queue'[i].o # 0 => /\ obj'[queue'[i].o].session = queue'[i].session
                                       /\ obj'[queue'[i].o].txNr = queue'[i].txNr
                 /\ queue'[i].kind = "auth" => Followed(queue, i)' \/ Awaited(queue[i])'
      <4>1. CASE queue'[i] = r
        BY <1>2, <2>3, <2>4, <2>6, <2>9, <3>2, <4>1 DEF Awaited
      <4>2. CASE i \in DOMAIN queue
        BY <2>7, <3>1, <3>3, <4>2
      <4> QED
        BY <2>7, <4>1, <4>2
    <3> QED
      BY <3>4 DEF Attached
  <2>11. \A x \in Ops' : x \in Ops
    BY <2>6, <2>7 DEF Ops, InFlash
  <2>12. NoneOpen' /\ ~Allocating'
    BY <1>2, <2>3 DEF NoneOpen, Resting, Allocating
  <2>13. Where'
    BY <1>2, <2>3, <2>4, <2>9, WhereIdle DEF NoWork
  <2> QED
    BY <1>2, <2>3, <2>4, <2>5, <2>8, <2>10, <2>11, <2>12, <2>13, TakeJournal
<1> QED
  BY <1>3, <1>4

\* The connector's transaction starts, goes on without a message, or is handed over to the
\* StopTransaction.
LEMMA ChargeJournal ==
    ASSUME TypeInv, TypeInv', ReportInv, JournalInv, StartTx \/ StartSilent \/ StopTx
    PROVE  JournalInv'
<1> USE References
<1>0. TypeOK
  BY DEF TypeInv
<1>1. PICK o : o = tx
  OBVIOUS
<1>2. tx # 0 /\ pc = "idle" /\ o # 0
  BY <1>1 DEF StartTx, StartSilent, StopTx, Looping
<1>3. /\ o \in Live /\ o \in ObjId /\ obj[o] \in Tx /\ obj[o] \in Versions
      /\ Turn(obj[o].txNr) + 1 = Turn(txEnd) /\ work.o = 0 /\ work \in Work
  BY <1>0, <1>1, <1>2, LiveType DEF TypeOK, Versions, JournalInv, Where, Places
<1>4. /\ closed \subseteq closed /\ \A s \in closed : Logged("stop", s)
      /\ Removal(queue, queue)
  BY DEF JournalInv, LogOrder, Removal
<1>5. (IF obj[o].start = 0 \/ registered THEN 0 ELSE BootNr) \in Nat \cup {-1}
  BY <1>0 DEF TypeOK, BootNr
<1>6. CASE StartTx
  <2>1. PICK t : t = [obj[o] EXCEPT !.start = IF @ = 0 \/ registered THEN 0 ELSE BootNr]
    OBVIOUS
  <2>2. /\ t \in Tx /\ Grown(obj[o], t) /\ t.active = obj[o].active
        /\ t.txNr = obj[o].txNr /\ t.session = obj[o].session /\ t.startReq = obj[o].startReq
        /\ t.stopReq = obj[o].stopReq /\ t.stopConf = obj[o].stopConf
        /\ t.silent = obj[o].silent
    <3>1. t \in Tx
      BY <1>3, <1>5, <2>1, ChangeType
    <3> QED
      BY <1>3, <2>1, <3>1 DEF Tx, Grown
  <2>3. /\ Update(o, t) /\ pc' = "start1" /\ work'.o = o /\ ~t.silent
        /\ UNCHANGED <<txBegin, txEnd, queue, tx, sessions, opLog, closed>>
    <3>1. work'.o = o
      BY <1>1, <1>3, <1>6 DEF StartTx, Work
    <3> QED
      BY <1>1, <1>6, <2>1, <3>1 DEF StartTx, history
  <2>4. Flagged(t)'
    BY <1>3, <2>2, <2>3, FlaggedSame
  <2>5. obj'[o] = t
    BY <1>0, <1>3, <2>3 DEF Update, TypeOK
  <2>6. Bounds' /\ ~Resting'
    BY <2>3 DEF JournalInv, Bounds, Resting, Allocating
  <2>7. Where'
    BY <1>1, <1>2, <1>3, <2>2, <2>3, <2>5 DEF Where
  <2> QED
    BY <1>1, <1>2, <1>3, <1>4, <2>2, <2>3, <2>4, <2>5, <2>6, <2>7, StepJournal
<1>7. CASE StartSilent
  <2>1. PICK t : t = [obj[o] EXCEPT !.start = IF @ = 0 \/ registered THEN 0 ELSE BootNr,
                                    !.startReq = TRUE, !.startConf = TRUE]
    OBVIOUS
  <2>2. /\ t \in Tx /\ Grown(obj[o], t) /\ t.active = obj[o].active
        /\ t.txNr = obj[o].txNr /\ t.session = obj[o].session /\ t.startReq
        /\ t.stopReq = obj[o].stopReq /\ t.stopConf = obj[o].stopConf
        /\ t.silent = obj[o].silent
    <3>1. t \in Tx
      BY <1>3, <1>5, <2>1, ChangeType
    <3> QED
      BY <1>3, <2>1, <3>1 DEF Tx, Grown
  <2>3. /\ Update(o, t) /\ pc' = "idle" /\ work' = work /\ obj[o].silent
        /\ UNCHANGED <<txBegin, txEnd, queue, tx, sessions, opLog, closed>>
    BY <1>1, <1>2, <1>7, <2>1 DEF StartSilent, ctl, history
  <2>4. Flagged(t)'
    <3>1. Flagged(obj[o]) /\ \A k, s : Logged(k, s)' = Logged(k, s)
      BY <1>3, <2>3 DEF JournalInv, Logged
    <3> QED
      BY <2>2, <2>3, <3>1 DEF Flagged
  <2>5. ~Resting'
    BY <1>2, <2>3 DEF Resting
  <2> QED
    BY <1>2, <1>3, <1>4, <2>2, <2>3, <2>4, <2>5, IdleJournal
<1>8. CASE StopTx
  <2>1. PICK t : t = obj[o]
    OBVIOUS
  <2>2. /\ pc' = "stop1" /\ work'.o = o /\ obj' = obj /\ Commit(t) /\ tx' = 0
        /\ MayStop(t) /\ ~t.silent
        /\ UNCHANGED <<txBegin, txEnd, queue, sessions, opLog, closed>>
    <3>1. work'.o = o
      BY <1>1, <1>3, <1>8 DEF StopTx, Work
    <3> QED
      BY <1>1, <1>8, <2>1, <3>1 DEF StopTx, heap, history
  <2>3. Update(o, t) /\ Grown(obj[o], t) /\ t \in Tx
    BY <1>0, <1>3, <2>1, <2>2 DEF Update, Grown, TypeOK
  <2>4. Flagged(t)'
    BY <1>3, <2>1, <2>2, <2>3, FlaggedSame
  <2>5. Live' \subseteq Live
    BY <1>3, <2>2, LiveKept
  <2>6. \A i \in DOMAIN queue :
            queue[i].kind = "auth" => Followed(queue, i)' \/ Awaited(queue[i])'
    <3> SUFFICES ASSUME NEW i \in DOMAIN queue, queue[i].kind = "auth"
                 PROVE  Followed(queue, i)' \/ Awaited(queue[i])'
      OBVIOUS
    <3>1. CASE Followed(queue, i)
      BY <2>2, <3>1 DEF Followed
    <3>2. CASE Awaited(queue[i])
      BY <1>1, <1>2, <2>2, <3>2 DEF Awaited, Logged
    <3> QED
      BY <3>1, <3>2 DEF JournalInv, Attached
  <2>7. Attached'
    BY <2>2, <2>6 DEF JournalInv, Attached
  <2>8. NoneOpen' /\ ~Allocating'
    BY <2>2 DEF NoneOpen, Resting, Allocating
  <2>9. Where'
    BY <1>3, <2>1, <2>2 DEF Where, MayStop, IsRunning
  <2>10. \A x \in Ops' : x \in Ops
    BY <2>2 DEF Ops
  <2> QED
    BY <1>2, <1>3, <2>2, <2>3, <2>4, <2>5, <2>7, <2>8, <2>9, <2>10, TakeJournal
<1> QED
  BY <1>6, <1>7, <1>8

\* The connector gives a completed transaction up.
LEMMA CompletedJournal ==
    ASSUME TypeInv, TypeInv', ReportInv, JournalInv, CollectCompleted
    PROVE  JournalInv'
<1> USE References
<1>1. PICK o : o = tx
  OBVIOUS
<1>2. /\ tx # 0 /\ pc = "idle" /\ pc' = "idle" /\ tx' = 0 /\ obj[o].stopConf
      /\ UNCHANGED <<txBegin, txEnd, file, obj, queue, work, sessions, opLog, closed>>
  BY <1>1 DEF CollectCompleted, Looping, IsCompleted, flash, heap, ctl, history
<1>3. /\ o \in Live /\ obj[o] \in Tx /\ obj[o] \in Versions
      /\ Turn(obj[o].txNr) + 1 = Turn(txEnd) /\ work.o = 0
  BY <1>1, <1>2, LiveType DEF TypeInv, TypeOK, Versions, JournalInv, Where, Places
<1>4. obj[o].stopReq /\ ~obj[o].active
  BY <1>2, <1>3 DEF JournalInv, Flagged, ReportInv, Stopped
<1>5. \A i \in DOMAIN queue : queue[i].kind = "auth" => Followed(queue, i)
  <2> SUFFICES ASSUME NEW i \in DOMAIN queue, queue[i].kind = "auth", Awaited(queue[i])
               PROVE  FALSE
    BY DEF JournalInv, Attached
  <2>1. queue[i].session = obj[o].session
    BY <1>1, <1>2 DEF JournalInv, Attached, Awaited
  <2>2. Logged("stop", queue[i].session)
    BY <1>3, <1>4, <2>1 DEF JournalInv, Flagged, Awaited
  <2> QED
    BY <2>2 DEF Awaited
<1>6. Live' \subseteq Live
  BY <1>2, LiveKept
<1>7. Versions' \subseteq Versions
  BY <1>2, <1>6 DEF Versions
<1>8. \A u \in Versions : u.stopReq
  BY <1>2, <1>3, <1>4, LastStopped
<1>9. NoneOpen' /\ Attached' /\ Bounds'
  BY <1>2, <1>5, <1>7, <1>8 DEF NoneOpen, JournalInv, Attached, Followed, Bounds, Allocating
<1>10. Where'
  BY <1>2, <1>3, WhereIdle
<1>11. InSync'
  BY <1>2, <1>6, SyncKept
<1>12. FilesKept /\ \A x \in Ops' : x \in Ops
  BY <1>2 DEF FilesKept, Ops
<1>13. closed \subseteq closed' /\ \A s \in closed' : Logged("stop", s)
  BY <1>2 DEF JournalInv, LogOrder
<1> QED
  BY <1>2, <1>7, <1>9, <1>10, <1>11, <1>12, <1>13, FlashKept DEF JournalInv

\* A message is written of the latest transaction of the journal.
LEMMA InitiateOpJournal ==
    ASSUME TypeInv, TypeInv', ReportInv, JournalInv,
           NEW kind, NEW next, InitiateOp(kind, next),
           \/ kind = "start" /\ pc = "start1" /\ next = "start2"
           \/ kind = "stop" /\ pc = "stop1" /\ next = "stop2"
    PROVE  JournalInv'
<1> USE References
<1>0. TypeOK
  BY DEF TypeInv
<1>1. PICK o, s, op, r : /\ o = work.o /\ s = obj[o].session
                         /\ op = [kind |-> kind, session |-> s]
                         /\ r = [kind |-> kind, o |-> o, txNr |-> obj[o].txNr, session |-> s]
  BY Zenon
<1>2. /\ o \in Live /\ o \in ObjId /\ obj[o] \in Versions /\ obj[o] \in Tx /\ obj[o] \in Carriers
      /\ opLog \in Seq(Op) /\ queue \in Seq(Request) /\ obj[o].txNr \in TxNr
  BY <1>0, <1>1, LiveType DEF TypeInv, HasObject, Versions, Carriers, TypeOK, Tx
<1>3. /\ Turn(obj[o].txNr) + 1 = Turn(txEnd) /\ ~obj[o].silent /\ ~obj[o].stopReq /\ s # 0
      /\ kind = "start" => tx = o
      /\ kind = "stop" => tx = 0 /\ obj[o].startReq /\ Logged("start", s)
  <2>1. /\ Turn(obj[o].txNr) + 1 = Turn(txEnd) /\ ~obj[o].silent
        /\ kind = "start" => tx = o
        /\ kind = "stop" => tx = 0 /\ obj[o].startReq
    BY <1>1 DEF JournalInv, Where, Places
  <2>2. Flagged(obj[o])
    BY <1>2 DEF JournalInv
  <2>3. ~obj[o].stopReq
    BY <1>1, <2>2 DEF ReportInv, Handled, Flagged
  <2> QED
    BY <1>1, <2>1, <2>2, <2>3 DEF Flagged
<1>4. /\ queue' = Append(queue, r) /\ opLog' = Append(opLog, op) /\ pc' = next
      /\ UNCHANGED <<txBegin, txEnd, file, obj, cache, tx, work, sessions, closed>>
  BY <1>1 DEF InitiateOp, flash, heap
<1>5. /\ r.kind = kind /\ r.o = o /\ r.txNr = obj[o].txNr /\ r.session = s
      /\ op.kind = kind /\ op.session = s /\ s \in Nat /\ r \in Request /\ op \in Op
  BY <1>1, <1>2 DEF Tx, Request, Op
<1>6. /\ \A i \in DOMAIN queue' : queue'[i] = r \/ \E j \in DOMAIN queue : queue'[i] = queue[j]
      /\ \A i \in DOMAIN queue' : \/ queue'[i] = r /\ i = Len(queue) + 1
                                  \/ i \in DOMAIN queue /\ queue'[i] = queue[i]
      /\ \A i \in DOMAIN queue : i \in DOMAIN queue' /\ queue'[i] = queue[i]
  <2>1. \A i \in DOMAIN queue' : \/ queue'[i] = r /\ i = Len(queue) + 1
                                 \/ i \in DOMAIN queue /\ queue'[i] = queue[i]
    BY <1>2, <1>4, <1>5
  <2>2. \A i \in DOMAIN queue : i \in DOMAIN queue' /\ queue'[i] = queue[i]
    BY <1>2, <1>4, <1>5
  <2> QED
    BY <2>1, <2>2
<1>7. Live' \subseteq Live /\ Versions' \subseteq Versions
  <2>1. \A i \in DOMAIN queue' : queue'[i].o \in Live \cup {0}
    BY <1>2, <1>5, <1>6
  <2>2. Live' \subseteq Live
    BY <1>4, <2>1, LiveKept
  <2> QED
    BY <1>4, <2>2 DEF Versions
<1>8. \A k, x : Logged(k, x)' <=> Logged(k, x) \/ (k = kind /\ x = s)
  <2>1. /\ \A i \in DOMAIN opLog' : opLog'[i] = op \/ \E j \in DOMAIN opLog : opLog'[i] = opLog[j]
        /\ \A i \in DOMAIN opLog : i \in DOMAIN opLog' /\ opLog'[i] = opLog[i]
        /\ \E i \in DOMAIN opLog' : opLog'[i] = op
    BY <1>2, <1>4, <1>5
  <2> QED
    BY <1>1, <2>1 DEF Logged
<1>9. file[obj[o].txNr] = obj[o] /\ obj[o].txNr = PrevNr(txEnd)
  <2>1. pc \notin {"created", "collect", "silent", "stop2"}
    OBVIOUS
  <2> QED
    BY <1>2, <1>3, <2>1, OneVersion, EndOfJournal
<1>10. Numbered'
  <2>1. \A x \in Carriers' : \E y \in Carriers : x.session = y.session /\ x.txNr = y.txNr
    <3>1. \A x \in Ops' : x = r \/ x \in Ops
      BY <1>6 DEF Ops
    <3> QED
      BY <1>1, <1>2, <1>5, <1>7, <3>1 DEF Carriers
  <2>2. Numbered
    BY DEF JournalInv
  <2>3. \A x \in Carriers' : /\ Turn(x.txNr) < Turn(txEnd)
                             /\ Turn(x.txNr) < Turn(txBegin) => x.session \in closed
    BY <2>1, <2>2 DEF Numbered
  <2>4. \A x, y \in Carriers' : Turn(x.txNr) <= Turn(y.txNr) <=> x.session <= y.session
    BY <2>1, <2>2 DEF Numbered
  <2> QED
    BY <1>4, <2>3, <2>4 DEF Numbered
<1>11. LogOrder'
  <2>1. \A i \in DOMAIN opLog' : opLog'[i] = op \/ \E j \in DOMAIN opLog : opLog'[i] = opLog[j]
    BY <1>2, <1>4, <1>5
  <2> QED
    BY <1>3, <1>4, <1>5, <1>8, <2>1 DEF JournalInv, LogOrder
<1>12. ASSUME NEW t \in Versions' PROVE Flagged(t)'
  <2>1. t \in Versions /\ Flagged(t)
    BY <1>7 DEF JournalInv
  <2>2. t.session = s => t = obj[o]
    BY <1>1, <1>2, <2>1, OneVersion
  <2> QED
    BY <1>3, <1>4, <1>8, <2>1, <2>2 DEF Flagged
<1>13. ASSUME NEW x \in Ops' PROVE Backed(x)'
  <2>1. CASE x = r
    <3>1. Logged("start", s)'
      BY <1>3, <1>8
    <3>2. Turn(obj[o].txNr) \in Nat /\ Turn(txEnd) \in Nat
      BY <1>2, CarrierType
    <3>3. Turn(obj[o].txNr) < Turn(txEnd) /\ Turn(obj[o].txNr) <= Turn(obj[o].txNr)
      BY <1>3, <3>2
    <3> QED
      BY <1>1, <1>2, <1>4, <1>5, <1>8, <1>9, <2>1, <3>1, <3>3 DEF Backed
  <2>2. CASE x # r
    <3>1. x \in Ops /\ Backed(x)
      BY <1>6, <2>2 DEF Ops, JournalInv
    <3> QED
      BY <1>4, <1>8, <3>1 DEF Backed
  <2> QED
    BY <2>1, <2>2
<1>14. Attached'
  <2>1. ASSUME NEW i \in DOMAIN queue'
        PROVE  /\ queue'[i].o # 0 => /\ obj'[queue'[i].o].session = queue'[i].session
                                     /\ obj'[queue'[i].o].txNr = queue'[i].txNr
               /\ queue'[i].kind = "auth" => Followed(queue, i)' \/ Awaited(queue[i])'
    <3>1. CASE queue'[i] = r
      BY <1>1, <1>4, <1>5, <3>1
    <3>2. CASE i \in DOMAIN queue /\ queue'[i] = queue[i]
      <4>1. queue'[i].o # 0 => /\ obj'[queue'[i].o].session = queue'[i].session
                               /\ obj'[queue'[i].o].txNr = queue'[i].txNr
        BY <1>4, <3>2 DEF JournalInv, Attached
      <4>2. CASE queue[i].kind = "auth" /\ Followed(queue, i)
        BY <1>6, <3>2, <4>1, <4>2 DEF Followed
      <4>3. CASE queue[i].kind = "auth" /\ Awaited(queue[i]) /\ kind = "start"
        <5>1. PICK x : x = queue[i].session
          OBVIOUS
        <5>2. ~Logged("stop", x)'
          BY <1>8, <4>3, <5>1 DEF Awaited
        <5>3. Awaited(queue[i])'
          BY <1>3, <1>4, <3>2, <4>3, <5>1, <5>2 DEF Awaited, Logged
        <5> QED
          BY <4>1, <5>3
      <4>4. CASE queue[i].kind = "auth" /\ Awaited(queue[i]) /\ kind = "stop"
        <5>1. queue[i].o = o /\ o # 0
          BY <1>1, <1>3, <3>2, <4>4 DEF Awaited, TypeInv, HasObject
        <5>2. queue[i].session = s
          BY <1>1, <3>2, <5>1 DEF JournalInv, Attached
        <5>3. PICK j \in DOMAIN queue' : queue'[j] = r /\ i < j
          BY <1>2, <1>4, <3>2
        <5>4. Followed(queue, i)'
          BY <1>5, <3>2, <4>4, <5>2, <5>3 DEF Followed
        <5> QED
          BY <4>1, <5>4
      <4> QED
        BY <3>2, <4>1, <4>2, <4>3, <4>4 DEF JournalInv, Attached
    <3> QED
      BY <1>6, <3>1, <3>2
  <2> QED
    BY <2>1 DEF Attached
<1>15. InSync'
  <2>1. pc \notin {"created", "collect", "silent"} /\ closed \subseteq closed'
    BY <1>4
  <2> QED
    BY <1>4, <1>7, <2>1, SyncKept
<1>16. OpenLast'
  BY <1>1, <1>4, <1>8, <1>9 DEF JournalInv, OpenLast
<1>17. NoneOpen' /\ Bounds'
  BY <1>4 DEF NoneOpen, Resting, JournalInv, Bounds, Allocating
<1>18. Where'
  <2>1. Logged(kind, obj[o].session)'
    <3>1. Logged(kind, s)' /\ obj'[o].session = s
      BY <1>1, <1>4, <1>8
    <3> QED
      BY <3>1
  <2>2. /\ o = work.o
        /\ tx # 0 => Turn(obj[tx].txNr) + 1 = Turn(txEnd)
    BY <1>1 DEF JournalInv, Where
  <2> QED
    BY <1>3, <1>4, <2>1, <2>2 DEF Where
<1> QED
  BY <1>10, <1>11, <1>12, <1>13, <1>14, <1>15, <1>16, <1>17, <1>18 DEF JournalInv

\* A reset leaves the files and the op files, which refer to no object.
LEMMA CutJournal ==
    ASSUME TypeInv, TypeInv', ReportInv, JournalInv, PowerCut \/ Panic
    PROVE  JournalInv'
<1>1. Reset(queue)
  BY DEF PowerCut, Panic, JournalInv, Where
<1>2. /\ tx' = 0 /\ work'.o = 0 /\ pc' = "off"
      /\ UNCHANGED <<txBegin, txEnd, file, sessions, opLog, closed>>
  BY <1>1 DEF Reset, flash, history, NoWork
<1>3. \A i \in DOMAIN queue' :
          /\ queue'[i].o = 0
          /\ \E y \in Ops : /\ queue'[i].kind = y.kind /\ queue'[i].session = y.session
                            /\ queue'[i].txNr = y.txNr
  <2> DEFINE S == {i \in DOMAIN queue : InFlash(queue[i])}
  <2>1. queue \in Seq(Request) /\ queue' \in Seq(Request)
    BY DEF TypeInv, TypeOK
  <2>2. queue' = [i \in DOMAIN Keep(queue, S) |-> [Keep(queue, S)[i] EXCEPT !.o = 0]]
    BY <1>1 DEF Reset
  <2>3. \A y \in Ops : y \in Request
    BY CarrierType
  <2>4. /\ S \subseteq DOMAIN queue
        /\ \A i \in S : queue[i] \in Ops
    BY DEF Ops
  <2> HIDE DEF S
  <2>5. \A i \in DOMAIN Keep(queue, S) : \E j \in S : Keep(queue, S)[i] = queue[j]
    BY <2>1, <2>4, KeepType
  <2>6. DOMAIN queue' = DOMAIN Keep(queue, S)
    BY <2>2
  <2> SUFFICES ASSUME NEW i \in DOMAIN queue'
               PROVE  /\ queue'[i].o = 0
                      /\ \E y \in Ops : /\ queue'[i].kind = y.kind
                                        /\ queue'[i].session = y.session
                                        /\ queue'[i].txNr = y.txNr
    OBVIOUS
  <2>7. PICK y \in Ops : Keep(queue, S)[i] = y
    BY <2>4, <2>5, <2>6
  <2>8. queue'[i] = [y EXCEPT !.o = 0] /\ y \in Request
    BY <2>2, <2>3, <2>6, <2>7
  <2> QED
    BY <2>8 DEF Request
<1>4. Live' = {}
  BY <1>2, <1>3 DEF Live, Alive
<1>5. Versions' \subseteq Versions
  BY <1>2, <1>4 DEF Versions
<1>6. \A x \in Ops' : \E y \in Ops : x.kind = y.kind /\ x.session = y.session /\ x.txNr = y.txNr
  BY <1>3 DEF Ops
<1>7. Attached'
  <2>1. \A i \in DOMAIN queue' : queue'[i].kind # "auth"
    <3>1. \A y \in Ops : y.kind # "auth"
      BY DEF Ops, InFlash
    <3> QED
      BY <1>3, <3>1
  <2> QED
    BY <1>3, <2>1 DEF Attached
<1>8. InSync' /\ NoneOpen' /\ Bounds' /\ Where'
  BY <1>2, <1>4 DEF InSync, NoneOpen, Resting, Allocating, Bounds, Where, Places, JournalInv
<1>9. FilesKept /\ closed \subseteq closed' /\ \A s \in closed' : Logged("stop", s)
  BY <1>2 DEF FilesKept, JournalInv, LogOrder
<1> QED
  BY <1>2, <1>5, <1>6, <1>7, <1>8, <1>9, FlashKept DEF JournalInv

\* A transaction that is read from flash.
LEMMA LoadKeeps ==
    ASSUME TypeInv, TypeInv', ReportInv, JournalInv, NEW o \in ObjId, NEW n \in TxNr,
           Load(o, n), file[n] # NoTx, UNCHANGED <<file, closed>>, Live' \subseteq Live \cup {o},
           pc \notin {"created", "collect", "silent"}
    PROVE  /\ o \notin Live /\ obj'[o] = file[n] /\ obj'[o].txNr = n
           /\ \A p \in Live : obj'[p] = obj[p]
           /\ Versions' \subseteq Versions /\ InSync'
<1>1. file[n] \in Tx /\ file[n].txNr = n
  BY DEF TypeInv, TypeOK, ReportInv, OwnFile
<1>2. /\ o \notin Live /\ obj'[o] = file[n]
      /\ \A p \in Live : obj'[p] = obj[p]
  BY <1>1, AddObjectKept DEF Load, ReportInv
<1>3. Versions' \subseteq Versions
  BY <1>2 DEF Versions
<1>4. InSync'
  BY <1>1, <1>2 DEF JournalInv, InSync
<1> QED
  BY <1>1, <1>2, <1>3, <1>4

\* The connector goes on with the latest transaction of the journal, or with none.
LEMMA BootJournal ==
    ASSUME TypeInv, TypeInv', ReportInv, JournalInv, NEW o \in ObjId, Boot(o)
    PROVE  JournalInv'
<1>1. PICK n : n = PrevNr(txEnd)
  OBVIOUS
<1>2. /\ pc = "off" /\ pc' = "idle" /\ n \in TxNr /\ o # 0
      /\ UNCHANGED <<txBegin, txEnd, file, queue, work, sessions, opLog, closed>>
  BY <1>1, EndOfJournal, TxAssumption DEF Boot, flash, history
<1>3. /\ tx = 0 /\ work.o = 0 /\ \A i \in DOMAIN queue : queue[i].o = 0
      /\ Live = {}
  BY <1>2 DEF ReportInv, Handled, Live, Alive
<1>4. Attached'
  <2>1. \A i \in DOMAIN queue : queue[i].kind # "auth"
    BY <1>3 DEF TypeInv, HasObject
  <2> QED
    BY <1>2, <1>3, <2>1 DEF Attached
<1>5. /\ \A x \in Ops' : x \in Ops
      /\ FilesKept /\ closed \subseteq closed' /\ \A s \in closed' : Logged("stop", s)
      /\ Bounds'
  BY <1>2 DEF Ops, FilesKept, JournalInv, LogOrder, Bounds, Allocating
<1>6. CASE file[n] # NoTx
  <2>1. Load(o, n) /\ tx' = o
    BY <1>1, <1>6 DEF Boot
  <2>2. Live' \subseteq Live \cup {o}
    BY <1>2, <1>3, <2>1 DEF Live, Alive
  <2>3. obj'[o].txNr = n /\ Versions' \subseteq Versions /\ InSync'
    BY <1>2, <1>6, <2>1, <2>2, LoadKeeps
  <2>4. Turn(n) + 1 = Turn(txEnd)
    <3>1. file[n] \in Carriers /\ file[n].txNr = n
      BY <1>2, <1>6 DEF Carriers, Versions, ReportInv, OwnFile
    <3>2. Turn(n) < Turn(txEnd) /\ Turn(n) \in Nat /\ Turn(txEnd) \in Nat
      BY <3>1, CarrierType DEF JournalInv, Numbered
    <3> QED
      BY <1>1, <3>2, EndOfJournal
  <2>5. NoneOpen' /\ Where'
    BY <1>2, <1>3, <2>1, <2>3, <2>4, WhereIdle DEF NoneOpen, Resting
  <2> QED
    BY <1>2, <1>4, <1>5, <2>3, <2>5, FlashKept DEF JournalInv
<1>7. CASE file[n] = NoTx
  <2>1. UNCHANGED <<tx, obj, cache>>
    BY <1>1, <1>7 DEF Boot, heap
  <2>2. Live' = {} /\ Versions' \subseteq Versions
    BY <1>2, <1>3, <2>1 DEF Live, Alive, Versions
  <2>3. InSync' /\ Where'
    BY <1>2, <1>3, <2>1, <2>2, WhereIdle DEF InSync
  <2>4. NoneOpen'
    <3> SUFFICES ASSUME NEW u \in Versions, ~u.stopReq PROVE FALSE
      BY <2>2 DEF NoneOpen
    <3>1. PICK m \in TxNr : file[m] # NoTx /\ u = file[m] /\ u.txNr = m
      BY <1>3 DEF Versions, ReportInv, OwnFile
    <3>2. Turn(m) + 1 = Turn(txEnd)
      BY <3>1 DEF JournalInv, Flagged
    <3> QED
      BY <1>1, <1>7, <3>1, <3>2, EndOfJournal
  <2> QED
    BY <1>2, <1>4, <1>5, <2>2, <2>3, <2>4, FlashKept DEF JournalInv
<1> QED
  BY <1>6, <1>7

\* A message gets its transaction back: that with its number, which is that of its session.
LEMMA RestoreJournal ==
    ASSUME TypeInv, TypeInv', ReportInv, JournalInv, NEW o \in ObjId, Restore(o)
    PROVE  JournalInv'
<1> USE References
<1>0. TypeOK
  BY DEF TypeInv
<1>1. PICK r, n, found : /\ r = Head(queue) /\ n = r.txNr
                         /\ found = IF Cached(n) # 0 THEN Cached(n) ELSE o
  BY Zenon
<1>2. /\ queue # <<>> /\ queue \in Seq(Request) /\ Restorable(r) /\ r.o = 0
      /\ queue' = [queue EXCEPT ![1].o = found]
      /\ pc \in {"idle", "fetch"} /\ pc' = "idle"
      /\ UNCHANGED <<txBegin, txEnd, file, tx, work, sessions, opLog, closed>>
  BY <1>0, <1>1 DEF Restore, Unrestored, TypeOK, flash, history
<1>3. 1 \in DOMAIN queue /\ r = queue[1] /\ r \in Request /\ n \in TxNr /\ r.kind # "auth"
  <2>1. 1 \in DOMAIN queue /\ r = queue[1] /\ r \in Request
    BY <1>1, <1>2
  <2> QED
    BY <1>1, <1>2, <2>1 DEF Request, TypeInv, HasObject
<1>4. r \in Ops /\ r \in Carriers
  BY <1>3 DEF Ops, InFlash, Carriers
<1>5. DOMAIN queue' = DOMAIN queue /\ \A i \in DOMAIN queue' :
          /\ i \in DOMAIN queue
          /\ queue'[i].kind = queue[i].kind /\ queue'[i].session = queue[i].session
          /\ queue'[i].txNr = queue[i].txNr
          /\ queue'[i].o = IF i = 1 THEN found ELSE queue[i].o
  <2>1. \A i \in DOMAIN queue : queue[i] \in Request
    BY <1>2
  <2> QED
    BY <1>2, <2>1 DEF Request
<1>6. /\ found \in Live' /\ obj'[found].txNr = n /\ obj'[found] \in Versions
      /\ Versions' \subseteq Versions /\ InSync'
      /\ \A p \in Live : obj'[p] = obj[p]
  <2>1. CASE Cached(n) # 0
    <3>1. found \in Live /\ obj[found].txNr = n /\ UNCHANGED <<obj, cache>>
      BY <1>1, <1>3, <2>1, CachedFinds, Zenon DEF Restore, heap
    <3>2. Live' \subseteq Live
      BY <1>2, <1>5, <3>1, LiveKept
    <3>3. found \in Live'
      <4>1. 1 \in DOMAIN queue' /\ found # 0 /\ found \in ObjId
        BY <1>2, <1>3, <3>1 DEF Live, Alive
      <4> QED
        BY <1>5, <4>1 DEF Live, Alive
    <3>4. InSync'
      BY <1>2, <3>1, <3>2, SyncKept
    <3> QED
      BY <1>2, <3>1, <3>2, <3>3, <3>4 DEF Versions
  <2>2. CASE Cached(n) = 0
    <3>1. found = o /\ Load(o, n) /\ file[n] # NoTx
      BY <1>1, <1>2, <2>2 DEF Restore, Restorable, Exists
    <3>2. Live' \subseteq Live \cup {o}
      <4>1. \A i \in DOMAIN queue' : queue'[i].o \in Live \cup {0, o}
        BY <1>5, <3>1
      <4> QED
        BY <1>2, <4>1 DEF Live, Alive
    <3>3. found \in Live'
      <4>1. 1 \in DOMAIN queue' /\ found # 0 /\ found \in ObjId
        BY <1>2, <1>3, <3>1, TxAssumption
      <4> QED
        BY <1>5, <4>1 DEF Live, Alive
    <3>4. /\ obj'[o] = file[n] /\ obj'[o].txNr = n
          /\ \A p \in Live : obj'[p] = obj[p]
          /\ Versions' \subseteq Versions /\ InSync'
      BY <1>2, <1>3, <3>1, <3>2, LoadKeeps
    <3>5. obj'[o] \in Versions
      BY <1>3, <3>1, <3>4 DEF Versions
    <3> QED
      BY <3>1, <3>3, <3>4, <3>5
  <2> QED
    BY <2>1, <2>2
<1>7. obj'[found].session = r.session
  BY <1>1, <1>4, <1>6, SameNumber DEF Carriers, JournalInv
<1>8. Attached'
  <2>1. ASSUME NEW i \in DOMAIN queue'
        PROVE  /\ queue'[i].o # 0 => /\ obj'[queue'[i].o].session = queue'[i].session
                                     /\ obj'[queue'[i].o].txNr = queue'[i].txNr
               /\ queue'[i].kind = "auth" => Followed(queue, i)' \/ Awaited(queue[i])'
    <3>1. CASE i = 1
      BY <1>1, <1>3, <1>5, <1>6, <1>7, <3>1
    <3>2. CASE i # 1
      <4>1. queue[i].o # 0 => queue[i].o \in Live
        BY <1>5, LiveType
      <4>2. queue'[i].o # 0 => /\ obj'[queue'[i].o].session = queue'[i].session
                               /\ obj'[queue'[i].o].txNr = queue'[i].txNr
        BY <1>5, <1>6, <3>2, <4>1 DEF JournalInv, Attached
      <4>3. Followed(queue, i) => Followed(queue, i)'
        BY <1>5 DEF Followed
      <4>4. Awaited(queue[i]) => Awaited(queue[i])'
        BY <1>2, <1>5, <3>2 DEF Awaited, Logged
      <4> QED
        BY <1>5, <4>2, <4>3, <4>4 DEF JournalInv, Attached
    <3> QED
      BY <3>1, <3>2
  <2> QED
    BY <2>1 DEF Attached
<1>9. \A x \in Ops' : \E y \in Ops : x.kind = y.kind /\ x.session = y.session /\ x.txNr = y.txNr
  BY <1>5 DEF Ops, InFlash
<1>10. /\ FilesKept /\ closed \subseteq closed' /\ \A s \in closed' : Logged("stop", s)
       /\ Bounds' /\ NoneOpen'
  BY <1>2, <1>6 DEF FilesKept, JournalInv, LogOrder, Bounds, Allocating, NoneOpen, Resting
<1>11. Where'
  <2>1. tx # 0 => Turn(obj'[tx].txNr) + 1 = Turn(txEnd)
    BY <1>6 DEF JournalInv, Where
  <2>2. work.o = 0
    BY <1>2 DEF JournalInv, Where, Places
  <2> QED
    BY <1>2, <2>1, <2>2, WhereIdle
<1> QED
  BY <1>2, <1>6, <1>8, <1>9, <1>10, <1>11, FlashKept DEF JournalInv

\* The file of a transaction of which no message was written goes.
LEMMA DropJournal ==
    ASSUME TypeInv, TypeInv', ReportInv, JournalInv, CollectAborted \/ StopSilent
    PROVE  JournalInv'
<1> USE References
<1>0. TypeOK
  BY DEF TypeInv
<1>1. PICK o, n : o = tx /\ n = obj[tx].txNr
  OBVIOUS
<1>2. /\ o # 0 /\ pc = "idle" /\ pc' \in {"collect", "silent"} /\ Delete(n) /\ ~obj[o].active
      /\ UNCHANGED <<txBegin, txEnd, tx, obj, queue, work, sessions, opLog, closed>>
  BY <1>1 DEF CollectAborted, StopSilent, Looping, IsAborted, MayStop, heap, history
<1>3. /\ o \in Live /\ o \in ObjId /\ obj[o] \in Tx /\ obj[o] \in Versions /\ obj[o] \in Carriers
      /\ n \in TxNr /\ obj[o].txNr = n /\ work.o = 0
  <2>1. o \in Live /\ o \in ObjId /\ obj[o] \in Tx /\ work.o = 0
    BY <1>0, <1>1, <1>2, LiveType DEF TypeOK, JournalInv, Where, Places
  <2> QED
    BY <1>1, <2>1 DEF Tx, Versions, Carriers
<1>4. Unlogged(obj[o].session)
  <2>1. /\ Logged("start", obj[o].session) => obj[o].startReq
        /\ Logged("stop", obj[o].session) => obj[o].stopReq
    BY <1>2, <1>3 DEF ReportInv, Noted
  <2>2. Flagged(obj[o])
    BY <1>3 DEF JournalInv
  <2>3. CASE CollectAborted
    BY <1>1, <2>1, <2>2, <2>3 DEF CollectAborted, IsAborted, Flagged, Unlogged
  <2>4. CASE StopSilent
    BY <1>1, <2>1, <2>2, <2>4 DEF StopSilent, Flagged, Unlogged
  <2> QED
    BY <2>3, <2>4
<1>5. \A m \in TxNr : file'[m] = IF m = n THEN NoTx ELSE file[m]
  BY <1>0, <1>2 DEF Delete, TypeOK
<1>6. FilesKept
  <2>1. ASSUME file[n] # NoTx PROVE file[n].session = obj[o].session
    <3>1. file[n] \in Carriers /\ file[n].txNr = n
      BY <1>3, <2>1 DEF Carriers, Versions, ReportInv, OwnFile
    <3> QED
      BY <1>3, <3>1, SameNumber DEF JournalInv
  <2>2. file'[n].session = file[n].session \/ Unlogged(file[n].session)
    BY <1>3, <1>4, <1>5, <2>1
  <2> QED
    BY <1>5, <2>2 DEF FilesKept
<1>7. Live' = Live /\ Versions' \subseteq Versions
  <2>1. Live' = Live
    BY <1>2 DEF Live, Alive
  <2> QED
    BY <1>2, <1>5, <2>1 DEF Versions
<1>8. InSync'
  <2> SUFFICES ASSUME NEW p \in Live, p # o
               PROVE  \/ file'[obj[p].txNr] = obj[p]
                      \/ file'[obj[p].txNr] = NoTx /\ obj[p].session \in closed
    BY <1>1, <1>2, <1>3, <1>5, <1>7 DEF InSync
  <2>1. obj[p] \in Carriers /\ obj[p].txNr \in TxNr
    BY CarrierType DEF Carriers, Versions
  <2>2. obj[p].txNr # n
    BY <1>3, <2>1, SameNumber DEF JournalInv, ReportInv, OneObject
  <2>3. file'[obj[p].txNr] = file[obj[p].txNr]
    BY <1>5, <2>1, <2>2
  <2> QED
    BY <1>2, <2>3 DEF JournalInv, InSync
<1>9. Attached' /\ Bounds' /\ NoneOpen'
  <2>1. Attached'
    BY <1>2, AttachedSame
  <2> QED
    BY <1>1, <1>2, <2>1 DEF JournalInv, Bounds, NoneOpen, Resting, Allocating
<1>10. Where'
  <2>1. file'[obj[o].txNr] = NoTx /\ ~Logged("start", obj[o].session)'
    BY <1>2, <1>3, <1>4, <1>5 DEF Unlogged, Logged
  <2> QED
    BY <1>1, <1>2, <1>3, <2>1 DEF Where, JournalInv
<1>11. /\ \A x \in Ops' : x \in Ops
       /\ closed \subseteq closed' /\ \A s \in closed' : Logged("stop", s)
  BY <1>2 DEF Ops, JournalInv, LogOrder
<1> QED
  BY <1>2, <1>6, <1>7, <1>8, <1>9, <1>10, <1>11, FlashKept DEF JournalInv

\* The end of the journal moves back over a number that nothing knows: no file, and no message,
\* for the transaction that backs it would be at that number.
LEMMA ShrinkJournal ==
    ASSUME TypeInv, TypeInv', ReportInv, JournalInv, TrimSave \/ CollectSave \/ SilentSave,
           stranded' = {}
    PROVE  JournalInv'
<1> USE References
<1>0. TypeOK
  BY DEF TypeInv
<1>1. PICK m : m = PrevNr(txEnd)
  OBVIOUS
<1>2. /\ tx' = 0 /\ work'.o = 0 /\ work' = work
      /\ pc \in {"trimmed", "collect", "silent"} /\ pc' \in {"idle", "trim"}
      /\ pc = "trimmed" => tx = 0 /\ txEnd' = m
      /\ pc \in {"collect", "silent"} =>
             tx # 0 /\ txEnd' = obj[tx].txNr /\ pc' = "idle" /\ ~AuthPending(tx)
      /\ UNCHANGED <<txBegin, file, obj, queue, sessions, opLog, closed>>
  <2>1. CASE TrimSave
    <3>1. pc = "trimmed" /\ tx = 0 /\ work.o = 0
      BY <2>1 DEF TrimSave, JournalInv, Where, Places
    <3> QED
      BY <1>1, <2>1, <3>1 DEF TrimSave, heap, history
  <2>2. CASE CollectSave \/ SilentSave
    <3>1. pc \in {"collect", "silent"} /\ RollBack
      BY <2>2 DEF CollectSave, SilentSave
    <3>2. work.o = 0 /\ tx # 0
      BY <3>1 DEF JournalInv, Where, Places, TypeInv, HasObject
    <3> QED
      BY <3>1, <3>2 DEF RollBack, heap, history
  <2> QED
    BY <2>1, <2>2
<1>3. tx # 0 => /\ tx \in Live /\ obj[tx] \in Versions /\ obj[tx] \in Carriers
                /\ obj[tx].txNr = m /\ Turn(m) + 1 = Turn(txEnd)
  <2> SUFFICES ASSUME tx # 0
               PROVE  /\ tx \in Live /\ obj[tx] \in Versions /\ obj[tx] \in Carriers
                      /\ obj[tx].txNr = m /\ Turn(m) + 1 = Turn(txEnd)
    OBVIOUS
  <2>1. tx \in Live /\ tx \in ObjId /\ obj[tx] \in Versions /\ obj[tx] \in Carriers
    BY <1>0, LiveType DEF TypeOK, Versions, Carriers
  <2>2. Turn(obj[tx].txNr) + 1 = Turn(txEnd) /\ obj[tx].txNr \in TxNr
    BY <1>0, <2>1, ObjType DEF JournalInv, Where
  <2> QED
    BY <1>1, <2>1, <2>2, EndOfJournal
<1>4. file[m] = NoTx /\ m \in TxNr /\ txEnd' = m
  BY <1>1, <1>2, <1>3, EndOfJournal DEF JournalInv, Where
<1>5. Turn(txBegin) < Turn(txEnd)
  <2>1. CASE pc = "trimmed"
    BY <2>1 DEF JournalInv, Where
  <2>2. CASE pc \in {"collect", "silent"}
    <3> SUFFICES ASSUME Turn(txBegin) = Turn(txEnd) PROVE FALSE
      BY EndOfJournal DEF JournalInv, Bounds
    <3>1. Turn(m) < Turn(txBegin)
      BY <1>2, <1>3, <1>4, <2>2, Turns DEF TxNr
    <3>2. obj[tx].session \in closed
      BY <1>2, <1>3, <2>2, <3>1 DEF JournalInv, Numbered
    <3>3. Logged("stop", obj[tx].session) /\ obj[tx].session # 0
      BY <3>2, AbsentUnlogged DEF JournalInv, LogOrder, Unlogged
    <3>4. obj[tx].stopReq
      BY <1>2, <1>3, <2>2, <3>3 DEF ReportInv, Noted
    <3>5. Logged("start", obj[tx].session)
      BY <1>2, <1>3, <2>2, <3>3, <3>4 DEF JournalInv, Flagged
    <3> QED
      BY <2>2, <3>5 DEF JournalInv, Where
  <2> QED
    BY <1>2, <2>1, <2>2
<1>6. Turn(m) + 1 = Turn(txEnd) /\ Turn(m) \in Nat /\ Turn(txEnd) \in Nat /\ Turn(txBegin) \in Nat
  BY <1>1, <1>4, <1>5, EndOfJournal
<1>7. \A n \in TxNr : Turn(n) < Turn(txEnd) /\ n # m => Turn(n) < Turn(m)
  BY <1>4, <1>6, Turns DEF TxNr
<1>8. \A r \in Ops : \E n \in TxNr : /\ Turn(r.txNr) <= Turn(n) /\ Turn(n) < Turn(m)
                                     /\ Logged("start", file[n].session)
  <2> SUFFICES ASSUME NEW r \in Ops
               PROVE  \E n \in TxNr : /\ Turn(r.txNr) <= Turn(n) /\ Turn(n) < Turn(m)
                                      /\ Logged("start", file[n].session)
    OBVIOUS
  <2>1. PICK n \in TxNr : /\ Turn(r.txNr) <= Turn(n) /\ Turn(n) < Turn(txEnd)
                          /\ Logged("start", file[n].session)
    BY DEF JournalInv, Backed
  <2>2. n # m
    BY <1>4, <2>1, AbsentUnlogged DEF JournalInv, Unlogged
  <2> QED
    BY <1>7, <2>1, <2>2
<1>9. \A r \in Ops : r.txNr # m
  <2> SUFFICES ASSUME NEW r \in Ops, r.txNr = m PROVE FALSE
    OBVIOUS
  <2>1. PICK n \in TxNr : Turn(m) <= Turn(n) /\ Turn(n) < Turn(m)
    BY <1>8
  <2> QED
    BY <1>6, <2>1, Turns DEF TxNr
<1>10. \A i \in DOMAIN queue : queue[i].kind = "auth" => Followed(queue, i)
  BY <1>2 DEF JournalInv, Attached, Awaited, AuthPending, TypeInv, HasObject
<1>11. \A o \in Live' : o \in Live /\ obj[o].txNr # m
  <2> SUFFICES ASSUME NEW o \in Live' PROVE o \in Live /\ obj[o].txNr # m
    OBVIOUS
  <2>1. PICK i \in DOMAIN queue : queue[i].o = o /\ o # 0
    BY <1>2 DEF Live, Alive
  <2>2. obj[o].session = queue[i].session /\ obj[o].txNr = queue[i].txNr /\ o \in Live
    BY <2>1, LiveType DEF JournalInv, Attached
  <2>3. CASE queue[i].kind # "auth"
    <3>1. queue[i] \in Ops
      BY <2>3 DEF Ops, InFlash
    <3> QED
      BY <1>9, <2>2, <3>1
  <2>4. CASE queue[i].kind = "auth"
    <3>1. PICK j \in DOMAIN queue : queue[j].kind = "stop" /\ queue[j].session = queue[i].session
      BY <1>10, <2>4 DEF Followed
    <3>2. queue[j] \in Ops /\ queue[j] \in Carriers /\ obj[o] \in Carriers
      BY <2>2, <3>1 DEF Ops, InFlash, Carriers, Versions
    <3> QED
      BY <1>9, <2>2, <3>1, <3>2, SameNumber DEF JournalInv
  <2> QED
    BY <2>3, <2>4
<1>12. /\ \A x \in Carriers' : x \in Carriers /\ x.txNr # m
       /\ Versions' \subseteq Versions /\ Ops' = Ops
  BY <1>2, <1>4, <1>9, <1>11 DEF Carriers, Versions, Ops, ReportInv, OwnFile
<1>13. \A k, s : Logged(k, s)' = Logged(k, s)
  BY <1>2 DEF Logged
<1>14. Numbered'
  <2>1. \A x \in Carriers' : Turn(x.txNr) < Turn(m)
    BY <1>7, <1>12, CarrierType DEF JournalInv, Numbered
  <2> QED
    BY <1>2, <1>4, <1>12, <2>1 DEF JournalInv, Numbered
<1>15. \A t \in Versions' : t.stopReq /\ Flagged(t)'
  <2> SUFFICES ASSUME NEW t \in Versions', t \in Versions PROVE t.stopReq /\ Flagged(t)'
    BY <1>12
  <2>1. Flagged(t) /\ t \in Carriers' /\ t.txNr # m /\ t.txNr \in TxNr
    BY <1>12, CarrierType DEF JournalInv, Carriers
  <2>2. t.stopReq
    BY <1>1, <2>1, EndOfJournal DEF Flagged
  <2> QED
    BY <1>2, <1>13, <2>1, <2>2 DEF Flagged
<1>16. \A r \in Ops' : Backed(r)'
  BY <1>2, <1>4, <1>8, <1>12, <1>13 DEF JournalInv, Backed
<1>17. LogOrder' /\ OpenLast'
  <2>1. \A s \in Nat \ {0} : ~(Logged("start", s) /\ ~Logged("stop", s))
    BY <1>1, <1>4, AbsentUnlogged DEF JournalInv, OpenLast
  <2> QED
    BY <1>2, <1>13, <2>1 DEF JournalInv, LogOrder, OpenLast
<1>18. Attached' /\ NoneOpen'
  BY <1>2, <1>10, <1>15 DEF JournalInv, Attached, Followed, NoneOpen
<1>19. InSync'
  BY <1>2, <1>3, <1>11 DEF JournalInv, InSync
<1>20. Bounds' /\ Where'
  <2>1. pc' = "trim" => Allocating
    BY <1>2 DEF Allocating
  <2>2. Bounds'
    BY <1>2, <1>4, <1>5, <1>6, <2>1 DEF JournalInv, Bounds, Allocating, TypeInv, TypeOK
  <2> QED
    BY <1>2, <2>2 DEF Where
<1> QED
  BY <1>14, <1>15, <1>16, <1>17, <1>18, <1>19, <1>20 DEF JournalInv

\* Without a transaction of the connector no session is open.
LEMMA RestingClosed ==
    ASSUME TypeInv, ReportInv, JournalInv, Allocating, NEW s \in Nat \ {0}, Logged("start", s)
    PROVE  Logged("stop", s)
<1> SUFFICES ASSUME ~Logged("stop", s) PROVE FALSE
  OBVIOUS
<1>1. PICK n \in TxNr : n = PrevNr(txEnd)
  BY EndOfJournal
<1>2. file[n].session = s
  BY <1>1 DEF JournalInv, OpenLast
<1>3. file[n] \in Versions
  BY <1>2, AbsentUnlogged DEF JournalInv, Versions
<1>4. file[n].stopReq
  BY <1>1, <1>3, RestingFree DEF JournalInv, NoneOpen, Resting
<1> QED
  BY <1>2, <1>3, <1>4 DEF JournalInv, Flagged

\* A new transaction gets the next number, and its session is the latest.
LEMMA CreateJournal ==
    ASSUME JournalAssumption, TypeInv, TypeInv', ReportInv, JournalInv,
           NEW o \in ObjId, Create(o) \/ CreateSilent(o)
    PROVE  JournalInv'
<1> USE References
<1>0. TypeOK
  BY DEF TypeInv
<1>1. PICK silent \in BOOLEAN : pc = "alloc" /\ CreateTransaction(o, silent)
  BY DEF Create, CreateSilent
<1>2. PICK t : t = NewTx(txEnd, sessions, silent)
  OBVIOUS
<1>3. /\ Fresh(o) /\ AddObject(o, t) /\ work'.o = o /\ pc' = "created" /\ txEnd' = NextNr(txEnd)
      /\ UNCHANGED <<txBegin, file, queue, tx, sessions, opLog, closed>>
  <2>1. work \in Work
    BY <1>0 DEF TypeOK
  <2>2. work'.o = o
    BY <1>1, <2>1 DEF CreateTransaction, Work
  <2> QED
    BY <1>1, <1>2, <2>2 DEF CreateTransaction, history
<1>4. /\ t \in Tx /\ t.session = sessions /\ t.txNr = txEnd /\ t.active
      /\ ~t.startReq /\ ~t.stopReq /\ ~t.stopConf
  BY <1>0, <1>2, NewTxType DEF TypeOK, NewTx
<1>5. Allocating /\ tx = 0 /\ work.o = 0 /\ \A v \in Versions : v.stopReq
  <2>1. Allocating /\ tx = 0 /\ work.o = 0
    BY <1>1, EndOfJournal, RestingFree DEF Allocating
  <2> QED
    BY <2>1 DEF JournalInv, NoneOpen, Resting
<1>6. /\ sessions \in Nat /\ sessions # 0 /\ Turn(txEnd) \in Nat /\ Turn(txBegin) \in Nat
      /\ Turn(txBegin) <= Turn(txEnd) /\ Turn(txEnd) <= sessions
      /\ Turn(txEnd') = Turn(txEnd) + 1
  <2>1. sessions \in Nat /\ MaxSessions \in Nat /\ TxCnt \in Nat
    BY <1>0, TxAssumption DEF TypeOK
  <2>2. /\ Turn(txEnd) \in Nat /\ Turn(txBegin) \in Nat /\ Turn(txBegin) <= Turn(txEnd)
        /\ Turn(txEnd) <= sessions /\ sessions # 0 /\ sessions <= MaxSessions
    BY <1>5, EndOfJournal DEF JournalInv, Bounds
  <2>3. Turn(txEnd) + 1 < TxCnt
    BY <2>1, <2>2 DEF JournalAssumption
  <2>4. Turn(txEnd') = Turn(txEnd) + 1
    BY <1>3, <2>3, EndOfJournal, Turns
  <2> QED
    BY <2>1, <2>2, <2>4
<1>7. Live' \subseteq Live \cup {o}
  BY <1>3 DEF Live, Alive
<1>8. /\ o \notin Live /\ obj'[o] = t
      /\ \A p \in Live : obj'[p] = obj[p]
  BY <1>3, <1>4, <1>7, AddObjectKept DEF ReportInv
<1>9. Versions' \subseteq Versions \cup {t} /\ Ops' = Ops
  BY <1>3, <1>7, <1>8 DEF Versions, Ops
<1>10. \A k : ~Logged(k, sessions)
  <2>1. \A i \in DOMAIN opLog : opLog[i].session < sessions
    BY <1>5 DEF ReportInv, Past
  <2> QED
    BY <1>6, <2>1 DEF Logged
<1>11. \A k, s : Logged(k, s)' = Logged(k, s)
  BY <1>3 DEF Logged
<1>12. \A x \in Carriers : /\ Turn(x.txNr) < Turn(txEnd) /\ Turn(x.txNr) \in Nat
                           /\ x.session < sessions /\ x.session \in Nat
  <2>1. \A x \in Carriers : Turn(x.txNr) < Turn(txEnd)
    BY DEF JournalInv, Numbered
  <2>2. \A x \in Versions : x.session < sessions
    BY <1>5 DEF ReportInv, Past
  <2>3. \A x \in Ops : x.session < sessions
    <3>1. \A i \in DOMAIN opLog : opLog[i].session < sessions
      BY <1>5 DEF ReportInv, Past
    <3> QED
      BY <3>1 DEF JournalInv, Backed, Logged
  <2> QED
    BY <2>1, <2>2, <2>3, CarrierType DEF Carriers
<1>13. Numbered'
  <2>1. \A x \in Carriers' : x \in Carriers \/ x = t
    BY <1>9 DEF Carriers
  <2>2. \A x \in Carriers' :
            /\ Turn(x.txNr) < Turn(txEnd')
            /\ Turn(x.txNr) < Turn(txBegin) => x.session \in closed
    <3>1. \A x \in Carriers : Turn(x.txNr) < Turn(txBegin) => x.session \in closed
      BY DEF JournalInv, Numbered
    <3> QED
      BY <1>4, <1>6, <1>12, <2>1, <3>1
  <2>3. \A x, y \in Carriers' : Turn(x.txNr) <= Turn(y.txNr) <=> x.session <= y.session
    <3>1. \A x, y \in Carriers : Turn(x.txNr) <= Turn(y.txNr) <=> x.session <= y.session
      BY DEF JournalInv, Numbered
    <3> QED
      BY <1>4, <1>6, <1>12, <2>1, <3>1
  <2> QED
    BY <1>3, <2>2, <2>3 DEF Numbered
<1>14. ASSUME NEW u \in Versions' PROVE Flagged(u)'
  <2>1. CASE u \in Versions
    BY <1>3, <1>5, <1>11, <2>1 DEF JournalInv, Flagged
  <2>2. CASE u = t
    BY <1>4, <1>6, <1>10, <1>11, <2>2 DEF Flagged
  <2> QED
    BY <1>9, <2>1, <2>2
<1>15. ASSUME NEW r \in Ops' PROVE Backed(r)'
  <2>1. /\ Logged(r.kind, r.session)
        /\ file[r.txNr].session = r.session \/ r.session \in closed
    BY <1>9 DEF JournalInv, Backed
  <2>2. PICK n \in TxNr : /\ Turn(r.txNr) <= Turn(n) /\ Turn(n) < Turn(txEnd)
                          /\ Logged("start", file[n].session)
    BY <1>9 DEF JournalInv, Backed
  <2>3. Turn(n) < Turn(txEnd')
    BY <1>6, <2>2, Turns DEF TxNr
  <2> QED
    BY <1>3, <1>11, <2>1, <2>2, <2>3 DEF Backed
<1>16. LogOrder' /\ OpenLast'
  <2>1. \A s \in Nat \ {0} : Logged("start", s) => Logged("stop", s)
    BY <1>5, RestingClosed
  <2> QED
    BY <1>3, <1>11, <2>1 DEF JournalInv, LogOrder, OpenLast
<1>17. Attached'
  <2>1. \A i \in DOMAIN queue : queue[i].kind = "auth" => Followed(queue, i)
    BY <1>1, <1>5, AllFollowed
  <2>2. \A i \in DOMAIN queue : queue[i].o # 0 => obj'[queue[i].o] = obj[queue[i].o]
    BY <1>8, LiveType
  <2> QED
    BY <1>3, <2>1, <2>2 DEF JournalInv, Attached, Followed
<1>18. InSync'
  <2>1. file[txEnd] = NoTx
    <3> SUFFICES ASSUME file[txEnd] # NoTx PROVE FALSE
      OBVIOUS
    <3>1. file[txEnd] \in Carriers /\ file[txEnd].txNr = txEnd
      BY EndOfJournal DEF Carriers, Versions, ReportInv, OwnFile
    <3> QED
      BY <1>12, <3>1
  <2>2. file'[obj'[o].txNr] = NoTx /\ pc' = "created" /\ o = work'.o
    BY <1>3, <1>4, <1>8, <2>1
  <2>3. ASSUME NEW p \in Live
        PROVE  \/ file'[obj'[p].txNr] = obj'[p]
               \/ file'[obj'[p].txNr] = NoTx /\ obj'[p].session \in closed'
    BY <1>1, <1>3, <1>8 DEF JournalInv, InSync
  <2> QED
    BY <1>7, <2>2, <2>3 DEF InSync
<1>19. Bounds' /\ NoneOpen' /\ Where'
  <2>1. Bounds'
    BY <1>3, <1>6 DEF JournalInv, Bounds, Allocating
  <2>2. Where'
    BY <1>3, <1>4, <1>5, <1>6, <1>8 DEF Where
  <2> QED
    BY <1>3, <2>1, <2>2 DEF NoneOpen, Resting, Allocating
<1> QED
  BY <1>13, <1>14, <1>15, <1>16, <1>17, <1>18, <1>19 DEF JournalInv

\* What knows a number that has no file is of a session that is closed.
LEMMA MissingClosed ==
    ASSUME TypeInv, ReportInv, JournalInv, Allocating, NEW n \in TxNr, file[n] = NoTx
    PROVE  \A x \in Carriers : x.txNr = n => x.session \in closed
<1>1. \A r \in Ops : r.txNr = n => r.session \in closed
  <2> SUFFICES ASSUME NEW r \in Ops, r.txNr = n PROVE r.session \in closed
    OBVIOUS
  <2>1. /\ Logged(r.kind, r.session)
        /\ file[n].session = r.session \/ r.session \in closed
    BY DEF JournalInv, Backed
  <2>2. r.session # 0
    BY <2>1 DEF JournalInv, LogOrder, Logged
  <2> QED
    BY <2>1, <2>2, AbsentUnlogged DEF JournalInv
<1>2. \A o \in Live : obj[o].txNr = n => obj[o].session \in closed
  <2> SUFFICES ASSUME NEW o \in Live, obj[o].txNr = n PROVE obj[o].session \in closed
    OBVIOUS
  <2>1. o # tx /\ o # work.o
    BY RestingFree DEF Live, Alive
  <2>2. PICK r \in Ops : r.session = obj[o].session /\ r.txNr = n
    BY <2>1, ObjectOfOp
  <2> QED
    BY <1>1, <2>2
<1>3. \A m \in TxNr : file[m] # NoTx => file[m].txNr # n
  BY DEF ReportInv, OwnFile
<1> QED
  BY <1>1, <1>2, <1>3 DEF Carriers, Versions

\* The oldest transaction of a full journal goes, and its number after it.
LEMMA EvictJournal ==
    ASSUME JournalAssumption, TypeInv, TypeInv', ReportInv, JournalInv, Evict
    PROVE  JournalInv'
<1> USE References
<1>0. TypeOK
  BY DEF TypeInv
<1>1. PICK b, e : b = txBegin /\ e = PrevNr(txEnd)
  OBVIOUS
<1>2. /\ pc = "alloc" /\ pc' = "evicted" /\ Size >= RecordSize /\ Evictable(b) /\ Delete(b)
      /\ UNCHANGED <<txBegin, txEnd, obj, queue, tx, work, sessions, opLog, closed>>
  BY <1>1 DEF Evict, heap, history
<1>3. /\ Allocating /\ tx = 0 /\ work.o = 0 /\ \A v \in Versions : v.stopReq
      /\ (~Exists(b) /\ file[b] = NoTx) \/ (Exists(b) /\ Look(b).stopConf)
  <2>1. Allocating /\ b \in TxNr
    BY <1>1, <1>2, EndOfJournal DEF Allocating
  <2>2. tx = 0 /\ work.o = 0 /\ (~Exists(b) \/ (Exists(b) /\ Look(b).stopConf))
    BY <1>2, <2>1, RestingFree
  <2> QED
    BY <2>1, <2>2 DEF JournalInv, NoneOpen, Resting, Exists
<1>4. /\ b \in TxNr /\ e \in TxNr /\ Turn(b) \in Nat /\ Turn(e) \in Nat /\ Turn(txEnd) \in Nat
      /\ Turn(b) + 1 < Turn(txEnd) /\ Turn(e) + 1 = Turn(txEnd) /\ e # b
  <2>1. /\ b \in TxNr /\ e \in TxNr /\ Turn(b) \in Nat /\ Turn(e) \in Nat /\ Turn(txEnd) \in Nat
        /\ Size = Turn(txEnd) - Turn(b)
    BY <1>1, EndOfJournal
  <2>2. Turn(b) + 1 < Turn(txEnd)
    BY <1>2, <2>1, TxAssumption DEF JournalAssumption
  <2>3. Turn(e) + 1 = Turn(txEnd)
    BY <1>1, <2>1, <2>2, EndOfJournal
  <2> QED
    BY <2>1, <2>2, <2>3
<1>5. file[e] # NoTx /\ file[e] \in Versions /\ file[e].txNr = e
  <2>1. file[e] # NoTx
    BY <1>1, <1>2, <1>4 DEF JournalInv, Where
  <2> QED
    BY <1>4, <2>1 DEF Versions, ReportInv, OwnFile
<1>6. \A m \in TxNr : file'[m] = IF m = b THEN NoTx ELSE file[m]
  BY <1>0, <1>2 DEF Delete, TypeOK
<1>7. \A x \in Carriers : x.txNr = b => x.session \in closed \cup {0}
  <2>1. CASE file[b] = NoTx
    BY <1>3, <1>4, <2>1, MissingClosed
  <2>2. CASE Exists(b) /\ Look(b).stopConf
    <3>1. Look(b) \in Versions /\ Look(b) \in Carriers /\ Look(b).txNr = b
      BY <1>4, <2>2, LookVersion DEF ReportInv
    <3>2. Look(b).session \in closed \cup {0}
      BY <2>2, <3>1 DEF JournalInv, Flagged
    <3> QED
      BY <3>1, <3>2, SameNumber DEF JournalInv
  <2> QED
    BY <1>3, <2>1, <2>2
<1>8. Live' = Live /\ Versions' \subseteq Versions /\ Ops' = Ops
  <2>1. Live' = Live
    BY <1>2 DEF Live, Alive
  <2> QED
    BY <1>2, <1>6, <2>1 DEF Versions, Ops
<1>9. \A k, s : Logged(k, s)' = Logged(k, s)
  BY <1>2 DEF Logged
<1>10. Numbered' /\ LogOrder' /\ \A t \in Versions' : Flagged(t)'
  <2>1. closed \subseteq closed' /\ \A s \in closed' : Logged("stop", s)
    BY <1>2 DEF JournalInv, LogOrder
  <2> QED
    BY <1>2, <1>8, <2>1, NumbersKept
<1>11. \A r \in Ops : r.session # 0 /\ (r.txNr = b => r.session \in closed)
  <2>1. \A r \in Ops : r.session # 0
    BY DEF JournalInv, Backed, LogOrder, Logged
  <2> QED
    BY <1>7, <2>1 DEF Carriers
<1>12. ASSUME NEW r \in Ops' PROVE Backed(r)'
  <2>1. /\ r \in Ops /\ r.txNr \in TxNr /\ Logged(r.kind, r.session)
        /\ file[r.txNr].session = r.session \/ r.session \in closed
    BY <1>8, CarrierType DEF JournalInv, Backed, Carriers
  <2>2. file'[r.txNr].session = r.session \/ r.session \in closed
    BY <1>6, <1>11, <2>1
  <2>3. PICK n \in TxNr : /\ Turn(r.txNr) <= Turn(n) /\ Turn(n) < Turn(txEnd)
                          /\ Logged("start", file[n].session)
    BY <2>1 DEF JournalInv, Backed
  <2>4. \E m \in TxNr : /\ Turn(r.txNr) <= Turn(m) /\ Turn(m) < Turn(txEnd)
                        /\ Logged("start", file'[m].session)
    <3>1. CASE n # b
      BY <1>6, <2>3, <3>1
    <3>2. CASE n = b
      <4>1. file[b].session # 0 /\ file[b] # NoTx
        BY <2>3, <3>2, AbsentUnlogged DEF JournalInv, Unlogged
      <4>2. file[b] \in Carriers /\ file[b].txNr = b /\ file[e] \in Carriers
        BY <1>4, <1>5, <4>1 DEF Carriers, Versions, ReportInv, OwnFile
      <4>3. file[b].session <= file[e].session
        BY <1>4, <1>5, <4>2 DEF JournalInv, Numbered
      <4>4. file[e].session # 0
        BY <4>1, <4>2, <4>3, CarrierType
      <4>5. Logged("start", file[e].session)
        BY <1>3, <1>5, <4>4 DEF JournalInv, Flagged
      <4>6. file'[e] = file[e] /\ Turn(r.txNr) <= Turn(e) /\ Turn(e) < Turn(txEnd)
        BY <1>4, <1>6, <2>1, <2>3, <3>2, Turns DEF TxNr
      <4> QED
        BY <1>4, <4>5, <4>6
    <3> QED
      BY <3>1, <3>2
  <2> QED
    BY <1>2, <1>9, <2>1, <2>2, <2>4 DEF Backed
<1>13. OpenLast'
  BY <1>3, <1>9, RestingClosed DEF OpenLast
<1>14. InSync'
  <2> SUFFICES ASSUME NEW p \in Live
               PROVE  \/ file'[obj[p].txNr] = obj[p]
                      \/ file'[obj[p].txNr] = NoTx /\ obj[p].session \in closed
    BY <1>2, <1>8 DEF InSync
  <2>1. obj[p].txNr \in TxNr
    BY CarrierType DEF Carriers, Versions
  <2>2. CASE obj[p].txNr # b
    BY <1>2, <1>6, <2>1, <2>2 DEF JournalInv, InSync
  <2>3. CASE obj[p].txNr = b
    <3>1. p # tx /\ p # work.o
      BY <1>3 DEF Live, Alive
    <3>2. PICK r \in Ops : r.session = obj[p].session /\ r.txNr = b
      BY <2>3, <3>1, ObjectOfOp
    <3> QED
      BY <1>6, <1>11, <2>1, <2>3, <3>2
  <2> QED
    BY <2>2, <2>3
<1>15. Attached' /\ NoneOpen' /\ Bounds' /\ Where'
  <2>1. Attached' /\ NoneOpen'
    BY <1>1, <1>2, <1>3, <1>8, AttachedSame DEF JournalInv, NoneOpen
  <2>2. Bounds'
    BY <1>2, <1>3 DEF JournalInv, Bounds
  <2>3. Where'
    BY <1>1, <1>2, <1>3, <1>4, <1>5, <1>6 DEF Where
  <2> QED
    BY <2>1, <2>2, <2>3
<1> QED
  BY <1>10, <1>12, <1>13, <1>14, <1>15 DEF JournalInv

LEMMA EvictSaveJournal ==
    ASSUME TypeInv, TypeInv', ReportInv, JournalInv, EvictSave
    PROVE  JournalInv'
<1> USE References
<1>1. /\ pc = "evicted" /\ pc' = "alloc" /\ txBegin' = NextNr(txBegin)
      /\ UNCHANGED <<txEnd, file, obj, queue, tx, work, sessions, opLog, closed>>
  BY DEF EvictSave, heap, history
<1>2. Allocating /\ tx = 0 /\ work.o = 0
  BY <1>1, EndOfJournal, RestingFree DEF Allocating
<1>3. /\ Turn(txBegin) + 1 < Turn(txEnd) /\ file[PrevNr(txEnd)] # NoTx /\ file[txBegin] = NoTx
      /\ Turn(txBegin) \in Nat /\ Turn(txEnd) \in Nat
      /\ Turn(txBegin') = Turn(txBegin) + 1
  <2>1. /\ Turn(txBegin) + 1 < Turn(txEnd) /\ file[PrevNr(txEnd)] # NoTx /\ file[txBegin] = NoTx
        /\ Turn(txBegin) \in Nat /\ Turn(txEnd) \in TxNr /\ TxCnt \in Nat
    BY <1>1, EndOfJournal, Turns, TxAssumption DEF JournalInv, Where
  <2>2. Turn(txBegin) + 1 < TxCnt /\ Turn(txEnd) \in Nat
    BY <2>1 DEF TxNr
  <2>3. Turn(txBegin') = Turn(txBegin) + 1
    BY <1>1, <2>2, EndOfJournal, Turns
  <2> QED
    BY <2>1, <2>2, <2>3
<1>4. Live' = Live /\ Versions' = Versions /\ Ops' = Ops /\ Carriers' = Carriers
  <2>1. Live' = Live
    BY <1>1 DEF Live, Alive
  <2> QED
    BY <1>1, <2>1 DEF Versions, Ops, Carriers
<1>5. \A k, s : Logged(k, s)' = Logged(k, s)
  BY <1>1 DEF Logged
<1>6. Numbered'
  <2> SUFFICES ASSUME NEW x \in Carriers, Turn(x.txNr) < Turn(txBegin')
               PROVE  x.session \in closed
    BY <1>1, <1>4 DEF JournalInv, Numbered
  <2>1. x.txNr \in TxNr /\ Turn(x.txNr) \in Nat
    BY CarrierType
  <2>2. CASE Turn(x.txNr) < Turn(txBegin)
    BY <2>2 DEF JournalInv, Numbered
  <2>3. CASE Turn(x.txNr) = Turn(txBegin)
    <3>1. x.txNr = txBegin /\ txBegin \in TxNr
      BY <2>1, <2>3, Turns, EndOfJournal
    <3> QED
      BY <1>2, <1>3, <3>1, MissingClosed
  <2> QED
    BY <1>3, <2>1, <2>2, <2>3
<1>7. /\ LogOrder' /\ OpenLast'
      /\ \A t \in Versions' : Flagged(t)'
      /\ \A r \in Ops' : Backed(r)'
  BY <1>1, <1>4, <1>5 DEF JournalInv, LogOrder, OpenLast, Flagged, Backed
<1>8. Attached' /\ InSync' /\ NoneOpen'
  BY <1>1, <1>2, <1>4, AttachedSame DEF JournalInv, InSync, NoneOpen, Resting
<1>9. Bounds' /\ Where'
  BY <1>1, <1>2, <1>3 DEF JournalInv, Bounds, Where
<1> QED
  BY <1>6, <1>7, <1>8, <1>9 DEF JournalInv

\* A device that is off has at most one transaction, the history of a device that was in use.
LEMMA InitJournal ==
    Init => JournalInv
<1> SUFFICES ASSUME Init PROVE JournalInv
  OBVIOUS
<1>1. /\ TxCnt \in Nat /\ FirstTxNr \in Nat /\ FirstTxNr < TxCnt /\ MaxSessions \in Nat
  BY TxAssumption
<1>2. /\ queue = <<>> /\ opLog = <<>> /\ closed = {} /\ sessions = 0 /\ pc = "off"
      /\ tx = 0 /\ work.o = 0 /\ Live = {} /\ Ops = {}
      /\ ~Allocating /\ \A k, s : ~Logged(k, s)
  BY DEF Init, Live, Alive, Ops, NoWork, Allocating, Logged
<1>3. /\ txBegin = Origin /\ txEnd = FirstTxNr /\ Turn(txBegin) = 0
      /\ Turn(txEnd) = IF FirstTxNr = 0 THEN 0 ELSE 1
  BY <1>1 DEF Init, Origin, Turn
<1>4. \A t \in Versions : /\ FirstTxNr # 0 /\ t.txNr = Origin /\ t.session = 0
                          /\ t.startReq /\ t.stopReq /\ ~t.silent
  <2>1. \A n \in TxNr : /\ OldTx(n).txNr = n /\ OldTx(n).session = 0
                        /\ OldTx(n).startReq /\ OldTx(n).stopReq /\ ~OldTx(n).silent
    BY DEF OldTx, NewTx
  <2>2. \A n \in TxNr : file[n] # NoTx => n = FirstTxNr - 1 /\ file[n] = OldTx(n)
    BY DEF Init
  <2>3. \A n \in TxNr : n = FirstTxNr - 1 => FirstTxNr # 0 /\ n = Origin
    BY <1>1 DEF TxNr, Origin
  <2> QED
    BY <1>2, <2>1, <2>2, <2>3 DEF Versions
<1>5. Numbered
  <2>1. \A x \in Carriers : x \in Versions
    BY <1>2 DEF Carriers
  <2> QED
    BY <1>3, <1>4, <2>1 DEF Numbered
<1>6. \A t \in Versions : Flagged(t)
  BY <1>2, <1>4 DEF Flagged
<1>7. Bounds /\ LogOrder /\ Attached /\ InSync
  BY <1>1, <1>2, <1>3 DEF Bounds, LogOrder, Attached, InSync
<1>8. NoneOpen /\ OpenLast /\ Where
  BY <1>2 DEF NoneOpen, Resting, OpenLast, Where, Places
<1> QED
  BY <1>2, <1>5, <1>6, <1>7, <1>8 DEF JournalInv

\* Only a restore that fails loses a message, and none is found again; nor is a session forgotten
\* that was left under its Authorize request.
LEMMA LostGrows ==
    ASSUME [Next]_vars, Undisturbed'
    PROVE  Undisturbed /\ ~RestoreFails
<1> USE DEF Undisturbed
<1>1. CASE \E how \in How : Begin(how)
  BY <1>1 DEF Begin, history, RestoreFails
<1>2. CASE Trim \/ TrimSave \/ TrimEnd \/ Evict \/ EvictSave \/ Refuse
  BY <1>2 DEF Trim, TrimSave, TrimEnd, Evict, EvictSave, Refuse, history, RestoreFails
<1>3. CASE (\E o \in ObjId : Create(o) \/ CreateSilent(o)) \/ CreateCommit \/ BeginCommit
  BY <1>3 DEF Create, CreateSilent, CreateTransaction, CreateCommit, BeginCommit, history,
     RestoreFails
<1>4. CASE End \/ Collect
  BY <1>4 DEF End, EndTransaction, EvDisconnects, ConnectionTimeout, DeAuthorize, Deactivate,
     Collect, CollectAborted, CollectSave, CollectCompleted, RollBack, history, RestoreFails
<1>5. CASE Charge
  BY <1>5 DEF Charge, StartTx, StartSilent, StopTx, StopSilent, SilentSave, RollBack, Initiate,
     InitiateOp, InitiateTx, history, RestoreFails
<1>6. CASE Authorize \/ Answer
  BY <1>6 DEF Authorize, AuthTimeout, AuthAnswer, AuthCallback, AuthError, Answer, StartConf,
     StopConf, Confirm, StartError, Pop, history, RestoreFails
<1>7. CASE PowerCut \/ Register \/ Panic \/ (\E o \in ObjId : Boot(o) \/ Restore(o))
  BY <1>7 DEF PowerCut, Reset, Register, Panic, Boot, Restore, history, RestoreFails
<1>8. CASE RestoreFails
  BY <1>8 DEF RestoreFails
<1>9. CASE UNCHANGED vars
  BY <1>9 DEF vars, history, RestoreFails
<1> QED
  BY <1>1, <1>2, <1>3, <1>4, <1>5, <1>6, <1>7, <1>8, <1>9 DEF Next, Allocate, Recover

\* Every step keeps the invariant of the journal, as long as the device is undisturbed.
LEMMA NextJournal ==
    ASSUME JournalAssumption, TypeInv, TypeInv', ReportInv, ReportInv', JournalInv,
           [Next]_vars, ~RestoreFails, stranded' = {}
    PROVE  JournalInv'
<1>1. CASE (\E how \in How : Begin(how)) \/ Allocate
  BY <1>1, AllocateJournal, ShrinkJournal, CreateJournal, EvictJournal, EvictSaveJournal,
     CommitJournal DEF Allocate
<1>2. CASE End \/ Collect
  BY <1>2, EndJournal, DropJournal, ShrinkJournal, CompletedJournal DEF Collect
<1>3. CASE Charge
  <2>1. ASSUME Initiate PROVE JournalInv'
    <3>1. CASE pc = "start1" \/ pc = "stop1"
      BY <2>1, <3>1, InitiateOpJournal DEF Initiate
    <3>2. CASE pc = "start2" \/ pc = "stop2"
      <4>1. obj[work.o] \in Tx
        BY <3>2 DEF TypeInv, HasObject, TypeOK, Work
      <4>2. /\ [obj[work.o] EXCEPT !.startReq = TRUE] \in Tx
            /\ [obj[work.o] EXCEPT !.stopReq = TRUE] \in Tx
        BY <4>1, FlagType
      <4> QED
        BY <2>1, <3>2, <4>2, InitiateTxJournal DEF Initiate
    <3> QED
      BY <2>1, <3>1, <3>2 DEF Initiate
  <2> QED
    BY <1>3, <2>1, ChargeJournal, DropJournal, ShrinkJournal DEF Charge
<1>4. CASE Authorize \/ Answer
  BY <1>4, AuthorizeJournal, AnswerJournal
<1>5. CASE PowerCut \/ Recover
  BY <1>5, CutJournal, AuthorizeJournal, BootJournal, RestoreJournal DEF Recover
<1>6. CASE UNCHANGED vars
  <2>1. /\ \A k, s : Logged(k, s)' = Logged(k, s)
        /\ Live' = Live /\ Versions' = Versions /\ Ops' = Ops /\ Carriers' = Carriers
        /\ Allocating' = Allocating
    BY <1>6 DEF vars, flash, heap, ctl, history, Logged, Live, Versions, Ops, Carriers, Alive,
       Allocating
  <2>2. /\ Bounds' /\ Numbered' /\ LogOrder'
        /\ \A t \in Versions' : Flagged(t)'
        /\ \A r \in Ops' : Backed(r)'
    BY <1>6, <2>1 DEF JournalInv, Bounds, Numbered, LogOrder, Flagged, Backed, vars, flash, history
  <2>3. Attached' /\ InSync' /\ NoneOpen' /\ OpenLast'
    BY <1>6, <2>1 DEF JournalInv, Attached, Followed, Awaited, InSync, NoneOpen, Resting, OpenLast,
       vars, flash, heap,
       ctl, history
  <2>4. Where'
    BY <1>6, <2>1 DEF JournalInv, Where, vars, flash, heap, ctl
  <2> QED
    BY <2>2, <2>3, <2>4 DEF JournalInv
<1> QED
  BY <1>1, <1>2, <1>3, <1>4, <1>5, <1>6 DEF Next

-----------------------------------------------------------------------------
(* The theorems *)

LEMMA AlwaysJournal ==
    ASSUME JournalAssumption
    PROVE  Spec => [](TypeInv /\ ReportInv /\ (Undisturbed => JournalInv))
<1> DEFINE Inv == TypeInv /\ ReportInv /\ (Undisturbed => JournalInv)
<1>1. Init => Inv
  BY InitTypeInv, InitReport, InitJournal
<1>2. Inv /\ [Next]_vars => Inv'
  <2> SUFFICES ASSUME Inv, [Next]_vars PROVE Inv'
    OBVIOUS
  <2>1. TypeInv' /\ ReportInv'
    BY NextTypeInv, NextReport DEF JournalAssumption
  <2>2. ASSUME Undisturbed' PROVE JournalInv'
    BY <2>1, <2>2, LostGrows, NextJournal DEF Undisturbed
  <2> QED
    BY <2>1, <2>2
<1> QED
  BY <1>1, <1>2, PTL DEF Spec

\* No transaction file leaks (ConnectorTransactionStore): as long as no message was lost and no
\* number given back under a pending Authorize request, every file lies between txBegin and
\* txEnd, where the clean-up and the eviction find it, but for a transaction of which the server
\* answered the StopTransaction with an error.
THEOREM NoneLeaks ==
    ASSUME JournalAssumption
    PROVE  Spec => []NoLeak
<1>1. ASSUME TypeInv, ReportInv, JournalInv, NEW n \in TxNr, file[n] # NoTx
      PROVE  InJournal(n) \/ file[n].session \in closed
  <2>1. file[n] \in Carriers /\ file[n].txNr = n
    BY <1>1 DEF Carriers, Versions, ReportInv, OwnFile
  <2>2. /\ Turn(n) < Turn(txEnd)
        /\ Turn(n) < Turn(txBegin) => file[n].session \in closed
    BY <1>1, <2>1 DEF JournalInv, Numbered
  <2>3. Turn(n) \in Nat /\ Turn(txBegin) \in Nat
    BY <1>1, Turns, EndOfJournal DEF TxNr
  <2>4. Turn(txBegin) <= Turn(n) => InJournal(n)
    BY <1>1, <2>2, EndOfJournal, JournalTurns DEF JournalInv, Bounds
  <2> QED
    BY <2>2, <2>3, <2>4
<1>2. TypeInv /\ ReportInv /\ (Undisturbed => JournalInv) => NoLeak
  BY <1>1 DEF NoLeak
<1> QED
  BY <1>2, AlwaysJournal, PTL

\* A session that the server was told of and not told to be over is kept (the recovery of the
\* connector's transaction at boot): as long as no message was lost and no number given back
\* under a pending Authorize request, it is the latest of the journal, in flash, and marked as
\* started, but between the StartTransaction and its flag.
THEOREM OpenKept ==
    ASSUME JournalAssumption
    PROVE  Spec => []OpenStays
<1>1. ASSUME TypeInv, ReportInv, JournalInv, NEW s \in 1..sessions,
             Logged("start", s), ~Logged("stop", s)
      PROVE  /\ file[PrevNr(txEnd)].session = s
             /\ file[PrevNr(txEnd)].startReq \/ pc = "start2"
  <2>1. PICK n \in TxNr : n = PrevNr(txEnd)
    BY <1>1, EndOfJournal
  <2>2. file[n].session = s /\ s # 0
    BY <1>1, <2>1 DEF JournalInv, OpenLast, TypeInv, TypeOK
  <2>3. file[n] \in Versions
    BY <1>1, <2>2, AbsentUnlogged DEF JournalInv, Versions
  <2> QED
    BY <1>1, <2>1, <2>2, <2>3 DEF ReportInv, Noted
<1>2. TypeInv /\ ReportInv /\ (Undisturbed => JournalInv) => OpenStays
  BY <1>1 DEF OpenStays, OpenIsKept, Undisturbed
<1> QED
  BY <1>2, AlwaysJournal, PTL

\* A pending message finds its own transaction (the restore of StartTransaction and
\* StopTransaction): as long as no message was lost and no number given back under a pending
\* Authorize request, the file with the number of an op file is of the session of the op file,
\* unless the server answered the StopTransaction.
THEOREM NoneDangles ==
    ASSUME JournalAssumption
    PROVE  Spec => []NoDangling
<1>1. ASSUME JournalInv, NEW i \in DOMAIN queue, InFlash(queue[i])
      PROVE  file[queue[i].txNr].session = queue[i].session \/ queue[i].session \in closed
  <2>1. queue[i] \in Ops
    BY <1>1 DEF Ops
  <2> QED
    BY <1>1, <2>1 DEF JournalInv, Backed
<1>2. TypeInv /\ ReportInv /\ (Undisturbed => JournalInv) => NoDangling
  BY <1>1 DEF NoDangling
<1> QED
  BY <1>2, AlwaysJournal, PTL

=============================================================================
