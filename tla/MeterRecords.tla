---------------------------- MODULE MeterRecords ----------------------------
(***************************************************************************)
(* The meter values of a connector: those that are sent as they are taken  *)
(* (MeteringConnector, MeterValues), and those that are recorded in flash, *)
(* one file each, for the StopTransaction (MeterStore,                     *)
(* TransactionMeterData, StopTransaction::restore).                        *)
(*                                                                         *)
(* Of the transaction process, which TxProcess models in full, this module *)
(* has the journal of numbers, the pending StartTransactions and           *)
(* StopTransactions in their order, and what a power cut leaves of them.   *)
(***************************************************************************)
EXTENDS Flash, SequencesExt

CONSTANTS
    Sessions,       \* bound: the sessions, numbered from 1
    TxCnt,          \* MAX_TX_CNT: the transaction numbers wrap here
    RecordSize,     \* MO_TXRECORD_SIZE: the transactions that the journal holds
    MaxData,        \* MO_MAX_STOPTXDATA_LEN: the values recorded of a transaction
    MissesLimit,    \* MISSES_LIMIT: the missing files that end a search
    CacheSize,      \* MeterValueCacheSize
    InTxOnly        \* the values that MeterValuesInTxOnly may have

TxNr == 0..(TxCnt - 1)
Index == 0..(MaxData - 1)

ASSUME MeterAssumption ==
    /\ IsFiniteSet(Sessions) /\ Sessions = 1..Cardinality(Sessions)
    /\ TxCnt \in Nat /\ RecordSize \in Nat \ {0} /\ RecordSize + 1 < TxCnt
    /\ MaxData \in Nat \ {0} /\ MissesLimit \in Nat \ {0} /\ CacheSize \in Nat \ {0}
    /\ InTxOnly \subseteq BOOLEAN /\ {"session", "sample"} \subseteq Operations

VARIABLES
    meterFile,   \* flash: the files of recorded values, by number and index
    ses,         \* the sessions with their transactions and requests (see Session)
    journal,     \* flash: the sessions in the journal, oldest first
    nextNr,      \* flash: the next transaction number
    tx,          \* RAM: the session of the connector's transaction, or 0
    rec,         \* RAM: stopTxnData
    meterData,   \* RAM: of the values that wait to be sent, the running transactions they were taken in, or 0
    transaction, \* RAM: the transaction under which they will be sent, or 0
    trackTxRunning, \* RAM
    turn,        \* the loop: the connectors first, then the metering
    doubt        \* history: numbers of which a transaction was discarded as silent

meterVars == <<meterFile, ses, journal, nextNr, tx, rec, meterData, transaction, trackTxRunning, turn, doubt>>

Value == [of : Sessions, n : Nat]

\* A file that holds no document holds no value.
ASSUME ValueAssumption == Lost \cap Value = {}

\* `start' and `stop': whether the request waits in RAM or only in flash; `data': the values of
\* the StopTransaction; history: the values taken so far, and whether a cut or a failed write
\* fell into the recording.
Session == [nr : TxNr, stage : {"none", "begun", "running", "ending", "over", "discarded"}, silent : BOOLEAN,
            start : {"none", "ram", "flash", "answered", "lost"}, stop : {"none", "ram", "flash", "answered", "lost"},
            data : Seq(Value), taken : Nat, cut : BOOLEAN, failed : BOOLEAN]
NewSession(nr, stage) ==
    [nr |-> nr, stage |-> stage, silent |-> FALSE, start |-> "none", stop |-> "none",
     data |-> <<>>, taken |-> 0, cut |-> FALSE, failed |-> FALSE]

Running(s) == s # 0 /\ ses[s].stage \in {"running", "ending"}

-----------------------------------------------------------------------------
(* TransactionMeterData and MeterStore; r, f: a record and the files *)

Record(nr) == [nr |-> nr, mvCount |-> 0, finalized |-> FALSE, txData |-> <<>>]
NoRecord == Record(-1)

Full(r) == r.mvCount >= MaxData
Place(r) == IF Full(r) THEN r.mvCount - 1 ELSE r.mvCount

\* Mutants: once the record is full, a value is added nevertheless, or ignored.
WithMore(r, v) == [r EXCEPT !.txData = Append(@, v), !.mvCount = IF Full(r) THEN @ ELSE @ + 1]
WithFirst(r, v) == IF Full(r) THEN r ELSE [r EXCEPT !.txData = Append(@, v), !.mvCount = @ + 1]

With(r, v) ==
    IF Full(r) THEN [r EXCEPT !.txData[Len(r.txData)] = v]
    ELSE [r EXCEPT !.txData = Append(@, v), !.mvCount = @ + 1]

\* addTxData
Add(r, f, v, outcome) ==
    IF r.finalized THEN [rec |-> r, file |-> f]
    ELSE [rec |-> IF outcome = "ok" THEN With(r, v) ELSE r,
          file |-> [f EXCEPT ![r.nr][Place(r)] = Stored(outcome, @, v)]]

\* restore: the values of the files in their order; the count is the index of the last one.
Restored(nr, f) ==
    LET Look(s, i) ==
            IF s.misses >= MissesLimit THEN s
            ELSE LET g == [s.file EXCEPT ![nr][i] = AfterLoad(@)]
                 IN  IF Loads(f[nr][i])
                     THEN [rec |-> [s.rec EXCEPT !.txData = Append(@, f[nr][i]), !.mvCount = i],
                           file |-> g, misses |-> 0]
                     ELSE [s EXCEPT !.file = g, !.misses = @ + 1]
        end == FoldLeft(Look, [rec |-> Record(nr), file |-> f, misses |-> 0], [i \in 1..MaxData |-> i - 1])
    IN  [rec |-> end.rec, file |-> end.file]

\* getTxMeterData
Fetched(nr) ==
    IF rec.nr = nr THEN [rec |-> rec, file |-> meterFile]
    ELSE IF meterFile[nr][0] = Missing THEN [rec |-> Record(nr), file |-> meterFile]
    ELSE Restored(nr, meterFile)

\* remove: the files up to the count of a record in RAM, else those that a search finds.
Counted(r, nr, f) ==
    LET Look(s, i) ==
            IF s.misses >= MissesLimit THEN s
            ELSE IF f[nr][i] = Missing THEN [s EXCEPT !.misses = @ + 1]
            ELSE [count |-> i + 1, misses |-> 0]
    IN  IF r.nr = nr /\ r.mvCount > 0 THEN r.mvCount
        ELSE FoldLeft(Look, [count |-> 0, misses |-> 0], [i \in 1..MaxData |-> i - 1]).count

Gone(r, nr, f) == [f EXCEPT ![nr] = [i \in Index |-> IF i < Counted(r, nr, f) THEN Missing ELSE @[i]]]
RemoveSucceeds(r, nr, f) == \A i \in 0..(Counted(r, nr, f) - 1) : f[nr][i] # Missing
Finalized(r, nr) == IF r.nr = nr THEN [r EXCEPT !.finalized = TRUE] ELSE r

-----------------------------------------------------------------------------
(* The connector *)

\* allocateTransaction: dangling silent transactions are removed from the end of the journal,
\* and the oldest one if it is full and that one is completed.
Journal(j, nr, r, f) == [journal |-> j, nextNr |-> nr, rec |-> r, file |-> f]

Trimmed ==
    LET Look(st, s) ==
            IF st.journal = <<>> \/ Last(st.journal) # s \/ ~ses[s].silent
               \/ ~RemoveSucceeds(st.rec, ses[s].nr, st.file)
            THEN [st EXCEPT !.file =
                    IF st.journal # <<>> /\ Last(st.journal) = s /\ ses[s].silent
                    THEN Gone(st.rec, ses[s].nr, @) ELSE @]
            ELSE Journal(Front(st.journal), ses[s].nr, Finalized(st.rec, ses[s].nr), Gone(st.rec, ses[s].nr, st.file))
    IN  FoldLeft(Look, Journal(journal, nextNr, rec, meterFile), Reverse(journal))

Evicted(st) ==
    LET s == Head(st.journal)
    IN  IF Len(st.journal) < RecordSize \/ ses[s].stop # "answered" THEN st
        ELSE Journal(IF RemoveSucceeds(st.rec, ses[s].nr, st.file) THEN Tail(st.journal) ELSE st.journal,
                     st.nextNr, Finalized(st.rec, ses[s].nr), Gone(st.rec, ses[s].nr, st.file))

BeginTransaction(s) ==
    LET st == Evicted(Trimmed)
        allocated == Len(st.journal) < RecordSize
    IN  /\ up /\ tx = 0
        /\ ses[s].stage = "none" /\ \A p \in Sessions : p < s => ses[p].stage # "none"
        /\ Spend("session")
        /\ rec' = st.rec /\ meterFile' = st.file
        /\ IF allocated
           THEN /\ journal' = Append(st.journal, s) /\ nextNr' = (st.nextNr + 1) % TxCnt
                /\ ses' = [ses EXCEPT ![s] = NewSession(st.nextNr, "begun")]
                /\ tx' = s
           ELSE journal' = st.journal /\ nextNr' = st.nextNr /\ UNCHANGED <<ses, tx>>
        /\ UNCHANGED <<meterData, transaction, trackTxRunning, turn, doubt>>

EndTransaction ==
    /\ up /\ tx # 0 /\ ses[tx].stage = "running"
    /\ ses' = [ses EXCEPT ![tx].stage = "ending"]
    /\ UNCHANGED <<meterFile, journal, nextNr, tx, rec, meterData, transaction, trackTxRunning, turn, doubt, budget>>

\* A value of session s is taken and recorded, n times.
Taken(s, n, outcome) ==
    LET Look(st, k) == Add(st.rec, st.file, [of |-> s, n |-> ses[s].taken + k], outcome)
    IN  FoldLeft(Look, Fetched(ses[s].nr), [k \in 1..n |-> k])
Counting(s, n, outcome) == [ses[s] EXCEPT !.taken = @ + n, !.failed = @ \/ (n > 0 /\ outcome # "ok")]

\* beginTxMeterData, and the StartTransaction is initiated.
StartTx(outcome) ==
    LET st == Taken(tx, 1, outcome)
    IN  /\ tx # 0 /\ ses[tx].stage = "begun"
        /\ SpendFor("sample", outcome)
        /\ rec' = st.rec /\ meterFile' = st.file
        /\ ses' = [ses EXCEPT ![tx] = [Counting(tx, 1, outcome) EXCEPT !.stage = "running", !.start = "ram"]]
        /\ UNCHANGED <<journal, nextNr, tx, doubt>>

\* endTxMeterData, retrieveStopTxData, and the StopTransaction is initiated.
StopTx(outcome) ==
    LET st == Taken(tx, 1, outcome)
    IN  /\ tx # 0 /\ ses[tx].stage = "ending" /\ ~ses[tx].silent
        /\ SpendFor("sample", outcome)
        /\ rec' = NoRecord /\ meterFile' = st.file
        /\ ses' = [ses EXCEPT ![tx] = [Counting(tx, 1, outcome) EXCEPT !.stage = "over", !.stop = "ram",
                                         !.data = IF st.rec.finalized THEN <<>> ELSE st.rec.txData]]
        /\ tx' = 0
        /\ UNCHANGED <<journal, nextNr, doubt>>

\* A silent transaction is discarded, its number used again; what the metering holds of it stays.
StopSilent ==
    /\ tx # 0 /\ ses[tx].stage = "ending" /\ ses[tx].silent
    /\ rec' = Finalized(rec, ses[tx].nr) /\ meterFile' = Gone(rec, ses[tx].nr, meterFile)
    /\ journal' = Front(journal) /\ nextNr' = ses[tx].nr
    /\ doubt' = doubt \cup {ses[tx].nr}
    /\ ses' = [ses EXCEPT ![tx].stage = "discarded"]
    /\ tx' = 0
    /\ UNCHANGED budget

\* A completed transaction is left; or there is nothing to do.
Idle ==
    /\ tx' = IF tx # 0 /\ ses[tx].stop = "answered" THEN 0 ELSE tx
    /\ UNCHANGED <<meterFile, ses, journal, nextNr, rec, doubt, budget>>

ConnectorLoop ==
    /\ up /\ turn = "connector" /\ turn' = "metering"
    /\ Idle \/ StopSilent \/ \E outcome \in Outcomes : StartTx(outcome) \/ StopTx(outcome)
    /\ UNCHANGED <<meterData, transaction, trackTxRunning>>

-----------------------------------------------------------------------------
(* MeteringConnector::loop *)

TxBreak == Running(tx) # trackTxRunning

\* Mutant: what was taken in a transaction is not sent at its end.
FlushFull == meterData # <<>> /\ Len(meterData) >= CacheSize

\* The values that wait are sent under the transaction that they were taken in.
Flush == meterData # <<>> /\ (TxBreak \/ Len(meterData) >= CacheSize)

SendMeterValues ==
    /\ Flush
    /\ meterData' = <<>>
    /\ UNCHANGED <<meterFile, ses, rec, transaction, budget>>

\* In a transaction, and outside if not InTxOnly: as many values as are due are taken for the
\* server, and as many as are configured are recorded.
TakeValues(only, due, recorded, outcome) ==
    LET inTx == Running(tx) /\ ~ses[tx].silent
        r == IF inTx THEN Fetched(ses[tx].nr) ELSE [rec |-> rec, file |-> meterFile]
        s == IF inTx THEN tx ELSE 0
        kept == IF inTx THEN recorded ELSE 0
        st == IF kept > 0 THEN Taken(tx, kept, outcome) ELSE r
    IN  /\ ~Flush
        /\ recorded <= due /\ (inTx \/ ~only) /\ (due > 0 \/ outcome = "ok")
        /\ IF due > 0 THEN SpendFor("sample", outcome) ELSE UNCHANGED budget
        /\ transaction' = tx
        /\ rec' = st.rec /\ meterFile' = st.file
        /\ meterData' = meterData \o [i \in 1..due |-> s]
        /\ ses' = IF inTx THEN [ses EXCEPT ![tx] = Counting(tx, kept, outcome)] ELSE ses

\* Outside of transactions nothing is taken, and what waits is dropped.
DropValues ==
    /\ ~Flush /\ ~(Running(tx) /\ ~ses[tx].silent) /\ TRUE \in InTxOnly
    /\ transaction' = tx /\ meterData' = <<>>
    /\ UNCHANGED <<meterFile, ses, rec, budget>>

MeteringLoop ==
    /\ up /\ turn = "metering" /\ turn' = "connector"
    /\ trackTxRunning' = Running(tx)
    /\ \/ SendMeterValues \/ DropValues
       \/ \E only \in InTxOnly, due, recorded \in 0..2, outcome \in Outcomes :
            TakeValues(only, due, recorded, outcome)
    /\ UNCHANGED <<journal, nextNr, tx, doubt>>

-----------------------------------------------------------------------------
(* Requests, power cuts *)

\* The requests are sent in the order of the sessions.
Waits(request) == request \in {"ram", "flash"}
First(s) == \A p \in Sessions : p < s => ~Waits(ses[p].start) /\ ~Waits(ses[p].stop)

\* RAM is lost; of the requests their records in flash remain.
MeterLost(sessions) ==
    /\ ses' = [s \in Sessions |->
                 [sessions[s] EXCEPT !.start = IF @ = "ram" THEN "flash" ELSE @,
                                     !.stop = IF @ = "ram" THEN "flash" ELSE @,
                                     !.data = IF sessions[s].stop = "ram" THEN <<>> ELSE @,
                                     !.cut = @ \/ Running(s)]]
    /\ tx' = 0 /\ rec' = NoRecord /\ meterData' = <<>> /\ transaction' = 0 /\ trackTxRunning' = FALSE
    /\ turn' = "connector"
    /\ UNCHANGED <<journal, nextNr>>

StartConf(s) ==
    /\ up /\ First(s) /\ Waits(ses[s].start)
    /\ ses' = [ses EXCEPT ![s].start = "answered"]
    /\ UNCHANGED <<meterFile, journal, nextNr, tx, rec, meterData, transaction, trackTxRunning, turn, doubt, up, budget>>

\* StartTransaction::restore of a transaction whose time is unknown: its record is removed and
\* it becomes silent; if another request is in flash, the search for it resets the charge point.
StartLost(s) ==
    LET nr == ses[s].nr
        lost == [ses EXCEPT ![s].start = "lost", ![s].silent = TRUE,
                            ![s].stage = IF @ = "running" THEN "ending" ELSE @]
        panic == Waits(ses[s].stop) \/ \E p \in Sessions : p > s /\ (Waits(ses[p].start) \/ Waits(ses[p].stop))
    IN  /\ up /\ First(s) /\ ses[s].start = "flash"
        /\ meterFile' = Gone(rec, nr, meterFile)
        /\ doubt' = doubt \cup {nr}
        /\ IF panic
           THEN up' = FALSE /\ MeterLost(lost)
           ELSE /\ ses' = lost /\ rec' = Finalized(rec, nr)
                /\ UNCHANGED <<journal, nextNr, tx, meterData, transaction, trackTxRunning, turn, up>>
        /\ UNCHANGED budget

\* StopTransaction::restore
StopRestored(s) ==
    LET st == Fetched(ses[s].nr)
    IN  /\ up /\ First(s) /\ ~Waits(ses[s].start) /\ ses[s].stop = "flash"
        /\ IF ses[s].silent
           THEN /\ ses' = [ses EXCEPT ![s].stop = "lost"]
                /\ meterFile' = Gone(rec, ses[s].nr, meterFile) /\ rec' = Finalized(rec, ses[s].nr)
           ELSE /\ ses' = [ses EXCEPT ![s].stop = "ram", ![s].data = IF st.rec.finalized THEN <<>> ELSE st.rec.txData]
                /\ meterFile' = st.file /\ rec' = IF rec.nr = ses[s].nr THEN [rec EXCEPT !.finalized = TRUE] ELSE rec
        /\ UNCHANGED <<journal, nextNr, tx, meterData, transaction, trackTxRunning, turn, doubt, up, budget>>

StopConf(s) ==
    /\ up /\ First(s) /\ ~Waits(ses[s].start) /\ ses[s].stop = "ram"
    /\ ses' = [ses EXCEPT ![s].stop = "answered"]
    /\ UNCHANGED <<meterFile, journal, nextNr, tx, rec, meterData, transaction, trackTxRunning, turn, doubt, up, budget>>

\* The power is cut between two steps ...
MeterCut == MeterLost(ses) /\ UNCHANGED <<meterFile, doubt>>

\* ... or while a value is written.
RecordingIsCut ==
    LET st == Fetched(ses[tx].nr)
        v == [of |-> tx, n |-> ses[tx].taken + 1]
    IN  /\ tx # 0 /\ ses[tx].stage \in {"begun", "running", "ending"} /\ ~ses[tx].silent /\ ~st.rec.finalized
        /\ budget["sample"] > 0
        /\ \E left \in {Empty, Torn, v} :
            meterFile' = [st.file EXCEPT ![ses[tx].nr][Place(st.rec)] = left]
        /\ MeterLost([ses EXCEPT ![tx].cut = TRUE, ![tx].taken = @ + 1])
        /\ UNCHANGED doubt

\* The connector goes on with the latest transaction of the journal.
MeterBoot ==
    /\ tx' = IF journal = <<>> THEN 0 ELSE Last(journal)
    /\ UNCHANGED <<meterFile, ses, journal, nextNr, rec, meterData, transaction, trackTxRunning, turn, doubt>>

MeterInit ==
    /\ meterFile = [nr \in TxNr |-> [i \in Index |-> Missing]]
    /\ ses = [s \in Sessions |-> NewSession(0, "none")]
    /\ journal = <<>> /\ nextNr = TxCnt - 1 /\ tx = 0 /\ rec = NoRecord
    /\ meterData = <<>> /\ transaction = 0 /\ trackTxRunning = FALSE /\ turn = "connector" /\ doubt = {}

MeterSteps ==
    \/ UNCHANGED up /\ (ConnectorLoop \/ MeteringLoop \/ EndTransaction)
    \/ \E s \in Sessions :
        \/ BeginTransaction(s) /\ UNCHANGED up
        \/ StartConf(s) \/ StartLost(s) \/ StopRestored(s) \/ StopConf(s)

-----------------------------------------------------------------------------
(* Properties *)

MeterTypeOK ==
    /\ \A nr \in TxNr, i \in Index : meterFile[nr][i] \in Lost \/ meterFile[nr][i] \in Value
    /\ ses \in [Sessions -> Session] /\ journal \in Seq(Sessions) /\ Len(journal) <= RecordSize
    /\ nextNr \in TxNr /\ {tx, transaction} \subseteq Sessions \cup {0}
    /\ rec.nr \in TxNr \cup {-1} /\ rec.mvCount \in 0..MaxData /\ Len(rec.txData) <= MaxData + 1
    /\ \A i \in DOMAIN meterData : meterData[i] \in Sessions \cup {0}

Sent(s) == ses[s].stop \in {"ram", "answered"} /\ ses[s].nr \notin doubt

\* The values of a StopTransaction are values of its own transaction in the order in which
\* they were taken, and unless a write failed the last one is the value at the end.
\* (MeterStore::getTxMeterData and remove, TransactionMeterData::restore)
OwnValues ==
    \A s \in Sessions : Sent(s) =>
        LET data == ses[s].data
        IN  /\ \A i \in DOMAIN data : data[i].of = s /\ (i > 1 => data[i - 1].n < data[i].n)
            /\ ~ses[s].failed => data # <<>> /\ Last(data).n = ses[s].taken

\* A transaction during which the power was not cut and no write failed is reported with its
\* first values and its last, also by a StopTransaction that outlived a power cut.
\* (TransactionMeterData::addTxData, StopTransaction::restore)
WholeRecord ==
    \A s \in Sessions : Sent(s) /\ ~ses[s].cut /\ ~ses[s].failed =>
        ses[s].data = [i \in 1..(IF ses[s].taken > MaxData THEN MaxData ELSE ses[s].taken) |->
                        [of |-> s, n |-> IF i = MaxData THEN ses[s].taken ELSE i]]

\* Values that were taken in a running transaction are sent under no other.
\* (MeteringConnector::loop)
Attributed == \A i \in DOMAIN meterData : meterData[i] \in {0, transaction}

=============================================================================
