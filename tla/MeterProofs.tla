---------------------------- MODULE MeterProofs -----------------------------
(***************************************************************************)
(* What is proved of the meter values, for any number of sessions and cuts *)
(* and every length of the journal and of the records: a StopTransaction   *)
(* reports values of its own transaction, in their order and up to its     *)
(* end, all of them if nothing disturbed it; and values that wait to be    *)
(* sent go under the transaction that they were taken in.                  *)
(*                                                                         *)
(* The invariant Recorded ties the journal, its numbers, the files and the *)
(* record in RAM to the sessions.  The searches of the code are folds; by  *)
(* FoldProofs each is what its steps make of its base.                     *)
(***************************************************************************)
EXTENDS Storage, FoldProofs, FiniteSetTheorems, SequenceTheorems

-----------------------------------------------------------------------------
(* The types of the records *)

NrOrNone == TxNr \cup {-1}
MeterFiles == [TxNr -> [Index -> Lost \cup Value]]

\* A record never has more than one value beyond its count.
Recording == {r \in [nr : NrOrNone, mvCount : 0..MaxData, finalized : BOOLEAN, txData : Seq(Value)] :
                Len(r.txData) <= r.mvCount + 1}

\* What the assumptions say of the numbers and places.
LEMMA MeterConstants ==
    /\ TxCnt \in Nat /\ TxCnt > 2 /\ RecordSize \in Nat \ {0} /\ MaxData \in Nat \ {0}
    /\ TxNr = 0..(TxCnt - 1) /\ 0 \in TxNr /\ -1 \notin TxNr /\ TxCnt - 1 \in TxNr
    /\ Index = 0..(MaxData - 1) /\ 0 \in Index
    /\ Sessions \subseteq Nat \ {0}
<1>1. TxCnt \in Nat /\ RecordSize \in Nat \ {0} /\ RecordSize + 1 < TxCnt /\ MaxData \in Nat \ {0}
  BY MeterAssumption
<1>2. Sessions \subseteq Nat \ {0}
  <2>1. Sessions = 1..Cardinality(Sessions)
    BY MeterAssumption
  <2> DEFINE n == Cardinality(Sessions)
  <2>2. 1..n \subseteq Nat \ {0}
    <3>1. IsFiniteSet(Sessions)
      BY MeterAssumption
    <3>2. n \in Nat
      BY <3>1, FS_CardinalityType
    <3> HIDE DEF n
    <3> QED
      BY <3>2
  <2> QED
    BY <2>1, <2>2
<1> QED
  BY <1>1, <1>2 DEF TxNr, Index

\* A value is written to a file that exists.
LEMMA PlaceIs ==
    ASSUME NEW r, r.mvCount \in 0..MaxData
    PROVE  Place(r) \in Index
BY MeterConstants DEF Place, Full

\* A value that is added stays within the bound of the record.
LEMMA WithType ==
    ASSUME NEW r \in Recording, NEW v \in Value
    PROVE  With(r, v) \in Recording /\ With(r, v).nr = r.nr
<1>0. /\ r \in [nr : NrOrNone, mvCount : 0..MaxData, finalized : BOOLEAN, txData : Seq(Value)]
      /\ r.txData \in Seq(Value) /\ r.mvCount \in 0..MaxData /\ Len(r.txData) <= r.mvCount + 1
      /\ MaxData \in Nat
  BY MeterConstants DEF Recording
<1>1. CASE Full(r)
  <2> DEFINE d == [r.txData EXCEPT ![Len(r.txData)] = v]
  <2>1. d \in Seq(Value) /\ Len(d) = Len(r.txData)
    <3>1. CASE r.txData = <<>>
      <4>1. d = r.txData
        BY <3>1
      <4> QED
        BY <1>0, <4>1
    <3>2. CASE r.txData # <<>>
      <4>1. Len(r.txData) \in 1..Len(r.txData)
        BY <1>0, <3>2
      <4> QED
        BY <1>0, <4>1, ExceptSeq
    <3> QED
      BY <3>1, <3>2
  <2>2. With(r, v) = [r EXCEPT !.txData = d]
    BY <1>0, <1>1, Zenon DEF With
  <2> HIDE DEF d
  <2> QED
    BY <1>0, <2>1, <2>2 DEF Recording
<1>2. CASE ~Full(r)
  <2> DEFINE d == Append(r.txData, v)
  <2>1. d \in Seq(Value) /\ Len(d) = Len(r.txData) + 1
    BY <1>0
  <2>2. With(r, v) = [r EXCEPT !.txData = d, !.mvCount = @ + 1]
    BY <1>2, Zenon DEF With
  <2>3. r.mvCount + 1 \in 0..MaxData
    BY <1>0, <1>2 DEF Full
  <2> HIDE DEF d
  <2> DEFINE m == r.mvCount + 1
  <2>4. With(r, v) = [r EXCEPT !.txData = d, !.mvCount = m]
    BY <2>2
  <2>5. m \in 0..MaxData /\ Len(d) <= m + 1
    BY <1>0, <2>1, <2>3
  <2> HIDE DEF m
  <2> QED
    BY <1>0, <2>1, <2>4, <2>5 DEF Recording
<1> QED
  BY <1>1, <1>2

\* addTxData keeps the types.
LEMMA AddType ==
    ASSUME NEW r \in Recording, NEW f \in MeterFiles, NEW v \in Value, NEW outcome \in Outcomes
    PROVE  /\ Add(r, f, v, outcome) \in [rec : Recording, file : MeterFiles]
           /\ Add(r, f, v, outcome).rec.nr = r.nr
<1>1. With(r, v) \in Recording /\ With(r, v).nr = r.nr
  BY WithType
<1> DEFINE g == [f EXCEPT ![r.nr][Place(r)] = Stored(outcome, @, v)]
<1>2. g \in MeterFiles
  <2>1. \A nr \in TxNr : \A i \in Index : Stored(outcome, f[nr][i], v) \in Lost \cup Value
    BY DEF MeterFiles, Stored, Lost
  <2> QED
    BY <2>1 DEF MeterFiles
<1>3. \/ Add(r, f, v, outcome) = [rec |-> r, file |-> f]
      \/ Add(r, f, v, outcome) = [rec |-> With(r, v), file |-> g]
      \/ Add(r, f, v, outcome) = [rec |-> r, file |-> g]
  BY DEF Add
<1> HIDE DEF g
<1> QED
  BY <1>1, <1>2, <1>3

-----------------------------------------------------------------------------
(* The folds, step by step *)

\* A file that was looked at is a file.
LEMMA FilesKept ==
    ASSUME NEW g \in MeterFiles, NEW nr \in TxNr, NEW i \in Index
    PROVE  [g EXCEPT ![nr][i] = AfterLoad(@)] \in MeterFiles
<1>1. AfterLoad(g[nr][i]) \in Lost \cup Value
  BY DEF MeterFiles, AfterLoad, Lost
<1> QED
  BY <1>1 DEF MeterFiles

\* restore looks for the file of value i.
RestoreStep(nr, f, s, i) ==
    IF s.misses >= MissesLimit THEN s
    ELSE LET g == [s.file EXCEPT ![nr][i] = AfterLoad(@)]
         IN  IF Loads(f[nr][i])
             THEN [rec |-> [s.rec EXCEPT !.txData = Append(@, f[nr][i]), !.mvCount = i],
                   file |-> g, misses |-> 0]
             ELSE [s EXCEPT !.file = g, !.misses = @ + 1]
RestoreBase(nr, f) == [rec |-> Record(nr), file |-> f, misses |-> 0]
NewRecords(nr) == [nr : {nr}, mvCount : 0..MaxData, finalized : {FALSE}, txData : Seq(Value)]
Restoring(nr) == [rec : NewRecords(nr), file : MeterFiles, misses : Nat]

\* One look of the search for the files of a number.
LEMMA RestoreStepType ==
    ASSUME NEW nr \in TxNr, NEW f \in MeterFiles, NEW s \in Restoring(nr), NEW i \in Index
    PROVE  RestoreStep(nr, f, s, i) \in Restoring(nr)
<1> DEFINE g == [s.file EXCEPT ![nr][i] = AfterLoad(@)]
           d == Append(s.rec.txData, f[nr][i])
           r == [s.rec EXCEPT !.txData = Append(@, f[nr][i]), !.mvCount = i]
<1>1. g \in MeterFiles
  BY FilesKept DEF Restoring
<1>2. s.misses + 1 \in Nat
  BY DEF Restoring
<1>3. CASE s.misses >= MissesLimit
  BY <1>3 DEF RestoreStep
<1>4. CASE ~(s.misses >= MissesLimit) /\ Loads(f[nr][i])
  <2>1. RestoreStep(nr, f, s, i) = [rec |-> r, file |-> g, misses |-> 0]
    BY <1>4, Zenon DEF RestoreStep
  <2>2. f[nr][i] \in Value
    BY <1>4 DEF MeterFiles, Loads
  <2>3. d \in Seq(Value) /\ i \in 0..MaxData
    BY <2>2, MeterConstants DEF Restoring, NewRecords
  <2>4. r = [s.rec EXCEPT !.txData = d, !.mvCount = i]
    OBVIOUS
  <2> HIDE DEF g, d
  <2>5. r \in NewRecords(nr)
    BY <2>3, <2>4 DEF Restoring, NewRecords
  <2> HIDE DEF r
  <2> QED
    BY <1>1, <2>1, <2>5 DEF Restoring
<1>5. CASE ~(s.misses >= MissesLimit) /\ ~Loads(f[nr][i])
  <2> DEFINE m == s.misses + 1
  <2>1. RestoreStep(nr, f, s, i) = [s EXCEPT !.file = g, !.misses = m]
    BY <1>5, Zenon DEF RestoreStep
  <2>2. m \in Nat
    BY <1>2
  <2> HIDE DEF g, m
  <2>3. RestoreStep(nr, f, s, i) = [rec |-> s.rec, file |-> g, misses |-> m]
    BY <2>1 DEF Restoring
  <2> QED
    BY <1>1, <2>2, <2>3 DEF Restoring
<1> QED
  BY <1>3, <1>4, <1>5

\* restore goes through all indices.
LEMMA RestoreRuns ==
    ASSUME NEW nr \in TxNr, NEW f \in MeterFiles
    PROVE  \E g : /\ g[0] = RestoreBase(nr, f) /\ \A k \in 0..MaxData : g[k] \in Restoring(nr)
                  /\ \A k \in 1..MaxData : g[k] = RestoreStep(nr, f, g[k - 1], k - 1)
                  /\ Restored(nr, f) = [rec |-> g[MaxData].rec, file |-> g[MaxData].file]
<1> DEFINE n == MaxData
           T == Restoring(nr)
           base == RestoreBase(nr, f)
           elems == [i \in 1..MaxData |-> i - 1]
           next == [p \in T \X (1..n) |-> RestoreStep(nr, f, p[1], p[2] - 1)]
           Iter(C) == C = [u \in SUBSET DOMAIN elems |->
                             IF u = {} THEN base ELSE RestoreStep(nr, f, C[u \ {Max(u)}], elems[Max(u)])]
<1>1. n \in Nat /\ DOMAIN elems = 1..n /\ \A i \in 1..n : elems[i] \in Index /\ elems[i] = i - 1
  BY MeterConstants
<1>2. base \in T
  <2>1. Record(nr) \in NewRecords(nr)
    BY MeterConstants DEF Record, NewRecords
  <2> QED
    BY <2>1 DEF RestoreBase, Restoring
<1>3. next \in [T \X (1..n) -> T]
  <2>1. ASSUME NEW p \in T \X (1..n) PROVE RestoreStep(nr, f, p[1], p[2] - 1) \in T
    <3>1. p[1] \in T /\ p[2] \in 1..n /\ p[2] - 1 \in Index
      BY <1>1
    <3> QED
      BY <3>1, RestoreStepType
  <2> QED
    BY <2>1
<1>4. \E C : Iter(C)
  <2>1. PICK F \in [SUBSET (1..n) -> T] : Iterates(F, n, base, next)
    BY <1>1, <1>2, <1>3, FoldExists, Zenon
  <2>2. ASSUME NEW u \in SUBSET (1..n), u # {}
        PROVE  next[<<F[u \ {Max(u)}], Max(u)>>] = RestoreStep(nr, f, F[u \ {Max(u)}], elems[Max(u)])
    <3>1. Max(u) \in 1..n /\ elems[Max(u)] = Max(u) - 1
      BY <1>1, <2>2, MaxIn
    <3>2. <<F[u \ {Max(u)}], Max(u)>> \in T \X (1..n)
      BY <3>1
    <3> HIDE DEF elems, T, n
    <3>3. next[<<F[u \ {Max(u)}], Max(u)>>] = RestoreStep(nr, f, F[u \ {Max(u)}], Max(u) - 1)
      BY <3>2
    <3> QED
      BY <3>1, <3>3
  <2> HIDE DEF next, T, base, elems, n
  <2>3. Iter(F)
    BY <1>1, <2>1, <2>2 DEF Iterates
  <2> QED
    BY <2>3
<1>5. PICK C : Iter(C) /\ Restored(nr, f) = [rec |-> C[DOMAIN elems].rec, file |-> C[DOMAIN elems].file]
  BY <1>4, Zenon DEF Restored, FoldLeft, MapThenFoldSet, RestoreStep, RestoreBase
<1>6. C[{}] = base
  <2> HIDE DEF elems, base, n
  <2> QED
    BY <1>5
<1>7. ASSUME NEW k \in 1..n
      PROVE  C[1..k] = RestoreStep(nr, f, C[1..(k - 1)], k - 1)
  <2>1. 1..k \in SUBSET DOMAIN elems /\ 1..k # {} /\ Max(1..k) = k /\ (1..k) \ {Max(1..k)} = 1..(k - 1)
    BY <1>1, Places
  <2>2. elems[k] = k - 1
    BY <1>1
  <2> HIDE DEF elems, base, n
  <2>3. C[1..k] = RestoreStep(nr, f, C[(1..k) \ {Max(1..k)}], elems[Max(1..k)])
    BY <1>5, <2>1
  <2> QED
    BY <2>1, <2>2, <2>3
<1>8. \A k \in 1..n : C[1..(k - 1)] \in T => C[1..k] = next[<<C[1..(k - 1)], k>>]
  <2> HIDE DEF elems, base, n, T
  <2> QED
    BY <1>1, <1>7
<1>9. Follows(C, n, T, base, next)
  <2> HIDE DEF T, base, next, n, elems
  <2> QED
    BY <1>1, <1>2, <1>3, <1>6, <1>8 DEF Follows
<1>10. PICK g : Runs(g, n, T, base, next) /\ g[n] = C[1..n]
  <2> HIDE DEF T, base, next, n, elems
  <2> QED
    BY <1>9, FoldRuns
<1>11. Restored(nr, f) = [rec |-> C[1..n].rec, file |-> C[1..n].file]
  <2> HIDE DEF T, base, next, n
  <2> QED
    BY <1>1, <1>5
<1>12. Restored(nr, f) = [rec |-> g[n].rec, file |-> g[n].file]
  <2> HIDE DEF T, base, next, n, elems
  <2> QED
    BY <1>10, <1>11
<1>13. /\ g[0] = base /\ \A k \in 0..n : g[k] \in T
       /\ \A k \in 1..n : g[k] = next[<<g[k - 1], k>>] /\ g[k - 1] \in T
  <2> HIDE DEF T, base, next, n, elems
  <2> QED
    BY <1>1, <1>10 DEF Runs
<1>14. ASSUME NEW k \in 1..n PROVE g[k] = RestoreStep(nr, f, g[k - 1], k - 1)
  <2>1. <<g[k - 1], k>> \in T \X (1..n)
    BY <1>13
  <2> QED
    BY <1>13, <2>1
<1> QED
  BY <1>12, <1>13, <1>14, Zenon DEF n, T, base

\* What is taken is a value.
LEMMA NewValue ==
    ASSUME NEW s \in Sessions, NEW n \in Nat
    PROVE  [of |-> s, n |-> n] \in Value
BY DEF Value

\* A value of session s is taken.
Pairs == [rec : Recording, file : MeterFiles]
AddStep(s, outcome, st, k) == Add(st.rec, st.file, [of |-> s, n |-> ses[s].taken + k], outcome)

\* One value is recorded.
LEMMA AddStepType ==
    ASSUME NEW s \in Sessions, NEW outcome \in Outcomes, NEW st \in Pairs, NEW k \in Nat, ses[s].taken \in Nat
    PROVE  AddStep(s, outcome, st, k) \in Pairs /\ AddStep(s, outcome, st, k).rec.nr = st.rec.nr
BY AddType, NewValue DEF AddStep, Pairs

\* The values of session s are added one after the other.
LEMMA TakenRuns ==
    ASSUME NEW s \in Sessions, NEW total \in Nat, NEW outcome \in Outcomes,
           Fetched(ses[s].nr) \in Pairs, ses[s].taken \in Nat
    PROVE  \E g : /\ g[0] = Fetched(ses[s].nr) /\ \A k \in 0..total : g[k] \in Pairs
                  /\ \A k \in 1..total : g[k] = AddStep(s, outcome, g[k - 1], k)
                  /\ Taken(s, total, outcome) = g[total]
<1> DEFINE n == total
           T == Pairs
           base == Fetched(ses[s].nr)
           elems == [k \in 1..total |-> k]
           next == [p \in T \X (1..n) |-> AddStep(s, outcome, p[1], p[2])]
           Iter(C) == C = [u \in SUBSET DOMAIN elems |->
                             IF u = {} THEN base ELSE AddStep(s, outcome, C[u \ {Max(u)}], elems[Max(u)])]
<1>1. n \in Nat /\ DOMAIN elems = 1..n /\ \A i \in 1..n : elems[i] \in Nat /\ elems[i] = i
  OBVIOUS
<1>2. base \in T
  OBVIOUS
<1>3. next \in [T \X (1..n) -> T]
  <2>1. ASSUME NEW p \in T \X (1..n) PROVE AddStep(s, outcome, p[1], p[2]) \in T
    <3>1. p[1] \in T /\ p[2] \in 1..n /\ p[2] \in Nat
      BY <1>1
    <3> QED
      BY <3>1, AddStepType
  <2> QED
    BY <2>1
<1>4. \E C : Iter(C)
  <2>1. PICK F \in [SUBSET (1..n) -> T] : Iterates(F, n, base, next)
    BY <1>1, <1>2, <1>3, FoldExists, Zenon
  <2>2. ASSUME NEW u \in SUBSET (1..n), u # {}
        PROVE  next[<<F[u \ {Max(u)}], Max(u)>>] = AddStep(s, outcome, F[u \ {Max(u)}], elems[Max(u)])
    <3>1. Max(u) \in 1..n /\ elems[Max(u)] = Max(u)
      BY <1>1, <2>2, MaxIn
    <3>2. <<F[u \ {Max(u)}], Max(u)>> \in T \X (1..n)
      BY <3>1
    <3> HIDE DEF elems, T, n
    <3>3. next[<<F[u \ {Max(u)}], Max(u)>>] = AddStep(s, outcome, F[u \ {Max(u)}], Max(u))
      BY <3>2
    <3> QED
      BY <3>1, <3>3
  <2> HIDE DEF next, T, base, elems, n
  <2>3. Iter(F)
    BY <1>1, <2>1, <2>2 DEF Iterates
  <2> QED
    BY <2>3
<1>5. PICK C : Iter(C) /\ Taken(s, total, outcome) = C[DOMAIN elems]
  BY <1>4, Zenon DEF Taken, FoldLeft, MapThenFoldSet, AddStep
<1>6. C[{}] = base
  <2> HIDE DEF elems, base, n
  <2> QED
    BY <1>5
<1>7. ASSUME NEW k \in 1..n
      PROVE  C[1..k] = AddStep(s, outcome, C[1..(k - 1)], k)
  <2>1. 1..k \in SUBSET DOMAIN elems /\ 1..k # {} /\ Max(1..k) = k /\ (1..k) \ {Max(1..k)} = 1..(k - 1)
    BY <1>1, Places
  <2>2. elems[k] = k
    BY <1>1
  <2> HIDE DEF elems, base, n
  <2>3. C[1..k] = AddStep(s, outcome, C[(1..k) \ {Max(1..k)}], elems[Max(1..k)])
    BY <1>5, <2>1
  <2> QED
    BY <2>1, <2>2, <2>3
<1>8. \A k \in 1..n : C[1..(k - 1)] \in T => C[1..k] = next[<<C[1..(k - 1)], k>>]
  <2> HIDE DEF elems, base, n, T
  <2> QED
    BY <1>1, <1>7
<1>9. Follows(C, n, T, base, next)
  <2> HIDE DEF T, base, next, n, elems
  <2> QED
    BY <1>1, <1>2, <1>3, <1>6, <1>8 DEF Follows
<1>10. PICK g : Runs(g, n, T, base, next) /\ g[n] = C[1..n]
  <2> HIDE DEF T, base, next, n, elems
  <2> QED
    BY <1>9, FoldRuns
<1>11. Taken(s, total, outcome) = C[1..n]
  <2> HIDE DEF T, base, next, n
  <2> QED
    BY <1>1, <1>5
<1>12. Taken(s, total, outcome) = g[n]
  <2> HIDE DEF T, base, next, n, elems
  <2> QED
    BY <1>10, <1>11
<1>13. /\ g[0] = base /\ \A k \in 0..n : g[k] \in T
       /\ \A k \in 1..n : g[k] = next[<<g[k - 1], k>>] /\ g[k - 1] \in T
  <2> HIDE DEF T, base, next, n, elems
  <2> QED
    BY <1>1, <1>10 DEF Runs
<1>14. ASSUME NEW k \in 1..n PROVE g[k] = AddStep(s, outcome, g[k - 1], k)
  <2>1. <<g[k - 1], k>> \in T \X (1..n)
    BY <1>13
  <2> QED
    BY <1>13, <2>1
<1> QED
  BY <1>12, <1>13, <1>14, Zenon DEF n, T, base

\* allocateTransaction looks at session s.
TrimStep(st, s) ==
    IF st.journal = <<>> \/ Last(st.journal) # s \/ ~ses[s].silent
       \/ ~RemoveSucceeds(st.rec, ses[s].nr, st.file)
    THEN [st EXCEPT !.file =
            IF st.journal # <<>> /\ Last(st.journal) = s /\ ses[s].silent
            THEN Gone(st.rec, ses[s].nr, @) ELSE @]
    ELSE Journal(Front(st.journal), ses[s].nr, Finalized(st.rec, ses[s].nr), Gone(st.rec, ses[s].nr, st.file))
Journals == [journal : Seq(Sessions), nextNr : TxNr, rec : Recording, file : MeterFiles]

\* A sequence without its last element.
LEMMA FrontIs ==
    ASSUME NEW S, NEW q \in Seq(S), q # <<>>
    PROVE  /\ Front(q) \in Seq(S) /\ Len(Front(q)) = Len(q) - 1 /\ Last(q) = q[Len(q)] /\ Last(q) \in S
           /\ \A i \in 1..(Len(q) - 1) : Front(q)[i] = q[i]
<1>1. Len(q) \in Nat \ {0} /\ Front(q) = SubSeq(q, 1, Len(q) - 1) /\ Last(q) = q[Len(q)]
  BY Zenon, EmptySeq DEF Front, Last
<1> DEFINE d == SubSeq(q, 1, Len(q) - 1)
<1>2. d \in Seq(S) /\ Len(d) = Len(q) - 1 /\ \A i \in 1..(Len(q) - 1) : d[i] = q[i]
  <2> DEFINE n == Len(q) - 1
  <2>1. n \in Nat /\ 1 \in Int /\ \A i \in 1..n : q[i] \in S
    BY <1>1
  <2>2. /\ SubSeq(q, 1, n) \in Seq(S) /\ Len(SubSeq(q, 1, n)) = IF 1 <= n THEN n - 1 + 1 ELSE 0
        /\ \A i \in 1..(n - 1 + 1) : SubSeq(q, 1, n)[i] = q[1 + i - 1]
    <3> HIDE DEF n
    <3> QED
      BY <2>1, SubSeqProperties
  <2> HIDE DEF n
  <2>3. d = SubSeq(q, 1, n)
    BY DEF n
  <2> HIDE DEF d
  <2>4. n - 1 + 1 = n /\ \A i \in 1..n : 1 + i - 1 = i
    BY <2>1
  <2>5. Len(d) = n
    BY <2>1, <2>2, <2>3
  <2> QED
    BY <2>2, <2>3, <2>4, <2>5 DEF n
<1>3. q[Len(q)] \in S
  BY <1>1
<1> HIDE DEF d
<1> QED
  BY <1>1, <1>2, <1>3, Zenon DEF d

\* Removing the files of a number leaves those of the others.
LEMMA GoneType ==
    ASSUME NEW r, NEW nr, NEW f \in MeterFiles
    PROVE  /\ Gone(r, nr, f) \in MeterFiles
           /\ \A q \in TxNr : q # nr => Gone(r, nr, f)[q] = f[q]
<1> DEFINE c == Counted(r, nr, f)
<1>1. Gone(r, nr, f) = [f EXCEPT ![nr] = [i \in Index |-> IF i < c THEN Missing ELSE @[i]]]
  BY Zenon DEF Gone
<1> HIDE DEF c
<1>2. Missing \in Lost
  BY DEF Lost
<1> QED
  BY <1>1, <1>2 DEF MeterFiles

\* A record that takes no more stays a record.
LEMMA FinalizedType ==
    ASSUME NEW r \in Recording, NEW nr
    PROVE  /\ Finalized(r, nr) \in Recording /\ Finalized(r, nr).nr = r.nr
           /\ r.nr # nr => Finalized(r, nr) = r
BY DEF Finalized, Recording

\* One look of allocateTransaction at the end of the journal.
LEMMA TrimStepType ==
    ASSUME NEW st \in Journals, NEW s \in Sessions, ses[s].nr \in TxNr
    PROVE  TrimStep(st, s) \in Journals /\ Len(TrimStep(st, s).journal) <= Len(st.journal)
<1> DEFINE nr == ses[s].nr
           gone == Gone(st.rec, nr, st.file)
           front == Front(st.journal)
           final == Finalized(st.rec, nr)
<1>0. st.journal \in Seq(Sessions) /\ st.nextNr \in TxNr /\ st.rec \in Recording /\ st.file \in MeterFiles
  BY DEF Journals
<1>1. gone \in MeterFiles /\ final \in Recording
  BY <1>0, GoneType, FinalizedType
<1>2. st.journal # <<>> => front \in Seq(Sessions) /\ Len(front) = Len(st.journal) - 1
  BY <1>0, FrontIs
<1>3. \/ TrimStep(st, s) = [st EXCEPT !.file = gone]
      \/ TrimStep(st, s) = [st EXCEPT !.file = st.file]
      \/ st.journal # <<>> /\ TrimStep(st, s) = Journal(front, nr, final, gone)
  BY Zenon DEF TrimStep
<1> HIDE DEF nr, gone, front, final
<1>4. CASE TrimStep(st, s) = [st EXCEPT !.file = gone] \/ TrimStep(st, s) = [st EXCEPT !.file = st.file]
  BY <1>0, <1>1, <1>4 DEF Journals
<1>5. CASE st.journal # <<>> /\ TrimStep(st, s) = Journal(front, nr, final, gone)
  BY <1>0, <1>1, <1>2, <1>5 DEF Journals, Journal, nr
<1> QED
  BY <1>3, <1>4, <1>5

\* The journal is gone through from its end.
LEMMA TrimRuns ==
    ASSUME journal \in Seq(Sessions), nextNr \in TxNr, rec \in Recording, meterFile \in MeterFiles,
           \A s \in Sessions : ses[s].nr \in TxNr
    PROVE  \E g : /\ g[0] = Journal(journal, nextNr, rec, meterFile) /\ \A k \in 0..Len(journal) : g[k] \in Journals
                  /\ \A k \in 1..Len(journal) : g[k] = TrimStep(g[k - 1], Reverse(journal)[k])
                  /\ Trimmed = g[Len(journal)]
<1> DEFINE n == Len(journal)
           T == Journals
           base == Journal(journal, nextNr, rec, meterFile)
           elems == Reverse(journal)
           next == [p \in T \X (1..n) |-> TrimStep(p[1], Reverse(journal)[p[2]])]
           Iter(C) == C = [u \in SUBSET DOMAIN elems |->
                             IF u = {} THEN base ELSE TrimStep(C[u \ {Max(u)}], elems[Max(u)])]
<1>1. n \in Nat /\ DOMAIN elems = 1..n /\ \A i \in 1..n : elems[i] \in Sessions /\ elems[i] = Reverse(journal)[i]
  BY DEF Reverse
<1>2. base \in T
  BY DEF Journals, Journal
<1>3. next \in [T \X (1..n) -> T]
  <2>1. ASSUME NEW p \in T \X (1..n) PROVE TrimStep(p[1], Reverse(journal)[p[2]]) \in T
    <3>1. p[1] \in T /\ p[2] \in 1..n /\ Reverse(journal)[p[2]] \in Sessions
      BY <1>1
    <3> QED
      BY <3>1, TrimStepType
  <2> QED
    BY <2>1
<1>4. \E C : Iter(C)
  <2>1. PICK F \in [SUBSET (1..n) -> T] : Iterates(F, n, base, next)
    BY <1>1, <1>2, <1>3, FoldExists, Zenon
  <2>2. ASSUME NEW u \in SUBSET (1..n), u # {}
        PROVE  next[<<F[u \ {Max(u)}], Max(u)>>] = TrimStep(F[u \ {Max(u)}], elems[Max(u)])
    <3>1. Max(u) \in 1..n /\ elems[Max(u)] = Reverse(journal)[Max(u)]
      BY <1>1, <2>2, MaxIn
    <3>2. <<F[u \ {Max(u)}], Max(u)>> \in T \X (1..n)
      BY <3>1
    <3> HIDE DEF elems, T, n
    <3>3. next[<<F[u \ {Max(u)}], Max(u)>>] = TrimStep(F[u \ {Max(u)}], Reverse(journal)[Max(u)])
      BY <3>2
    <3> QED
      BY <3>1, <3>3
  <2> HIDE DEF next, T, base, elems, n
  <2>3. Iter(F)
    BY <1>1, <2>1, <2>2 DEF Iterates
  <2> QED
    BY <2>3
<1>5. PICK C : Iter(C) /\ Trimmed = C[DOMAIN elems]
  BY <1>4, Zenon DEF Trimmed, FoldLeft, MapThenFoldSet, TrimStep
<1>6. C[{}] = base
  <2> HIDE DEF elems, base, n
  <2> QED
    BY <1>5
<1>7. ASSUME NEW k \in 1..n
      PROVE  C[1..k] = TrimStep(C[1..(k - 1)], Reverse(journal)[k])
  <2>1. 1..k \in SUBSET DOMAIN elems /\ 1..k # {} /\ Max(1..k) = k /\ (1..k) \ {Max(1..k)} = 1..(k - 1)
    BY <1>1, Places
  <2>2. elems[k] = Reverse(journal)[k]
    BY <1>1
  <2> HIDE DEF elems, base, n
  <2>3. C[1..k] = TrimStep(C[(1..k) \ {Max(1..k)}], elems[Max(1..k)])
    BY <1>5, <2>1
  <2> QED
    BY <2>1, <2>2, <2>3
<1>8. \A k \in 1..n : C[1..(k - 1)] \in T => C[1..k] = next[<<C[1..(k - 1)], k>>]
  <2> HIDE DEF elems, base, n, T
  <2> QED
    BY <1>1, <1>7
<1>9. Follows(C, n, T, base, next)
  <2> HIDE DEF T, base, next, n, elems
  <2> QED
    BY <1>1, <1>2, <1>3, <1>6, <1>8 DEF Follows
<1>10. PICK g : Runs(g, n, T, base, next) /\ g[n] = C[1..n]
  <2> HIDE DEF T, base, next, n, elems
  <2> QED
    BY <1>9, FoldRuns
<1>11. Trimmed = C[1..n]
  <2> HIDE DEF T, base, next, n
  <2> QED
    BY <1>1, <1>5
<1>12. Trimmed = g[n]
  <2> HIDE DEF T, base, next, n, elems
  <2> QED
    BY <1>10, <1>11
<1>13. /\ g[0] = base /\ \A k \in 0..n : g[k] \in T
       /\ \A k \in 1..n : g[k] = next[<<g[k - 1], k>>] /\ g[k - 1] \in T
  <2> HIDE DEF T, base, next, n, elems
  <2> QED
    BY <1>1, <1>10 DEF Runs
<1>14. ASSUME NEW k \in 1..n PROVE g[k] = TrimStep(g[k - 1], Reverse(journal)[k])
  <2>1. <<g[k - 1], k>> \in T \X (1..n)
    BY <1>13
  <2> QED
    BY <1>13, <2>1
<1> QED
  BY <1>12, <1>13, <1>14, Zenon DEF n, T, base

\* What restore finds has a place for each value.
LEMMA RestoredType ==
    ASSUME NEW nr \in TxNr, NEW f \in MeterFiles
    PROVE  Restored(nr, f) \in Pairs /\ Restored(nr, f).rec.nr = nr
<1>1. PICK g : /\ g[0] = RestoreBase(nr, f) /\ \A k \in 0..MaxData : g[k] \in Restoring(nr)
               /\ \A k \in 1..MaxData : g[k] = RestoreStep(nr, f, g[k - 1], k - 1)
               /\ Restored(nr, f) = [rec |-> g[MaxData].rec, file |-> g[MaxData].file]
  BY RestoreRuns
<1>0. MaxData \in Nat
  BY MeterConstants
<1> DEFINE Ok(s, k) == Len(s.rec.txData) <= s.rec.mvCount + 1 /\ Len(s.rec.txData) <= k
           S == {k \in 0..MaxData : Ok(g[k], k)}
<1>2. 0 \in S
  <2>1. g[0].rec.txData = <<>> /\ g[0].rec.mvCount = 0
    BY <1>1 DEF RestoreBase, Record
  <2> QED
    BY <1>0, <2>1
<1>3. ASSUME NEW k \in 1..MaxData, k - 1 \in S PROVE k \in S
  <2>1. g[k - 1] \in Restoring(nr) /\ g[k - 1].rec \in NewRecords(nr) /\ g[k] = RestoreStep(nr, f, g[k - 1], k - 1)
    BY <1>0, <1>1 DEF Restoring
  <2>2. /\ g[k - 1].rec.txData \in Seq(Value) /\ g[k - 1].rec.mvCount \in 0..MaxData
        /\ Len(g[k - 1].rec.txData) \in Nat
    <3> DEFINE r == g[k - 1].rec
    <3>1. r \in NewRecords(nr)
      BY <2>1
    <3> HIDE DEF r
    <3>2. r.txData \in Seq(Value) /\ r.mvCount \in 0..MaxData
      BY <3>1 DEF NewRecords
    <3>3. Len(r.txData) \in Nat
      BY <3>2
    <3> QED
      BY <3>2, <3>3 DEF r
  <2>3. Ok(g[k - 1], k - 1)
    BY <1>3
  <2>4. \/ g[k].rec = g[k - 1].rec
        \/ Loads(f[nr][k - 1]) /\ g[k].rec = [g[k - 1].rec EXCEPT !.txData = Append(@, f[nr][k - 1]), !.mvCount = k - 1]
    BY <2>1 DEF RestoreStep, Restoring
  <2>5. CASE g[k].rec = g[k - 1].rec
    BY <1>0, <2>2, <2>3, <2>5
  <2>6. CASE Loads(f[nr][k - 1])
             /\ g[k].rec = [g[k - 1].rec EXCEPT !.txData = Append(@, f[nr][k - 1]), !.mvCount = k - 1]
    <3>1. f[nr][k - 1] \in Value
      BY <1>0, <2>6, MeterConstants DEF MeterFiles, Loads
    <3>2. g[k].rec.mvCount = k - 1 /\ g[k].rec.txData = Append(g[k - 1].rec.txData, f[nr][k - 1])
      BY <2>1, <2>6 DEF NewRecords
    <3>3. Len(g[k].rec.txData) = Len(g[k - 1].rec.txData) + 1
      BY <2>2, <3>1, <3>2
    <3> QED
      BY <1>0, <2>2, <2>3, <3>2, <3>3
  <2> QED
    BY <2>4, <2>5, <2>6
<1>4. MaxData \in S
  <2> HIDE DEF S
  <2>1. \A k \in 0..MaxData : k \in S
    BY <1>0, <1>2, <1>3, Climb, Zenon
  <2> QED
    BY <1>0, <2>1
<1>5. g[MaxData] \in Restoring(nr) /\ Ok(g[MaxData], MaxData)
  BY <1>0, <1>1, <1>4
<1> DEFINE r == g[MaxData].rec
           h == g[MaxData].file
<1>6. r \in NewRecords(nr) /\ h \in MeterFiles
  BY <1>5 DEF Restoring
<1>7. r \in Recording /\ r.nr = nr
  BY <1>5, <1>6 DEF NewRecords, Recording, NrOrNone
<1>8. Restored(nr, f) = [rec |-> r, file |-> h]
  BY <1>1
<1> HIDE DEF r, h
<1> QED
  BY <1>6, <1>7, <1>8 DEF Pairs

\* A new record.
LEMMA RecordType ==
    ASSUME NEW nr \in NrOrNone
    PROVE  Record(nr) \in Recording /\ Record(nr).nr = nr
BY MeterConstants DEF Record, Recording

\* getTxMeterData: the record of a number.
LEMMA FetchedType ==
    ASSUME rec \in Recording, meterFile \in MeterFiles, NEW nr \in TxNr
    PROVE  Fetched(nr) \in Pairs /\ Fetched(nr).rec.nr = nr
<1>1. CASE rec.nr = nr
  BY <1>1 DEF Fetched, Pairs
<1>2. CASE rec.nr # nr /\ meterFile[nr][0] = Missing
  <2>1. Fetched(nr) = [rec |-> Record(nr), file |-> meterFile]
    BY <1>2 DEF Fetched
  <2>2. Record(nr) \in Recording /\ Record(nr).nr = nr
    BY RecordType DEF NrOrNone
  <2> QED
    BY <2>1, <2>2 DEF Pairs
<1>3. CASE rec.nr # nr /\ meterFile[nr][0] # Missing
  BY <1>3, RestoredType DEF Fetched
<1> QED
  BY <1>1, <1>2, <1>3

\* After its oldest transaction was removed.
LEMMA EvictedType ==
    ASSUME NEW st \in Journals, \A s \in Sessions : ses[s].nr \in TxNr
    PROVE  Evicted(st) \in Journals /\ Len(Evicted(st).journal) <= Len(st.journal)
<1> DEFINE s == Head(st.journal)
           nr == ses[s].nr
           gone == Gone(st.rec, nr, st.file)
           final == Finalized(st.rec, nr)
           left == IF RemoveSucceeds(st.rec, nr, st.file) THEN Tail(st.journal) ELSE st.journal
<1>0. st.journal \in Seq(Sessions) /\ st.nextNr \in TxNr /\ st.rec \in Recording /\ st.file \in MeterFiles
  BY DEF Journals
<1>1. gone \in MeterFiles /\ final \in Recording
  BY <1>0, GoneType, FinalizedType
<1>2. CASE Len(st.journal) < RecordSize \/ ses[s].stop # "answered"
  BY <1>0, <1>2 DEF Evicted
<1>3. CASE ~(Len(st.journal) < RecordSize \/ ses[s].stop # "answered")
  <2>1. Evicted(st) = Journal(left, st.nextNr, final, gone)
    BY <1>3, Zenon DEF Evicted
  <2>2. st.journal # <<>>
    BY <1>0, <1>3, MeterConstants
  <2>3. left \in Seq(Sessions) /\ Len(left) <= Len(st.journal)
    BY <1>0, <2>2
  <2> HIDE DEF left, gone, final
  <2> QED
    BY <1>0, <1>1, <2>1, <2>3 DEF Journals, Journal
<1> QED
  BY <1>2, <1>3

-----------------------------------------------------------------------------
(* The files and the record of a session; t: the number of values taken so far, m: the number *)
(* of those in the files f                                                                    *)

OwnTo(s, t, v) == v \in Value /\ v.of = s /\ v.n <= t
Rising(s, t, d) ==
    /\ \A i \in 1..Len(d) : OwnTo(s, t, d[i])
    /\ \A i, k \in 1..Len(d) : i < k => d[i].n < d[k].n

Filled(s, t, m, f) ==
    /\ \A i \in Index : IF i < m THEN OwnTo(s, t, f[i]) ELSE f[i] \in Lost
    /\ \A i, k \in Index : i < k /\ k < m => f[i].n < f[k].n
RecordOf(s, t, m, r) ==
    /\ ~r.finalized /\ Rising(s, t, r.txData) /\ (r.mvCount > 0 => r.txData # <<>>)
    /\ r.mvCount \in {m - 1, m} \/ (r.mvCount = MaxData /\ m = MaxData - 1)

\* The values of a transaction that nothing disturbed, as files and as a record.
Nth(s, t, i) == [of |-> s, n |-> IF i = MaxData - 1 THEN t ELSE i + 1]
Whole(s, t, m, f) ==
    m = (IF t > MaxData THEN MaxData ELSE t) /\ \A i \in 0..(m - 1) : f[i] = Nth(s, t, i)
InRecord(m, r, f) ==
    r.mvCount = m /\ Len(r.txData) = m /\ \A i \in 1..m : r.txData[i] = f[i - 1]

\* Values stay in their order when more are taken.
LEMMA RisingLater ==
    ASSUME NEW s, NEW t \in Nat, NEW u \in Nat, t <= u, NEW d, Rising(s, t, d)
    PROVE  Rising(s, u, d)
<1>1. \A v : OwnTo(s, t, v) => OwnTo(s, u, v)
  BY DEF OwnTo, Value
<1> QED
  BY <1>1 DEF Rising

\* So do the files.
LEMMA FilledLater ==
    ASSUME NEW s, NEW t \in Nat, NEW u \in Nat, t <= u, NEW m, NEW f, Filled(s, t, m, f)
    PROVE  Filled(s, u, m, f)
<1>1. \A v : OwnTo(s, t, v) => OwnTo(s, u, v)
  BY DEF OwnTo, Value
<1> QED
  BY <1>1 DEF Filled

\* A value is added to the record, or replaces the last one.
LEMMA WithIs ==
    ASSUME NEW r \in Recording, NEW v \in Value, r.mvCount > 0 => r.txData # <<>>
    PROVE  /\ With(r, v).mvCount = Place(r) + 1 /\ With(r, v).finalized = r.finalized
           /\ LET d == With(r, v).txData
              IN  /\ Len(d) > 0 /\ d[Len(d)] = v /\ d \in Seq(Value)
                  /\ Len(d) = IF Full(r) THEN Len(r.txData) ELSE Len(r.txData) + 1
                  /\ \A i \in 1..(Len(d) - 1) : d[i] = r.txData[i]
<1>0. /\ r \in [nr : NrOrNone, mvCount : 0..MaxData, finalized : BOOLEAN, txData : Seq(Value)]
      /\ r.txData \in Seq(Value) /\ r.mvCount \in 0..MaxData /\ MaxData \in Nat \ {0}
      /\ Len(r.txData) \in Nat
  <2>1. r \in [nr : NrOrNone, mvCount : 0..MaxData, finalized : BOOLEAN, txData : Seq(Value)]
    BY DEF Recording
  <2>2. r.txData \in Seq(Value)
    BY <2>1
  <2> QED
    BY <2>1, <2>2, MeterConstants
<1>1. CASE Full(r)
  <2> DEFINE d == [r.txData EXCEPT ![Len(r.txData)] = v]
             l == Len(r.txData)
  <2>1. r.mvCount = MaxData /\ Place(r) = MaxData - 1 /\ r.txData # <<>>
    BY <1>0, <1>1 DEF Full, Place
  <2>2. l \in 1..l
    BY <1>0, <2>1
  <2>3. d \in Seq(Value) /\ Len(d) = l /\ \A i \in 1..l : d[i] = IF i = l THEN v ELSE r.txData[i]
    BY <1>0, <2>2, ExceptSeq
  <2>4. With(r, v) = [r EXCEPT !.txData = d]
    BY <1>1, Zenon DEF With
  <2> HIDE DEF d
  <2>5. With(r, v).txData = d /\ With(r, v).mvCount = r.mvCount /\ With(r, v).finalized = r.finalized
    BY <1>0, <2>4
  <2> QED
    BY <1>0, <1>1, <2>1, <2>2, <2>3, <2>5
<1>2. CASE ~Full(r)
  <2> DEFINE d == Append(r.txData, v)
             m == r.mvCount + 1
             l == Len(r.txData)
  <2>1. Place(r) = r.mvCount
    BY <1>2 DEF Place
  <2>2. d \in Seq(Value) /\ Len(d) = l + 1 /\ d[l + 1] = v /\ \A i \in 1..l : d[i] = r.txData[i]
    BY <1>0, AppendProperties
  <2>3. With(r, v) = [r EXCEPT !.txData = d, !.mvCount = @ + 1]
    BY <1>2, Zenon DEF With
  <2>4. With(r, v) = [r EXCEPT !.txData = d, !.mvCount = m]
    BY <2>3
  <2> HIDE DEF d, m
  <2>5. With(r, v).txData = d /\ With(r, v).mvCount = m /\ With(r, v).finalized = r.finalized
    BY <1>0, <2>4
  <2>6. m = Place(r) + 1 /\ Len(d) - 1 = l
    BY <1>0, <2>1, <2>2 DEF m
  <2> QED
    BY <1>0, <1>2, <2>2, <2>5, <2>6
<1> QED
  BY <1>1, <1>2

\* addTxData of a record that takes more, in its parts.
LEMMA AddIs ==
    ASSUME NEW r \in Recording, r.nr \in TxNr, ~r.finalized, NEW f \in MeterFiles, NEW v \in Value,
           NEW outcome \in Outcomes
    PROVE  /\ Add(r, f, v, outcome).rec = IF outcome = "ok" THEN With(r, v) ELSE r
           /\ \A i \in Index : Add(r, f, v, outcome).file[r.nr][i] =
                                  IF i = Place(r) THEN Stored(outcome, f[r.nr][i], v) ELSE f[r.nr][i]
           /\ \A q \in TxNr : q # r.nr => Add(r, f, v, outcome).file[q] = f[q]
           /\ Place(r) \in Index
<1> DEFINE g == [f EXCEPT ![r.nr][Place(r)] = Stored(outcome, @, v)]
           w == IF outcome = "ok" THEN With(r, v) ELSE r
<1>1. Add(r, f, v, outcome) = [rec |-> w, file |-> g]
  BY Zenon DEF Add
<1>2. Place(r) \in Index
  BY PlaceIs DEF Recording
<1>3. \A i \in Index : g[r.nr][i] = IF i = Place(r) THEN Stored(outcome, f[r.nr][i], v) ELSE f[r.nr][i]
  BY <1>2 DEF MeterFiles
<1>4. \A q \in TxNr : q # r.nr => g[q] = f[q]
  BY DEF MeterFiles
<1> HIDE DEF g, w
<1> QED
  BY <1>1, <1>2, <1>3, <1>4 DEF w

\* A value that is stored comes behind the others or replaces the last one.
LEMMA AddStored ==
    ASSUME NEW s \in Sessions, NEW t \in Nat, NEW m \in 0..MaxData,
           NEW r \in Recording, r.nr \in TxNr, NEW f \in MeterFiles,
           Filled(s, t, m, f[r.nr]), RecordOf(s, t, m, r)
    PROVE  LET v == [of |-> s, n |-> t + 1]
               st == Add(r, f, v, "ok")
               g == st.file[r.nr]
               u == Place(r) + 1
           IN  /\ u \in 1..MaxData /\ Filled(s, t + 1, u, g) /\ RecordOf(s, t + 1, u, st.rec) /\ g[u - 1] = v
               /\ st.rec.txData # <<>> /\ Last(st.rec.txData) = v
               /\ Whole(s, t, m, f[r.nr]) /\ InRecord(m, r, f[r.nr]) => Whole(s, t + 1, u, g) /\ InRecord(u, st.rec, g)
<1> DEFINE v == [of |-> s, n |-> t + 1]
           st == Add(r, f, v, "ok")
           g == st.file[r.nr]
           h == f[r.nr]
           p == Place(r)
           u == p + 1
           w == With(r, v)
           d == w.txData
<1>1. v \in Value /\ "ok" \in Outcomes /\ v.of = s /\ v.n = t + 1 /\ t + 1 \in Nat
  BY NewValue DEF Outcomes
<1>2. /\ st.rec = w /\ \A i \in Index : g[i] = IF i = p THEN v ELSE h[i]
      /\ p \in Index
  BY <1>1, AddIs DEF RecordOf, Stored
<1>3. r.mvCount \in 0..MaxData /\ r.txData \in Seq(Value) /\ Len(r.txData) \in Nat /\ MaxData \in Nat \ {0}
      /\ Index = 0..(MaxData - 1)
  <2>1. r.mvCount \in 0..MaxData /\ r.txData \in Seq(Value)
    BY DEF Recording
  <2> QED
    BY <2>1, MeterConstants
<1>4. m \in {p, p + 1} /\ (Full(r) => p = MaxData - 1 /\ r.mvCount = MaxData) /\ (~Full(r) => p = r.mvCount)
  BY <1>3 DEF RecordOf, Place, Full
<1>5. /\ w.mvCount = u /\ w.finalized = r.finalized /\ Len(d) > 0 /\ d[Len(d)] = v /\ d \in Seq(Value)
      /\ Len(d) = IF Full(r) THEN Len(r.txData) ELSE Len(r.txData) + 1
      /\ \A i \in 1..(Len(d) - 1) : d[i] = r.txData[i]
  BY <1>1, WithIs DEF RecordOf
<1>5a. Len(d) \in Nat /\ (Full(r) => r.txData # <<>>)
  BY <1>3, <1>4, <1>5 DEF RecordOf
<1> HIDE DEF v, st, g, h, p, w, d
<1>6. u \in 1..MaxData /\ g[u - 1] = v
  BY <1>2, <1>3
<1>7. \A x : OwnTo(s, t, x) => OwnTo(s, t + 1, x) /\ x.n < v.n
  BY <1>1 DEF OwnTo, Value
<1>8. OwnTo(s, t + 1, v)
  BY <1>1 DEF OwnTo
<1>9. Filled(s, t + 1, u, g)
  <2>1. \A i \in Index : (i < m => OwnTo(s, t, h[i])) /\ (~(i < m) => h[i] \in Lost)
    BY DEF Filled, h
  <2>2. ASSUME NEW i \in Index PROVE IF i < u THEN OwnTo(s, t + 1, g[i]) ELSE g[i] \in Lost
    BY <1>2, <1>3, <1>4, <1>7, <1>8, <2>1
  <2>3. ASSUME NEW i \in Index, NEW k \in Index, i < k, k < u PROVE g[i].n < g[k].n
    <3>1. i < m /\ i # p /\ (k # p => k < m)
      BY <1>2, <1>3, <1>4, <2>3
    <3>2. k # p => h[i].n < h[k].n
      BY <2>3, <3>1 DEF Filled, h
    <3> QED
      BY <1>2, <1>7, <2>1, <3>1, <3>2
  <2> QED
    BY <2>2, <2>3 DEF Filled
<1>10. Rising(s, t + 1, d)
  <2>1. \A i \in 1..(Len(d) - 1) : i \in 1..Len(r.txData) /\ OwnTo(s, t, d[i])
    BY <1>3, <1>5, <1>5a DEF RecordOf, Rising
  <2>2. \A i \in 1..Len(d) : OwnTo(s, t + 1, d[i])
    BY <1>5, <1>5a, <1>7, <1>8, <2>1
  <2>3. ASSUME NEW i \in 1..Len(d), NEW k \in 1..Len(d), i < k PROVE d[i].n < d[k].n
    <3>1. CASE k = Len(d)
      BY <1>5, <1>5a, <1>7, <2>1, <2>3, <3>1
    <3>2. CASE k # Len(d)
      <4>1. i \in 1..(Len(d) - 1) /\ k \in 1..(Len(d) - 1)
        BY <1>5a, <2>3, <3>2
      <4>2. r.txData[i].n < r.txData[k].n
        BY <2>1, <2>3, <4>1 DEF RecordOf, Rising
      <4> QED
        BY <1>5, <4>1, <4>2
    <3> QED
      BY <3>1, <3>2
  <2> QED
    BY <2>2, <2>3 DEF Rising
<1>11. d # <<>>
  BY <1>5
<1>12. RecordOf(s, t + 1, u, w)
  BY <1>5, <1>10, <1>11 DEF RecordOf, d
<1>13. Last(d) = v
  BY <1>5 DEF Last
<1>14. ASSUME Whole(s, t, m, h), InRecord(m, r, h) PROVE Whole(s, t + 1, u, g) /\ InRecord(u, w, g)
  <2>1. r.mvCount = m /\ Len(r.txData) = m /\ m = (IF t > MaxData THEN MaxData ELSE t)
    BY <1>14 DEF Whole, InRecord
  <2>2. u = (IF t + 1 > MaxData THEN MaxData ELSE t + 1) /\ u = Len(d)
    <3>1. CASE Full(r)
      <4>1. p = MaxData - 1 /\ m = MaxData /\ Len(d) = m
        BY <1>3, <1>4, <1>5, <2>1, <3>1
      <4> QED
        BY <1>3, <2>1, <4>1
    <3>2. CASE ~Full(r)
      <4>1. p = m /\ Len(d) = m + 1 /\ m < MaxData
        BY <1>3, <1>4, <1>5, <2>1, <3>2 DEF Full
      <4> QED
        BY <1>3, <2>1, <4>1
    <3> QED
      BY <3>1, <3>2
  <2>3. ASSUME NEW i \in 0..(u - 1) PROVE g[i] = Nth(s, t + 1, i)
    <3>1. CASE i = p
      <4>1. v = Nth(s, t + 1, p)
        <5>1. CASE p = MaxData - 1
          BY <5>1 DEF Nth, v
        <5>2. CASE p # MaxData - 1
          <6>1. m = p /\ t = p
            BY <1>2, <1>3, <1>4, <2>1, <5>2 DEF Full
          <6> QED
            BY <5>2, <6>1 DEF Nth, v
        <5> QED
          BY <5>1, <5>2
      <4> QED
        BY <1>2, <3>1, <4>1
    <3>2. CASE i # p
      <4>1. i \in 0..(m - 1) /\ i # MaxData - 1 /\ i \in Index
        BY <1>2, <1>3, <1>4, <2>3, <3>2
      <4>2. h[i] = Nth(s, t, i)
        BY <1>14, <4>1 DEF Whole
      <4> QED
        BY <1>2, <3>2, <4>1, <4>2 DEF Nth
    <3> QED
      BY <3>1, <3>2
  <2>4. ASSUME NEW i \in 1..u PROVE d[i] = g[i - 1]
    <3>1. CASE i = u
      BY <1>5, <1>6, <2>2, <3>1
    <3>2. CASE i # u
      <4>1. i \in 1..(Len(d) - 1) /\ i \in 1..m /\ i - 1 \in Index /\ i - 1 # p
        BY <1>2, <1>3, <1>4, <2>2, <2>4, <3>2
      <4>2. r.txData[i] = h[i - 1]
        BY <1>14, <4>1 DEF InRecord
      <4> QED
        BY <1>2, <1>5, <4>1, <4>2
    <3> QED
      BY <3>1, <3>2
  <2>5. InRecord(u, w, g)
    BY <1>5, <2>2, <2>4 DEF InRecord, d
  <2> QED
    BY <2>2, <2>3, <2>5 DEF Whole
<1> QED
  BY <1>2, <1>6, <1>9, <1>11, <1>12, <1>13, <1>14 DEF v, st, g, h, p, d

\* A value that could not be stored leaves the record alone; its file may be gone.
LEMMA AddFailed ==
    ASSUME NEW s \in Sessions, NEW t \in Nat, NEW m \in 0..MaxData, NEW outcome \in Outcomes \ {"ok"},
           NEW r \in Recording, r.nr \in TxNr, NEW f \in MeterFiles,
           Filled(s, t, m, f[r.nr]), RecordOf(s, t, m, r)
    PROVE  LET st == Add(r, f, [of |-> s, n |-> t + 1], outcome)
           IN  \E u \in 0..MaxData : Filled(s, t + 1, u, st.file[r.nr]) /\ RecordOf(s, t + 1, u, st.rec)
<1> DEFINE v == [of |-> s, n |-> t + 1]
           st == Add(r, f, v, outcome)
           g == st.file[r.nr]
           h == f[r.nr]
           p == Place(r)
<1>1. v \in Value /\ t + 1 \in Nat
  BY NewValue
<1>2. /\ st.rec = r /\ \A i \in Index : g[i] = IF i = p THEN Stored(outcome, h[i], v) ELSE h[i]
      /\ p \in Index
  BY <1>1, AddIs DEF RecordOf
<1>3. r.mvCount \in 0..MaxData /\ MaxData \in Nat \ {0} /\ Index = 0..(MaxData - 1)
  BY MeterConstants DEF Recording
<1>4. m \in {p, p + 1} /\ (Full(r) => p = MaxData - 1 /\ r.mvCount = MaxData) /\ (~Full(r) => p = r.mvCount)
  BY <1>3 DEF RecordOf, Place, Full
<1>5. Rising(s, t + 1, r.txData)
  BY <1>1, RisingLater DEF RecordOf
<1>6. Filled(s, t + 1, m, h)
  BY <1>1, FilledLater
<1> HIDE DEF v, st, g, h, p
<1>7. CASE outcome = "unopened"
  <2>1. \A i \in Index : g[i] = h[i]
    BY <1>2, <1>7 DEF Stored
  <2>2. Filled(s, t + 1, m, g)
    BY <1>6, <2>1 DEF Filled
  <2>3. RecordOf(s, t + 1, m, r)
    BY <1>5 DEF RecordOf
  <2> QED
    BY <1>2, <2>2, <2>3 DEF st, g, v
<1>8. CASE outcome = "unwritten"
  <2>1. \A i \in Index : g[i] = IF i = p THEN Missing ELSE h[i]
    BY <1>2, <1>8 DEF Stored
  <2>2. \A i \in Index : (i < m => OwnTo(s, t + 1, h[i])) /\ (~(i < m) => h[i] \in Lost)
    BY <1>6 DEF Filled
  <2>3. \A i \in Index : IF i < p THEN OwnTo(s, t + 1, g[i]) ELSE g[i] \in Lost
    BY <1>2, <1>3, <1>4, <2>1, <2>2 DEF Lost
  <2>4. ASSUME NEW i \in Index, NEW k \in Index, i < k, k < p PROVE g[i].n < g[k].n
    <3>1. k < m /\ i # p /\ k # p
      BY <1>2, <1>3, <1>4, <2>4
    <3>2. h[i].n < h[k].n
      BY <1>6, <2>4, <3>1 DEF Filled
    <3> QED
      BY <2>1, <3>1, <3>2
  <2>5. Filled(s, t + 1, p, g)
    BY <2>3, <2>4 DEF Filled
  <2>6. RecordOf(s, t + 1, p, r)
    BY <1>3, <1>4, <1>5 DEF RecordOf
  <2>7. p \in 0..MaxData
    BY <1>2, <1>3
  <2> QED
    BY <1>2, <2>5, <2>6, <2>7 DEF st, g, v
<1> QED
  BY <1>7, <1>8 DEF Outcomes

-----------------------------------------------------------------------------
(* The invariant of the recorded values.  se, j, next, d: sessions, journal, next number and    *)
(* doubtful numbers; r, f: the record in RAM and the files                                       *)

Back(next, k) == IF next >= k THEN next - k ELSE next - k + TxCnt
Underway(e) == e.stage \in {"begun", "running", "ending"}
Within(s, j) == \E i \in 1..Len(j) : j[i] = s

\* The journal has consecutive numbers, every transaction that may still need its values, and
\* at its end the one that is under way.
Sequenced(se, j, next, d) ==
    /\ \A i \in 1..Len(j) : se[j[i]].stage # "none" /\ se[j[i]].nr = Back(next, Len(j) - i + 1)
    /\ \A s \in Sessions : se[s].stage # "none" /\ se[s].nr \notin d /\ se[s].stop # "answered" => Within(s, j)
    /\ \A s \in Sessions : Underway(se[s]) => j # <<>> /\ Last(j) = s

\* A number that is not in the journal has neither values nor a record.
Unused(se, j, d, r, f) ==
    \A nr \in TxNr : nr \notin d /\ (\A i \in 1..Len(j) : se[j[i]].nr # nr) =>
        r.nr # nr /\ \A i \in Index : f[nr][i] \in Lost

\* What flash and RAM hold of a session whose values count: its own, in their order, the last
\* one among them once its StopTransaction waits, and all of them if nothing went wrong.
OwnFiles(s, e, m, r, f) ==
    /\ Filled(s, e.taken, m, f)
    /\ r.nr = e.nr => e.stop = "none" /\ RecordOf(s, e.taken, m, r)
    /\ e.stop \notin {"none", "answered"} /\ ~e.failed => m > 0 /\ f[m - 1].n = e.taken
    /\ ~e.cut /\ ~e.failed /\ e.stop # "answered" =>
        /\ Whole(s, e.taken, m, f)
        /\ e.stop = "none" => (e.taken > 0 => r.nr = e.nr) /\ (r.nr = e.nr => InRecord(m, r, f))
Owned(se, j, d, r, f) ==
    \A s \in Sessions : se[s].nr \notin d /\ Within(s, j) =>
        \E m \in 0..MaxData : OwnFiles(s, se[s], m, r, f[se[s].nr])

Staged(se, d) ==
    \A s \in Sessions :
        /\ se[s].stage = "none" => se[s].start = "none" /\ se[s].stop = "none"
        /\ se[s].stage = "over" => se[s].stop # "none"
        /\ Underway(se[s]) => se[s].stop = "none"
        /\ se[s].stage = "discarded" \/ se[s].silent => se[s].nr \in d
        /\ se[s].stage = "begun" /\ ~se[s].cut => se[s].taken = 0 /\ ~se[s].failed

\* The values of a StopTransaction, as OwnValues and WholeRecord say.
Reported(s, e) ==
    /\ \A i \in DOMAIN e.data : e.data[i].of = s /\ (i > 1 => e.data[i - 1].n < e.data[i].n)
    /\ ~e.failed => e.data # <<>> /\ Last(e.data).n = e.taken
    /\ ~e.cut /\ ~e.failed =>
        e.data = [i \in 1..(IF e.taken > MaxData THEN MaxData ELSE e.taken) |->
                    [of |-> s, n |-> IF i = MaxData THEN e.taken ELSE i]]
Delivered(se, d) ==
    \A s \in Sessions : se[s].stop \in {"ram", "answered"} /\ se[s].nr \notin d => Reported(s, se[s])

RecordTypes(se, j, next, r, f) ==
    /\ se \in [Sessions -> Session] /\ j \in Seq(Sessions) /\ Len(j) <= RecordSize /\ next \in TxNr
    /\ r \in Recording /\ f \in MeterFiles
Recorded(se, j, next, d, r, f) ==
    /\ RecordTypes(se, j, next, r, f) /\ Sequenced(se, j, next, d) /\ Unused(se, j, d, r, f)
    /\ Owned(se, j, d, r, f) /\ Staged(se, d) /\ Delivered(se, d)

\* The connector's transaction is the one that is under way; without power RAM is lost.
InUse ==
    /\ tx # 0 => journal # <<>> /\ Last(journal) = tx
    /\ \A s \in Sessions : Underway(ses[s]) /\ up => tx = s
    /\ ~up => meterData = <<>>

-----------------------------------------------------------------------------
(* Steps of the invariant *)

\* The numbers of a journal differ.
LEMMA BackApart ==
    ASSUME NEW next \in TxNr, NEW k \in 1..RecordSize, NEW l \in 1..RecordSize, Back(next, k) = Back(next, l)
    PROVE  k = l
<1>1. RecordSize \in Nat /\ TxCnt \in Nat /\ RecordSize + 1 < TxCnt /\ next \in 0..(TxCnt - 1)
  BY MeterAssumption, MeterConstants
<1> QED
  BY <1>1 DEF Back

\* No two transactions of the journal have the same number.
LEMMA Apart ==
    ASSUME NEW se, NEW j, NEW next, NEW d, NEW r, NEW f, RecordTypes(se, j, next, r, f), Sequenced(se, j, next, d),
           NEW i \in 1..Len(j), NEW k \in 1..Len(j), se[j[i]].nr = se[j[k]].nr
    PROVE  i = k
<1>1. Len(j) \in Nat /\ Len(j) <= RecordSize /\ next \in TxNr /\ RecordSize \in Nat
  BY MeterConstants DEF RecordTypes
<1> DEFINE a == Len(j) - i + 1
           b == Len(j) - k + 1
<1>2. a \in 1..RecordSize /\ b \in 1..RecordSize
  BY <1>1
<1>3. Back(next, a) = Back(next, b)
  BY DEF Sequenced
<1> HIDE DEF a, b
<1>4. a = b
  BY <1>1, <1>2, <1>3, BackApart
<1> QED
  BY <1>1, <1>4 DEF a, b

\* Nor two sessions of the journal.
LEMMA SessionApart ==
    ASSUME NEW se, NEW j, NEW next, NEW d, NEW r, NEW f, RecordTypes(se, j, next, r, f), Sequenced(se, j, next, d),
           NEW s, NEW p, Within(s, j), Within(p, j), se[s].nr = se[p].nr
    PROVE  s = p
<1>1. PICK i \in 1..Len(j) : j[i] = s
  BY DEF Within
<1>2. PICK k \in 1..Len(j) : j[k] = p
  BY DEF Within
<1>3. i = k
  BY <1>1, <1>2, Apart
<1> QED
  BY <1>1, <1>2, <1>3

\* A session goes on, and touches nothing but its own record and files.
Goes(se, s, e, j, d, d2, r, r2, f, f2) ==
    /\ se[s].stage # "none" /\ e.stage # "none" /\ e.nr = se[s].nr /\ (Underway(e) => Underway(se[s]))
    /\ d2 \in {d, d \cup {e.nr}}
    /\ \A q \in TxNr : q \notin d2 /\ q # e.nr => f2[q] = f[q] /\ (r.nr = q \/ r2.nr = q => r2 = r)
    /\ e.nr \in d2 \/ Within(s, j) \/ (r2 = r /\ f2[e.nr] = f[e.nr])
    /\ e.nr \notin d2 /\ e.stop # "answered" => Within(s, j)
Fares(s, e, j, d2, r2, f2) ==
    /\ e.nr \notin d2 /\ Within(s, j) => \E m \in 0..MaxData : OwnFiles(s, e, m, r2, f2[e.nr])
    /\ e.nr \notin d2 /\ e.stop \in {"ram", "answered"} => Reported(s, e)
    /\ e.stage = "over" => e.stop # "none"
    /\ Underway(e) => e.stop = "none"
    /\ e.stage = "discarded" \/ e.silent => e.nr \in d2
    /\ e.stage = "begun" /\ ~e.cut => e.taken = 0 /\ ~e.failed

\* The invariant is kept if a session goes on and fares well.
LEMMA SessionStep ==
    ASSUME NEW se, NEW j, NEW next, NEW d, NEW d2, NEW r, NEW r2 \in Recording, NEW f, NEW f2 \in MeterFiles,
           Recorded(se, j, next, d, r, f), NEW s \in Sessions, NEW e \in Session,
           Goes(se, s, e, j, d, d2, r, r2, f, f2), Fares(s, e, j, d2, r2, f2)
    PROVE  Recorded([se EXCEPT ![s] = e], j, next, d2, r2, f2)
<1> DEFINE se2 == [se EXCEPT ![s] = e]
<1>1. RecordTypes(se, j, next, r, f) /\ Sequenced(se, j, next, d)
  BY DEF Recorded
<1>2. /\ se \in [Sessions -> Session] /\ j \in Seq(Sessions) /\ Len(j) <= RecordSize /\ next \in TxNr
      /\ \A i \in 1..Len(j) : j[i] \in Sessions
      /\ Len(j) \in Nat
  BY <1>1 DEF RecordTypes
<1>3. /\ se2 \in [Sessions -> Session] /\ se2[s] = e /\ \A p \in Sessions : p # s => se2[p] = se[p]
  BY <1>2
<1>4. \A p \in Sessions : se2[p].nr = se[p].nr
  BY <1>3 DEF Goes
<1>4a. \A p \in Sessions : se[p].nr \in TxNr
  BY <1>2 DEF Session
<1>5. RecordTypes(se2, j, next, r2, f2)
  BY <1>2, <1>3 DEF RecordTypes
<1>6. d \subseteq d2
  BY DEF Goes
<1> HIDE DEF se2
<1>7. Sequenced(se2, j, next, d2)
  <2>1. \A i \in 1..Len(j) : se2[j[i]].stage # "none" /\ se2[j[i]].nr = Back(next, Len(j) - i + 1)
    BY <1>1, <1>2, <1>3, <1>4 DEF Sequenced, Goes
  <2>2. ASSUME NEW p \in Sessions, se2[p].stage # "none", se2[p].nr \notin d2, se2[p].stop # "answered"
        PROVE  Within(p, j)
    <3>1. CASE p = s
      BY <1>3, <2>2, <3>1 DEF Goes
    <3>2. CASE p # s
      BY <1>1, <1>3, <1>6, <2>2, <3>2 DEF Sequenced
    <3> QED
      BY <3>1, <3>2
  <2>3. ASSUME NEW p \in Sessions, Underway(se2[p]) PROVE j # <<>> /\ Last(j) = p
    <3>1. Underway(se[p])
      BY <1>3, <2>3 DEF Goes
    <3> QED
      BY <1>1, <3>1 DEF Sequenced
  <2> QED
    BY <2>1, <2>2, <2>3 DEF Sequenced
<1>8. Unused(se2, j, d2, r2, f2)
  <2>1. ASSUME NEW nr \in TxNr, nr \notin d2, \A i \in 1..Len(j) : se2[j[i]].nr # nr
        PROVE  r2.nr # nr /\ \A i \in Index : f2[nr][i] \in Lost
    <3>1. \A i \in 1..Len(j) : se[j[i]].nr # nr
      BY <1>2, <1>4, <2>1
    <3>2. r.nr # nr /\ \A i \in Index : f[nr][i] \in Lost
      BY <1>6, <2>1, <3>1 DEF Recorded, Unused
    <3>3. CASE nr # e.nr
      BY <2>1, <3>2, <3>3 DEF Goes
    <3>4. CASE nr = e.nr
      <4>1. ~Within(s, j)
        BY <1>3, <2>1, <3>4 DEF Within
      <4> QED
        BY <2>1, <3>2, <3>4, <4>1 DEF Goes
    <3> QED
      BY <3>3, <3>4
  <2> QED
    BY <2>1 DEF Unused
<1>9. Owned(se2, j, d2, r2, f2)
  <2>1. ASSUME NEW p \in Sessions, se2[p].nr \notin d2, Within(p, j)
        PROVE  \E m \in 0..MaxData : OwnFiles(p, se2[p], m, r2, f2[se2[p].nr])
    <3>1. CASE p = s
      BY <1>3, <2>1, <3>1 DEF Fares
    <3>2. CASE p # s
      <4>1. PICK m \in 0..MaxData : OwnFiles(p, se[p], m, r, f[se[p].nr])
        BY <1>3, <1>6, <2>1, <3>2 DEF Recorded, Owned
      <4>2. CASE se[p].nr # e.nr
        <5>1. f2[se[p].nr] = f[se[p].nr] /\ (r.nr = se[p].nr \/ r2.nr = se[p].nr => r2 = r)
          BY <1>3, <1>4a, <2>1, <3>2, <4>2 DEF Goes
        <5>2. OwnFiles(p, se[p], m, r2, f2[se[p].nr])
          BY <4>1, <5>1 DEF OwnFiles
        <5> QED
          BY <1>3, <3>2, <5>2
      <4>3. CASE se[p].nr = e.nr
        <5>1. ~Within(s, j)
          BY <1>1, <2>1, <3>2, <4>3, SessionApart DEF Goes
        <5>2. f2[se[p].nr] = f[se[p].nr] /\ r2 = r
          BY <1>3, <2>1, <3>2, <4>3, <5>1 DEF Goes
        <5> QED
          BY <1>3, <3>2, <4>1, <5>2
      <4> QED
        BY <4>2, <4>3
    <3> QED
      BY <3>1, <3>2
  <2> QED
    BY <2>1 DEF Owned
<1>10. Staged(se2, d2)
  <2>1. ASSUME NEW p \in Sessions
        PROVE  /\ se2[p].stage = "none" => se2[p].start = "none" /\ se2[p].stop = "none"
               /\ se2[p].stage = "over" => se2[p].stop # "none"
               /\ Underway(se2[p]) => se2[p].stop = "none"
               /\ se2[p].stage = "discarded" \/ se2[p].silent => se2[p].nr \in d2
               /\ se2[p].stage = "begun" /\ ~se2[p].cut => se2[p].taken = 0 /\ ~se2[p].failed
    <3>1. CASE p = s
      BY <1>3, <3>1 DEF Fares, Goes
    <3>2. CASE p # s
      <4>1. se2[p] = se[p]
        BY <1>3, <3>2
      <4> QED
        BY <1>6, <4>1 DEF Recorded, Staged
    <3> QED
      BY <3>1, <3>2
  <2> QED
    BY <2>1 DEF Staged
<1>11. Delivered(se2, d2)
  <2>1. ASSUME NEW p \in Sessions, se2[p].stop \in {"ram", "answered"}, se2[p].nr \notin d2
        PROVE  Reported(p, se2[p])
    <3>1. CASE p = s
      BY <1>3, <2>1, <3>1 DEF Fares
    <3>2. CASE p # s
      BY <1>3, <1>6, <2>1, <3>2 DEF Recorded, Delivered
    <3> QED
      BY <3>1, <3>2
  <2> QED
    BY <2>1 DEF Delivered
<1> QED
  BY <1>5, <1>7, <1>8, <1>9, <1>10, <1>11 DEF Recorded, se2

\* Numbers that lie back from a number, and from the next one.
LEMMA BackIs ==
    ASSUME NEW next \in TxNr, NEW k \in 1..RecordSize
    PROVE  /\ Back(next, k) \in TxNr /\ Back(next, k + 1) = Back(Back(next, 1), k)
           /\ LET later == (next + 1) % TxCnt IN
                /\ later \in TxNr /\ Back(later, 1) = next /\ Back(later, k + 1) = Back(next, k)
           /\ Back(next, k) # next
<1>1. RecordSize \in Nat /\ TxCnt \in Nat /\ RecordSize + 1 < TxCnt /\ next \in 0..(TxCnt - 1) /\ TxNr = 0..(TxCnt - 1)
  BY MeterAssumption, MeterConstants
<1>2. (next + 1) % TxCnt = IF next = TxCnt - 1 THEN 0 ELSE next + 1
  <2>1. CASE next = TxCnt - 1
    BY <1>1, <2>1
  <2>2. CASE next # TxCnt - 1
    <3>1. next + 1 \in 0..(TxCnt - 1)
      BY <1>1, <2>2
    <3> QED
      BY <1>1, <2>2, <3>1
  <2> QED
    BY <2>1, <2>2
<1> DEFINE later == (next + 1) % TxCnt
<1>3. later = IF next = TxCnt - 1 THEN 0 ELSE next + 1
  BY <1>2
<1> HIDE DEF later
<1>4. later \in TxNr /\ Back(later, 1) = next /\ Back(later, k + 1) = Back(next, k)
  BY <1>1, <1>3 DEF Back
<1>5. Back(next, k) \in TxNr /\ Back(next, k + 1) = Back(Back(next, 1), k) /\ Back(next, k) # next
  BY <1>1 DEF Back
<1> QED
  BY <1>4, <1>5 DEF later

\* The number before.
LEMMA BackOne ==
    ASSUME NEW next \in TxNr
    PROVE  /\ Back(next, 1) \in TxNr
           /\ LET later == (next + 1) % TxCnt IN later \in TxNr /\ Back(later, 1) = next
<1>1. 1 \in 1..RecordSize
  BY MeterConstants
<1> QED
  BY <1>1, BackIs

\* The last transaction is taken from the journal, and its number will be used again.
LEMMA PopLast ==
    ASSUME NEW se, NEW j, NEW next, NEW d, NEW r, NEW f, Recorded(se, j, next, d, r, f),
           j # <<>>, se[Last(j)].nr \in d, ~Underway(se[Last(j)])
    PROVE  Recorded(se, Front(j), se[Last(j)].nr, d, r, f)
<1> DEFINE c == Front(j)
           s == Last(j)
           n == Len(j)
           back == se[Last(j)].nr
<1>1. RecordTypes(se, j, next, r, f) /\ Sequenced(se, j, next, d)
  BY DEF Recorded
<1>2. /\ se \in [Sessions -> Session] /\ j \in Seq(Sessions) /\ n <= RecordSize /\ next \in TxNr
      /\ \A i \in 1..n : j[i] \in Sessions
      /\ n \in Nat /\ n # 0 /\ RecordSize \in Nat
  BY <1>1, MeterConstants DEF RecordTypes
<1>3. /\ c \in Seq(Sessions) /\ Len(c) = n - 1 /\ s = j[n] /\ s \in Sessions
      /\ \A i \in 1..(n - 1) : c[i] = j[i]
  BY <1>2, FrontIs
<1>4. back = Back(next, 1)
  <2>1. n - n + 1 = 1 /\ n \in 1..n
    BY <1>2
  <2> QED
    BY <1>1, <1>3, <2>1 DEF Sequenced
<1>5. back \in TxNr
  BY <1>2, <1>4, BackOne
<1>6. RecordTypes(se, c, back, r, f)
  BY <1>1, <1>2, <1>3, <1>5 DEF RecordTypes
<1>7. ASSUME NEW p \in Sessions, Within(p, j), se[p].nr \notin d PROVE Within(p, c)
  <2>1. PICK i \in 1..n : j[i] = p
    BY <1>7 DEF Within
  <2>2. i # n
    BY <1>3, <1>7, <2>1
  <2>3. i \in 1..(n - 1)
    BY <1>2, <2>2
  <2> QED
    BY <1>3, <2>1, <2>3 DEF Within
<1>8. \A p : Within(p, c) => Within(p, j)
  <2>1. \A i \in 1..Len(c) : i \in 1..n /\ c[i] = j[i]
    BY <1>2, <1>3
  <2> QED
    BY <2>1 DEF Within
<1> HIDE DEF c, s, n, back
<1>9. Sequenced(se, c, back, d)
  <2>1. ASSUME NEW i \in 1..Len(c) PROVE se[c[i]].stage # "none" /\ se[c[i]].nr = Back(back, Len(c) - i + 1)
    <3>1. i \in 1..n /\ c[i] = j[i]
      BY <1>2, <1>3
    <3>2. se[j[i]].stage # "none" /\ se[j[i]].nr = Back(next, n - i + 1)
      BY <1>1, <3>1 DEF Sequenced, n
    <3> DEFINE k == n - i
    <3>3. k \in 1..RecordSize /\ Len(c) - i + 1 = k /\ n - i + 1 = k + 1
      BY <1>2, <1>3
    <3> HIDE DEF k
    <3>4. Back(next, k + 1) = Back(Back(next, 1), k)
      BY <1>2, <3>3, BackIs
    <3>5. se[c[i]].nr = Back(next, k + 1)
      BY <3>1, <3>2, <3>3
    <3> QED
      BY <1>4, <3>1, <3>2, <3>3, <3>4, <3>5, Zenon
  <2>2. ASSUME NEW p \in Sessions, se[p].stage # "none", se[p].nr \notin d, se[p].stop # "answered"
        PROVE  Within(p, c)
    BY <1>1, <1>7, <2>2 DEF Sequenced
  <2>3. ASSUME NEW p \in Sessions, Underway(se[p]) PROVE FALSE
    BY <1>1, <2>3 DEF Sequenced, s
  <2> QED
    BY <2>1, <2>2, <2>3 DEF Sequenced
<1>10. Unused(se, c, d, r, f)
  <2>1. ASSUME NEW nr \in TxNr, nr \notin d, \A i \in 1..Len(c) : se[c[i]].nr # nr
        PROVE  \A i \in 1..n : se[j[i]].nr # nr
    <3>1. ASSUME NEW i \in 1..n PROVE se[j[i]].nr # nr
      <4>1. CASE i = n
        BY <1>3, <2>1, <4>1 DEF s
      <4>2. CASE i # n
        <5>1. i \in 1..Len(c) /\ c[i] = j[i]
          BY <1>2, <1>3, <4>2
        <5> QED
          BY <2>1, <5>1
      <4> QED
        BY <4>1, <4>2
    <3> QED
      BY <3>1
  <2> QED
    BY <2>1 DEF Recorded, Unused, n
<1>11. Owned(se, c, d, r, f)
  BY <1>8 DEF Recorded, Owned
<1> QED
  BY <1>6, <1>9, <1>10, <1>11 DEF Recorded, c, back

\* The first transaction is taken from the journal once its StopTransaction is answered and its
\* values are gone.
LEMMA PopFirst ==
    ASSUME NEW se, NEW j, NEW next, NEW d, NEW r, NEW f, Recorded(se, j, next, d, r, f),
           j # <<>>, se[Head(j)].stop = "answered",
           LET nr == se[Head(j)].nr IN nr \notin d => r.nr # nr /\ \A i \in Index : f[nr][i] \in Lost
    PROVE  Recorded(se, Tail(j), next, d, r, f)
<1> DEFINE c == Tail(j)
           s == Head(j)
           n == Len(j)
<1>1. RecordTypes(se, j, next, r, f) /\ Sequenced(se, j, next, d)
  BY DEF Recorded
<1>2. /\ se \in [Sessions -> Session] /\ j \in Seq(Sessions) /\ n <= RecordSize /\ next \in TxNr
      /\ \A i \in 1..n : j[i] \in Sessions
      /\ n \in Nat /\ n # 0 /\ RecordSize \in Nat
  BY <1>1, MeterConstants DEF RecordTypes
<1>3. /\ c \in Seq(Sessions) /\ Len(c) = n - 1 /\ s = j[1] /\ s \in Sessions
      /\ \A i \in 1..(n - 1) : c[i] = j[i + 1]
  BY <1>2, HeadTailProperties
<1>6. RecordTypes(se, c, next, r, f)
  BY <1>1, <1>2, <1>3 DEF RecordTypes
<1>7. ASSUME NEW p \in Sessions, Within(p, j), p # s PROVE Within(p, c)
  <2>1. PICK i \in 1..n : j[i] = p
    BY <1>7 DEF Within
  <2>2. i # 1
    BY <1>3, <1>7, <2>1
  <2>3. i - 1 \in 1..(n - 1) /\ i - 1 + 1 = i
    BY <1>2, <2>2
  <2>4. c[i - 1] = p /\ i - 1 \in 1..Len(c)
    BY <1>3, <2>1, <2>3
  <2> QED
    BY <2>4 DEF Within
<1>8. \A p : Within(p, c) => Within(p, j)
  <2>1. \A i \in 1..Len(c) : i + 1 \in 1..n /\ c[i] = j[i + 1]
    BY <1>2, <1>3
  <2> QED
    BY <2>1 DEF Within
<1> HIDE DEF c, s, n
<1>9. Sequenced(se, c, next, d)
  <2>1. ASSUME NEW i \in 1..Len(c) PROVE se[c[i]].stage # "none" /\ se[c[i]].nr = Back(next, Len(c) - i + 1)
    <3>1. i + 1 \in 1..n /\ c[i] = j[i + 1]
      BY <1>2, <1>3
    <3>2. se[j[i + 1]].stage # "none" /\ se[j[i + 1]].nr = Back(next, n - (i + 1) + 1)
      BY <1>1, <3>1 DEF Sequenced, n
    <3>3. n - (i + 1) + 1 = Len(c) - i + 1
      BY <1>2, <1>3
    <3> QED
      BY <3>1, <3>2, <3>3
  <2>2. ASSUME NEW p \in Sessions, se[p].stage # "none", se[p].nr \notin d, se[p].stop # "answered"
        PROVE  Within(p, c)
    BY <1>1, <1>7, <2>2 DEF Sequenced, s
  <2>3. ASSUME NEW p \in Sessions, Underway(se[p]) PROVE c # <<>> /\ Last(c) = p
    <3>1. Last(j) = p /\ se[p].stop = "none" /\ Last(j) = j[n]
      BY <1>1, <2>3 DEF Sequenced, Recorded, Staged, Last, n
    <3>2. n # 1
      BY <1>3, <3>1 DEF s
    <3>3. Len(c) \in 1..(n - 1) /\ Len(c) + 1 = n
      BY <1>2, <1>3, <3>2
    <3>4. c[Len(c)] = p /\ c # <<>>
      BY <1>3, <3>1, <3>3
    <3> QED
      BY <3>4 DEF Last
  <2> QED
    BY <2>1, <2>2, <2>3 DEF Sequenced
<1>10. Unused(se, c, d, r, f)
  <2>1. ASSUME NEW nr \in TxNr, nr \notin d, \A i \in 1..Len(c) : se[c[i]].nr # nr
        PROVE  r.nr # nr /\ \A i \in Index : f[nr][i] \in Lost
    <3>1. CASE nr = se[s].nr
      BY <2>1, <3>1 DEF s
    <3>2. CASE nr # se[s].nr
      <4>1. ASSUME NEW i \in 1..n PROVE se[j[i]].nr # nr
        <5>1. CASE i = 1
          BY <1>3, <3>2, <5>1
        <5>2. CASE i # 1
          <6>1. i - 1 \in 1..Len(c) /\ c[i - 1] = j[i - 1 + 1] /\ i - 1 + 1 = i
            BY <1>2, <1>3, <5>2
          <6> QED
            BY <2>1, <6>1
        <5> QED
          BY <5>1, <5>2
      <4> QED
        BY <2>1, <4>1 DEF Recorded, Unused, n
    <3> QED
      BY <3>1, <3>2
  <2> QED
    BY <2>1 DEF Unused
<1>11. Owned(se, c, d, r, f)
  BY <1>8 DEF Recorded, Owned
<1> QED
  BY <1>6, <1>9, <1>10, <1>11 DEF Recorded, c

\* A transaction begins with the next number.
LEMMA BeginNew ==
    ASSUME NEW se, NEW j, NEW next, NEW d, NEW r, NEW f, Recorded(se, j, next, d, r, f),
           NEW s \in Sessions, se[s].stage = "none", Len(j) < RecordSize,
           \A p \in Sessions : ~Underway(se[p])
    PROVE  Recorded([se EXCEPT ![s] = NewSession(next, "begun")], Append(j, s), (next + 1) % TxCnt, d, r, f)
<1> DEFINE c == Append(j, s)
           n == Len(j)
           e == NewSession(next, "begun")
           later == (next + 1) % TxCnt
           se2 == [se EXCEPT ![s] = e]
<1>1. RecordTypes(se, j, next, r, f) /\ Sequenced(se, j, next, d)
  BY DEF Recorded
<1>2. /\ se \in [Sessions -> Session] /\ j \in Seq(Sessions) /\ n <= RecordSize /\ next \in TxNr
      /\ \A i \in 1..n : j[i] \in Sessions /\ j[i] # s
      /\ n \in Nat /\ RecordSize \in Nat
  BY <1>1, MeterConstants DEF RecordTypes, Sequenced
<1>3. /\ c \in Seq(Sessions) /\ Len(c) = n + 1 /\ c[n + 1] = s
      /\ \A i \in 1..n : c[i] = j[i]
  BY <1>2, AppendProperties
<1>4. /\ e \in Session /\ e.nr = next /\ e.stage = "begun" /\ ~e.silent /\ e.stop = "none"
      /\ e.taken = 0 /\ ~e.cut /\ ~e.failed
  BY <1>2 DEF NewSession, Session
<1> HIDE DEF e
<1>5. se2 \in [Sessions -> Session] /\ se2[s] = e /\ \A p \in Sessions : p # s => se2[p] = se[p]
  BY <1>2, <1>4
<1>6. later \in TxNr /\ Back(later, 1) = next /\ \A k \in 1..RecordSize : Back(later, k + 1) = Back(next, k)
      /\ Back(next, k) # next
  BY <1>2, BackOne, BackIs
<1>7. RecordTypes(se2, c, later, r, f)
  BY <1>1, <1>2, <1>3, <1>5, <1>6 DEF RecordTypes
<1> HIDE DEF c, n, later, se2
<1>8. \A p : Within(p, c) <=> Within(p, j) \/ p = s
  <2>1. ASSUME NEW p, Within(p, c) PROVE Within(p, j) \/ p = s
    <3>1. PICK i \in 1..Len(c) : c[i] = p
      BY <2>1 DEF Within
    <3>2. CASE i = n + 1
      BY <1>3, <3>1, <3>2
    <3>3. CASE i # n + 1
      <4>1. i \in 1..n /\ j[i] = p
        BY <1>2, <1>3, <3>1, <3>3
      <4> QED
        BY <4>1 DEF Within, n
    <3> QED
      BY <3>2, <3>3
  <2>2. ASSUME NEW p, Within(p, j) \/ p = s PROVE Within(p, c)
    <3>1. n + 1 \in 1..Len(c) /\ \A i \in 1..n : i \in 1..Len(c) /\ c[i] = j[i]
      BY <1>2, <1>3
    <3> QED
      BY <1>3, <2>2, <3>1 DEF Within, n
  <2> QED
    BY <2>1, <2>2
<1>9. \A i \in 1..n : se[j[i]].nr # next
  <2>1. ASSUME NEW i \in 1..n PROVE se[j[i]].nr # next
    <3>1. n - i + 1 \in 1..RecordSize /\ se[j[i]].nr = Back(next, n - i + 1)
      BY <1>1, <1>2 DEF Sequenced, n
    <3> QED
      BY <1>6, <3>1
  <2> QED
    BY <2>1
<1>10. next \notin d => r.nr # next /\ \A i \in Index : f[next][i] \in Lost
  BY <1>2, <1>9 DEF Recorded, Unused, n
<1>11. Sequenced(se2, c, later, d)
  <2>1. ASSUME NEW i \in 1..Len(c) PROVE se2[c[i]].stage # "none" /\ se2[c[i]].nr = Back(later, Len(c) - i + 1)
    <3>1. CASE i = n + 1
      <4>1. Len(c) - i + 1 = 1
        BY <1>2, <1>3, <3>1
      <4> QED
        BY <1>3, <1>4, <1>5, <1>6, <3>1, <4>1
    <3>2. CASE i # n + 1
      <4>1. i \in 1..n /\ n - i + 1 \in 1..RecordSize /\ Len(c) - i + 1 = (n - i + 1) + 1
        BY <1>2, <1>3, <3>2
      <4>2. se[j[i]].stage # "none" /\ se[j[i]].nr = Back(next, n - i + 1) /\ c[i] = j[i] /\ se2[j[i]] = se[j[i]]
        BY <1>1, <1>2, <1>3, <1>5, <4>1 DEF Sequenced, n
      <4> QED
        BY <1>6, <4>1, <4>2
    <3> QED
      BY <3>1, <3>2
  <2>2. ASSUME NEW p \in Sessions, se2[p].stage # "none", se2[p].nr \notin d, se2[p].stop # "answered"
        PROVE  Within(p, c)
    BY <1>1, <1>5, <1>8, <2>2 DEF Sequenced
  <2>3. ASSUME NEW p \in Sessions, Underway(se2[p]) PROVE c # <<>> /\ Last(c) = p
    <3>1. p = s
      BY <1>5, <2>3
    <3> QED
      BY <1>2, <1>3, <3>1 DEF Last
  <2> QED
    BY <2>1, <2>2, <2>3 DEF Sequenced
<1>12. Unused(se2, c, d, r, f)
  <2>1. ASSUME NEW nr \in TxNr, nr \notin d, \A i \in 1..Len(c) : se2[c[i]].nr # nr
        PROVE  \A i \in 1..n : se[j[i]].nr # nr
    <3>1. \A i \in 1..n : i \in 1..Len(c) /\ c[i] = j[i] /\ se2[j[i]] = se[j[i]]
      BY <1>2, <1>3, <1>5
    <3> QED
      BY <2>1, <3>1
  <2> QED
    BY <2>1 DEF Recorded, Unused, n
<1>13. Owned(se2, c, d, r, f)
  <2>1. ASSUME NEW p \in Sessions, se2[p].nr \notin d, Within(p, c)
        PROVE  \E m \in 0..MaxData : OwnFiles(p, se2[p], m, r, f[se2[p].nr])
    <3>1. CASE p = s
      <4>1. r.nr # next /\ \A i \in Index : f[next][i] \in Lost
        BY <1>4, <1>5, <1>10, <2>1, <3>1
      <4>2. MaxData \in Nat \ {0} /\ Index = 0..(MaxData - 1)
        BY MeterConstants
      <4>3. Filled(s, 0, 0, f[next]) /\ Whole(s, 0, 0, f[next])
        BY <4>1, <4>2 DEF Filled, Whole
      <4>4. OwnFiles(s, e, 0, r, f[next])
        BY <1>4, <4>1, <4>3 DEF OwnFiles
      <4> QED
        BY <1>4, <1>5, <3>1, <4>2, <4>4
    <3>2. CASE p # s
      BY <1>5, <1>8, <2>1, <3>2 DEF Recorded, Owned
    <3> QED
      BY <3>1, <3>2
  <2> QED
    BY <2>1 DEF Owned
<1>14. Staged(se2, d)
  <2>1. ASSUME NEW p \in Sessions
        PROVE  /\ se2[p].stage = "none" => se2[p].start = "none" /\ se2[p].stop = "none"
               /\ se2[p].stage = "over" => se2[p].stop # "none"
               /\ Underway(se2[p]) => se2[p].stop = "none"
               /\ se2[p].stage = "discarded" \/ se2[p].silent => se2[p].nr \in d
               /\ se2[p].stage = "begun" /\ ~se2[p].cut => se2[p].taken = 0 /\ ~se2[p].failed
    <3>1. CASE p = s
      BY <1>4, <1>5, <3>1
    <3>2. CASE p # s
      <4>1. se2[p] = se[p]
        BY <1>5, <3>2
      <4> QED
        BY <4>1 DEF Recorded, Staged
    <3> QED
      BY <3>1, <3>2
  <2> QED
    BY <2>1 DEF Staged
<1>15. Delivered(se2, d)
  BY <1>4, <1>5 DEF Recorded, Delivered
<1> QED
  BY <1>7, <1>11, <1>12, <1>13, <1>14, <1>15 DEF Recorded, c, later, se2, e

\* What a power cut leaves of the sessions.
CutSession(e) ==
    [e EXCEPT !.start = IF @ = "ram" THEN "flash" ELSE @,
              !.stop = IF @ = "ram" THEN "flash" ELSE @,
              !.data = IF e.stop = "ram" THEN <<>> ELSE @,
              !.cut = @ \/ e.stage \in {"running", "ending"}]
CutOf(se) == [s \in Sessions |-> CutSession(se[s])]

\* What a cut makes of a session.
LEMMA CutSessionIs ==
    ASSUME NEW e \in Session
    PROVE  LET c == CutSession(e)
           IN  /\ c \in Session /\ c.nr = e.nr /\ c.stage = e.stage /\ c.silent = e.silent /\ c.taken = e.taken
               /\ c.failed = e.failed /\ c.stop = (IF e.stop = "ram" THEN "flash" ELSE e.stop)
               /\ c.data = (IF e.stop = "ram" THEN <<>> ELSE e.data) /\ (e.start = "none" => c.start = "none")
               /\ (c.cut <=> e.cut \/ e.stage \in {"running", "ending"})
<1> DEFINE start == IF e.start = "ram" THEN "flash" ELSE e.start
           stop == IF e.stop = "ram" THEN "flash" ELSE e.stop
           data == IF e.stop = "ram" THEN <<>> ELSE e.data
           cut == e.cut \/ e.stage \in {"running", "ending"}
           c == [e EXCEPT !.start = start, !.stop = stop, !.data = data, !.cut = cut]
<1>1. CutSession(e) = c
  BY DEF CutSession, Session
<1>2. /\ start \in {"none", "ram", "flash", "answered", "lost"} /\ stop \in {"none", "ram", "flash", "answered", "lost"}
      /\ data \in Seq(Value) /\ cut \in BOOLEAN
  BY DEF Session
<1> HIDE DEF start, stop, data, cut
<1>3. /\ c \in Session /\ c.nr = e.nr /\ c.stage = e.stage /\ c.silent = e.silent /\ c.taken = e.taken
      /\ c.failed = e.failed /\ c.start = start /\ c.stop = stop /\ c.data = data /\ c.cut = cut
  BY <1>2 DEF Session
<1> HIDE DEF c
<1> QED
  BY <1>1, <1>3 DEF start, stop, data, cut

\* The power is cut: the record in RAM is lost, and a transaction that ran is no longer whole.
LEMMA CutStep ==
    ASSUME NEW se, NEW j, NEW next, NEW d, NEW r, NEW f, Recorded(se, j, next, d, r, f)
    PROVE  Recorded(CutOf(se), j, next, d, NoRecord, f)
<1> DEFINE se2 == CutOf(se)
<1>1. RecordTypes(se, j, next, r, f) /\ Sequenced(se, j, next, d)
  BY DEF Recorded
<1>2. /\ se \in [Sessions -> Session] /\ \A s \in Sessions : se[s] \in Session /\ se[s].nr \in TxNr
      /\ \A i \in 1..Len(j) : j[i] \in Sessions
  BY <1>1 DEF RecordTypes, Session
<1>3. \A s \in Sessions : se2[s] = CutSession(se[s])
  BY DEF CutOf
<1>4. \A s \in Sessions : se2[s] \in Session
  BY <1>2, <1>3, CutSessionIs
<1>5. \A s \in Sessions :
        /\ se2[s].nr = se[s].nr /\ se2[s].stage = se[s].stage /\ se2[s].silent = se[s].silent
        /\ se2[s].taken = se[s].taken /\ se2[s].failed = se[s].failed
        /\ se2[s].stop = (IF se[s].stop = "ram" THEN "flash" ELSE se[s].stop)
        /\ se2[s].data = (IF se[s].stop = "ram" THEN <<>> ELSE se[s].data)
        /\ (se[s].start = "none" => se2[s].start = "none")
        /\ (se2[s].cut <=> se[s].cut \/ se[s].stage \in {"running", "ending"})
  BY <1>2, <1>3, CutSessionIs
<1>6. se2 \in [Sessions -> Session]
  BY <1>4 DEF CutOf
<1>7. NoRecord \in Recording /\ NoRecord.nr = -1 /\ -1 \notin TxNr
  BY RecordType, MeterConstants DEF NoRecord, NrOrNone
<1>8. RecordTypes(se2, j, next, NoRecord, f)
  BY <1>1, <1>6, <1>7 DEF RecordTypes
<1>9. \A s \in Sessions : Underway(se2[s]) <=> Underway(se[s])
  BY <1>5 DEF Underway
<1> HIDE DEF se2
<1>10. Sequenced(se2, j, next, d)
  BY <1>1, <1>2, <1>5, <1>9 DEF Sequenced
<1>11. Unused(se2, j, d, NoRecord, f)
  BY <1>2, <1>5, <1>7 DEF Recorded, Unused
<1>12. Staged(se2, d)
  <2>1. Staged(se, d)
    BY DEF Recorded
  <2> QED
    BY <1>5, <1>9, <2>1 DEF Staged
<1>13. Owned(se2, j, d, NoRecord, f)
  <2>1. ASSUME NEW s \in Sessions, se2[s].nr \notin d, Within(s, j)
        PROVE  \E m \in 0..MaxData : OwnFiles(s, se2[s], m, NoRecord, f[se2[s].nr])
    <3>1. PICK m \in 0..MaxData : OwnFiles(s, se[s], m, r, f[se[s].nr])
      BY <1>5, <2>1 DEF Recorded, Owned
    <3>2. ASSUME ~se2[s].cut, ~se2[s].failed, se2[s].stop = "none" PROVE ~(se2[s].taken > 0)
      <4>1. ~se[s].cut /\ se[s].stop = "none" /\ se[s].stage \notin {"running", "ending"}
        BY <1>5, <3>2
      <4>2. se[s].stage = "begun"
        <5>1. PICK i \in 1..Len(j) : j[i] = s
          BY <2>1 DEF Within
        <5>2. se[s].stage # "none"
          BY <1>1, <5>1 DEF Sequenced
        <5>3. se[s].stage # "over" /\ se[s].stage # "discarded"
          BY <1>5, <2>1, <4>1 DEF Recorded, Staged
        <5> QED
          BY <1>2, <4>1, <5>2, <5>3 DEF Session
      <4> QED
        BY <1>5, <4>1, <4>2 DEF Recorded, Staged
    <3>3. NoRecord.nr # se2[s].nr
      BY <1>2, <1>5, <1>7
    <3>4. OwnFiles(s, se2[s], m, NoRecord, f[se2[s].nr])
      BY <1>5, <3>1, <3>2, <3>3 DEF OwnFiles
    <3> QED
      BY <3>4
  <2> QED
    BY <2>1 DEF Owned
<1>14. Delivered(se2, d)
  <2>1. ASSUME NEW s \in Sessions, se2[s].stop \in {"ram", "answered"}, se2[s].nr \notin d PROVE Reported(s, se2[s])
    <3>1. se[s].stop = "answered" /\ se2[s].data = se[s].data
      BY <1>5, <2>1
    <3>2. Reported(s, se[s])
      BY <1>5, <2>1, <3>1 DEF Recorded, Delivered
    <3> QED
      BY <1>5, <3>1, <3>2 DEF Reported
  <2> QED
    BY <2>1 DEF Delivered
<1> QED
  BY <1>8, <1>10, <1>11, <1>12, <1>13, <1>14 DEF Recorded, se2

\* remove searches for the file of value i.
CountStep(nr, f, s, i) ==
    IF s.misses >= MissesLimit THEN s
    ELSE IF f[nr][i] = Missing THEN [s EXCEPT !.misses = @ + 1]
    ELSE [count |-> i + 1, misses |-> 0]
CountBase == [count |-> 0, misses |-> 0]
Counts == [count : 0..MaxData, misses : Nat]

\* One look of the search for the files to be removed.
LEMMA CountStepType ==
    ASSUME NEW nr, NEW f, NEW s \in Counts, NEW i \in Index
    PROVE  CountStep(nr, f, s, i) \in Counts
<1> DEFINE k == s.misses + 1
<1>1. k \in Nat /\ i + 1 \in 0..MaxData
  BY MeterConstants DEF Counts
<1>2. \/ CountStep(nr, f, s, i) = s
      \/ CountStep(nr, f, s, i) = [s EXCEPT !.misses = k]
      \/ CountStep(nr, f, s, i) = [count |-> i + 1, misses |-> 0]
  BY DEF CountStep
<1> HIDE DEF k
<1> QED
  BY <1>1, <1>2 DEF Counts

\* The search goes through all indices.
LEMMA CountRuns ==
    ASSUME NEW r, NEW nr, NEW f, ~(r.nr = nr /\ r.mvCount > 0)
    PROVE  \E g : /\ g[0] = CountBase /\ \A k \in 0..MaxData : g[k] \in Counts
                  /\ \A k \in 1..MaxData : g[k] = CountStep(nr, f, g[k - 1], k - 1)
                  /\ Counted(r, nr, f) = g[MaxData].count
<1> DEFINE n == MaxData
           T == Counts
           base == CountBase
           elems == [i \in 1..MaxData |-> i - 1]
           next == [p \in T \X (1..n) |-> CountStep(nr, f, p[1], p[2] - 1)]
           Iter(C) == C = [u \in SUBSET DOMAIN elems |->
                             IF u = {} THEN base ELSE CountStep(nr, f, C[u \ {Max(u)}], elems[Max(u)])]
<1>1. n \in Nat /\ DOMAIN elems = 1..n /\ \A i \in 1..n : elems[i] \in Index /\ elems[i] = i - 1
  BY MeterConstants
<1>2. base \in T
  BY MeterConstants DEF CountBase, Counts
<1>3. next \in [T \X (1..n) -> T]
  <2>1. ASSUME NEW p \in T \X (1..n) PROVE CountStep(nr, f, p[1], p[2] - 1) \in T
    <3>1. p[1] \in T /\ p[2] \in 1..n /\ p[2] - 1 \in Index
      BY <1>1
    <3> QED
      BY <3>1, CountStepType
  <2> QED
    BY <2>1
<1>4. \E C : Iter(C)
  <2>1. PICK F \in [SUBSET (1..n) -> T] : Iterates(F, n, base, next)
    BY <1>1, <1>2, <1>3, FoldExists, Zenon
  <2>2. ASSUME NEW u \in SUBSET (1..n), u # {}
        PROVE  next[<<F[u \ {Max(u)}], Max(u)>>] = CountStep(nr, f, F[u \ {Max(u)}], elems[Max(u)])
    <3>1. Max(u) \in 1..n /\ elems[Max(u)] = Max(u) - 1
      BY <1>1, <2>2, MaxIn
    <3>2. <<F[u \ {Max(u)}], Max(u)>> \in T \X (1..n)
      BY <3>1
    <3> HIDE DEF elems, T, n
    <3>3. next[<<F[u \ {Max(u)}], Max(u)>>] = CountStep(nr, f, F[u \ {Max(u)}], Max(u) - 1)
      BY <3>2
    <3> QED
      BY <3>1, <3>3
  <2> HIDE DEF next, T, base, elems, n
  <2>3. Iter(F)
    BY <1>1, <2>1, <2>2 DEF Iterates
  <2> QED
    BY <2>3
<1>5. PICK C : Iter(C) /\ Counted(r, nr, f) = C[DOMAIN elems].count
  BY <1>4, Zenon DEF Counted, FoldLeft, MapThenFoldSet, CountStep, CountBase
<1>6. C[{}] = base
  <2> HIDE DEF elems, base, n
  <2> QED
    BY <1>5
<1>7. ASSUME NEW k \in 1..n
      PROVE  C[1..k] = CountStep(nr, f, C[1..(k - 1)], k - 1)
  <2>1. 1..k \in SUBSET DOMAIN elems /\ 1..k # {} /\ Max(1..k) = k /\ (1..k) \ {Max(1..k)} = 1..(k - 1)
    BY <1>1, Places
  <2>2. elems[k] = k - 1
    BY <1>1
  <2> HIDE DEF elems, base, n
  <2>3. C[1..k] = CountStep(nr, f, C[(1..k) \ {Max(1..k)}], elems[Max(1..k)])
    BY <1>5, <2>1
  <2> QED
    BY <2>1, <2>2, <2>3
<1>8. \A k \in 1..n : C[1..(k - 1)] \in T => C[1..k] = next[<<C[1..(k - 1)], k>>]
  <2> HIDE DEF elems, base, n, T
  <2> QED
    BY <1>1, <1>7
<1>9. Follows(C, n, T, base, next)
  <2> HIDE DEF T, base, next, n, elems
  <2> QED
    BY <1>1, <1>2, <1>3, <1>6, <1>8 DEF Follows
<1>10. PICK g : Runs(g, n, T, base, next) /\ g[n] = C[1..n]
  <2> HIDE DEF T, base, next, n, elems
  <2> QED
    BY <1>9, FoldRuns
<1>11. Counted(r, nr, f) = C[1..n].count
  <2> HIDE DEF T, base, next, n
  <2> QED
    BY <1>1, <1>5
<1>12. Counted(r, nr, f) = g[n].count
  <2> HIDE DEF T, base, next, n, elems
  <2> QED
    BY <1>10, <1>11
<1>13. /\ g[0] = base /\ \A k \in 0..n : g[k] \in T
       /\ \A k \in 1..n : g[k] = next[<<g[k - 1], k>>] /\ g[k - 1] \in T
  <2> HIDE DEF T, base, next, n, elems
  <2> QED
    BY <1>1, <1>10 DEF Runs
<1>14. ASSUME NEW k \in 1..n PROVE g[k] = CountStep(nr, f, g[k - 1], k - 1)
  <2>1. <<g[k - 1], k>> \in T \X (1..n)
    BY <1>13
  <2> QED
    BY <1>13, <2>1
<1> QED
  BY <1>12, <1>13, <1>14, Zenon DEF n, T, base

\* The search finds all values that lie in their files without a gap.
LEMMA CountedAll ==
    ASSUME NEW r, NEW nr, NEW f, ~(r.nr = nr /\ r.mvCount > 0), NEW m \in 0..MaxData,
           \A i \in 0..(m - 1) : f[nr][i] # Missing
    PROVE  Counted(r, nr, f) \in m..MaxData
<1>1. PICK g : /\ g[0] = CountBase /\ \A k \in 0..MaxData : g[k] \in Counts
               /\ \A k \in 1..MaxData : g[k] = CountStep(nr, f, g[k - 1], k - 1)
               /\ Counted(r, nr, f) = g[MaxData].count
  BY CountRuns
<1>0. MaxData \in Nat /\ MissesLimit \in Nat \ {0}
  BY MeterAssumption
<1> DEFINE Ok(s, k) == IF k <= m THEN s.count = k /\ s.misses = 0 ELSE s.count >= m
           S == {k \in 0..MaxData : Ok(g[k], k)}
<1>2. 0 \in S
  BY <1>0, <1>1 DEF CountBase
<1>3. ASSUME NEW k \in 1..MaxData, k - 1 \in S PROVE k \in S
  <2>1. g[k - 1] \in Counts /\ g[k] = CountStep(nr, f, g[k - 1], k - 1) /\ Ok(g[k - 1], k - 1)
    BY <1>0, <1>1, <1>3
  <2> DEFINE c == g[k - 1].misses + 1
  <2>2. /\ g[k] = g[k - 1] \/ g[k] = [g[k - 1] EXCEPT !.misses = c] \/ g[k] = [count |-> (k - 1) + 1, misses |-> 0]
        /\ g[k - 1].misses < MissesLimit /\ f[nr][k - 1] # Missing => g[k] = [count |-> (k - 1) + 1, misses |-> 0]
    BY <1>0, <2>1 DEF CountStep, Counts
  <2> HIDE DEF c
  <2>3. g[k].count = g[k - 1].count \/ g[k].count = k
    BY <2>1, <2>2 DEF Counts
  <2>4. CASE k <= m
    <3>1. g[k - 1].misses = 0 /\ f[nr][k - 1] # Missing
      BY <2>1, <2>4
    <3>2. g[k].count = k /\ g[k].misses = 0
      BY <1>0, <2>2, <3>1
    <3> QED
      BY <2>4, <3>2
  <2>5. CASE ~(k <= m)
    BY <2>1, <2>3, <2>5 DEF Counts
  <2> QED
    BY <2>4, <2>5
<1>4. \A k \in 0..MaxData : k \in S
  <2> HIDE DEF S
  <2> QED
    BY <1>0, <1>2, <1>3, Climb, Zenon
<1>5. g[MaxData] \in Counts /\ g[MaxData].count >= m
  <2>1. Ok(g[MaxData], MaxData) /\ g[MaxData] \in Counts
    BY <1>0, <1>1, <1>4
  <2> QED
    BY <1>0, <2>1 DEF Counts
<1> QED
  BY <1>0, <1>1, <1>5 DEF Counts

\* The files up to the count are removed.
LEMMA GoneIs ==
    ASSUME NEW r, NEW nr \in TxNr, NEW f \in MeterFiles, NEW i \in Index
    PROVE  Gone(r, nr, f)[nr][i] = IF i < Counted(r, nr, f) THEN Missing ELSE f[nr][i]
<1> DEFINE c == Counted(r, nr, f)
<1>1. Gone(r, nr, f) = [f EXCEPT ![nr] = [k \in Index |-> IF k < c THEN Missing ELSE @[k]]]
  BY Zenon DEF Gone
<1> HIDE DEF c
<1>2. Gone(r, nr, f)[nr][i] = IF i < c THEN Missing ELSE f[nr][i]
  BY <1>1 DEF MeterFiles
<1> QED
  BY <1>2 DEF c

\* After that search nothing is left.
LEMMA GoneAll ==
    ASSUME NEW r, NEW nr \in TxNr, NEW f \in MeterFiles, r.nr # nr, NEW s, NEW t, NEW m \in 0..MaxData,
           Filled(s, t, m, f[nr])
    PROVE  \A i \in Index : Gone(r, nr, f)[nr][i] \in Lost
<1>1. MaxData \in Nat \ {0} /\ Index = 0..(MaxData - 1)
  BY MeterConstants
<1>2. \A i \in 0..(m - 1) : i \in Index /\ f[nr][i] \in Value
  BY <1>1 DEF Filled, OwnTo
<1>3. \A i \in 0..(m - 1) : f[nr][i] # Missing
  BY <1>2, ValueAssumption DEF Lost
<1>4. Counted(r, nr, f) \in m..MaxData
  BY <1>3, CountedAll
<1>5. ASSUME NEW i \in Index PROVE Gone(r, nr, f)[nr][i] \in Lost
  <2>1. CASE i < Counted(r, nr, f)
    BY <2>1, GoneIs DEF Lost
  <2>2. CASE ~(i < Counted(r, nr, f))
    <3>1. ~(i < m)
      BY <1>1, <1>4, <2>2
    <3>2. f[nr][i] \in Lost
      BY <3>1 DEF Filled
    <3> QED
      BY <2>2, <3>2, GoneIs
  <2> QED
    BY <2>1, <2>2
<1> QED
  BY <1>5

\* restore: the values of files without a gap come back as they are.
LEMMA RestoredIs ==
    ASSUME NEW nr \in TxNr, NEW f \in MeterFiles, NEW s, NEW t, NEW m \in 0..MaxData, Filled(s, t, m, f[nr])
    PROVE  LET st == Restored(nr, f)
           IN  /\ Len(st.rec.txData) = m /\ (\A i \in 1..m : st.rec.txData[i] = f[nr][i - 1])
               /\ st.rec.mvCount = (IF m = 0 THEN 0 ELSE m - 1) /\ ~st.rec.finalized
               /\ \A i \in Index : st.file[nr][i] = f[nr][i] \/ (i >= m /\ st.file[nr][i] \in Lost)
               /\ \A q \in TxNr : q # nr => st.file[q] = f[q]
<1>1. PICK g : /\ g[0] = RestoreBase(nr, f) /\ \A k \in 0..MaxData : g[k] \in Restoring(nr)
               /\ \A k \in 1..MaxData : g[k] = RestoreStep(nr, f, g[k - 1], k - 1)
               /\ Restored(nr, f) = [rec |-> g[MaxData].rec, file |-> g[MaxData].file]
  BY RestoreRuns
<1>0. MaxData \in Nat \ {0} /\ MissesLimit \in Nat \ {0} /\ Index = 0..(MaxData - 1)
  BY MeterConstants, MeterAssumption
<1> DEFINE Upto(k) == IF k <= m THEN k ELSE m
           Read(c, l) ==
             /\ Len(c.txData) = l /\ (\A i \in 1..l : c.txData[i] = f[nr][i - 1])
             /\ c.mvCount = (IF l = 0 THEN 0 ELSE l - 1) /\ ~c.finalized
           Stays(h) ==
             /\ \A i \in Index : h[nr][i] = f[nr][i] \/ (i >= m /\ h[nr][i] \in Lost)
             /\ \A q \in TxNr : q # nr => h[q] = f[q]
           Ok(st, k) == Read(st.rec, Upto(k)) /\ (k <= m => st.misses = 0) /\ Stays(st.file)
           S == {k \in 0..MaxData : Ok(g[k], k)}
<1>2. 0 \in S
  <2>1. Ok(g[0], 0)
    BY <1>0, <1>1 DEF RestoreBase, Record
  <2> QED
    BY <1>0, <2>1
<1>3. ASSUME NEW k \in 1..MaxData, k - 1 \in S PROVE k \in S
  <2> DEFINE a == g[k - 1]
             i == k - 1
             v == f[nr][i]
             h == [a.file EXCEPT ![nr][i] = AfterLoad(@)]
             c == [a.rec EXCEPT !.txData = Append(@, v), !.mvCount = i]
             x == a.misses + 1
  <2>1. a \in Restoring(nr) /\ g[k] = RestoreStep(nr, f, a, i) /\ Ok(a, i) /\ i \in Index
    BY <1>0, <1>1, <1>3
  <2>2. /\ a.rec \in NewRecords(nr) /\ a.file \in MeterFiles /\ a.misses \in Nat
    BY <2>1 DEF Restoring
  <2>3. Stays(h)
    <3>1. h[nr][i] = AfterLoad(a.file[nr][i]) /\ (\A l \in Index : l # i => h[nr][l] = a.file[nr][l])
          /\ \A q \in TxNr : q # nr => h[q] = a.file[q]
      BY <2>1, <2>2 DEF MeterFiles
    <3>2. CASE i < m
      <4>1. v \in Value /\ a.file[nr][i] = v
        BY <2>1, <3>2 DEF Filled, OwnTo
      <4>2. AfterLoad(v) = v
        BY <4>1, ValueAssumption DEF AfterLoad, Lost
      <4> HIDE DEF a, i, h, v
      <4> QED
        BY <2>1, <3>1, <4>1, <4>2 DEF v
    <3>3. CASE ~(i < m)
      <4>1. v \in Lost /\ a.file[nr][i] \in Lost
        BY <2>1, <3>3 DEF Filled
      <4>2. AfterLoad(a.file[nr][i]) \in Lost
        BY <4>1 DEF AfterLoad, Lost
      <4>3. i >= m
        BY <1>0, <2>1, <3>3
      <4> HIDE DEF a, i, h, v
      <4> QED
        BY <2>1, <3>1, <4>2, <4>3
    <3> QED
      BY <3>2, <3>3
  <2>4. CASE i < m
    <3>1. v \in Value /\ Loads(v) /\ a.misses = 0
      BY <1>0, <2>1, <2>4, ValueAssumption DEF Filled, OwnTo, Loads
    <3>2. g[k] = [rec |-> c, file |-> h, misses |-> 0]
      <4>1. ~(a.misses >= MissesLimit)
        BY <1>0, <3>1
      <4> QED
        BY <2>1, <3>1, <4>1, Zenon DEF RestoreStep
    <3> DEFINE e == Append(a.rec.txData, v)
    <3>3. a.rec.txData \in Seq(Value) /\ Len(a.rec.txData) = i /\ ~a.rec.finalized
          /\ \A l \in 1..i : a.rec.txData[l] = f[nr][l - 1]
      <4>1. a.rec.txData \in Seq(Value)
        BY <2>2 DEF NewRecords
      <4>2. Upto(i) = i
        BY <1>0, <2>4
      <4> QED
        BY <2>1, <4>1, <4>2
    <3>4. e \in Seq(Value) /\ Len(e) = i + 1 /\ e[i + 1] = v /\ \A l \in 1..i : e[l] = a.rec.txData[l]
      BY <3>1, <3>3, AppendProperties
    <3>5. c = [a.rec EXCEPT !.txData = e, !.mvCount = i]
      OBVIOUS
    <3> HIDE DEF e
    <3>6. c.txData = e /\ c.mvCount = i /\ ~c.finalized
      BY <2>2, <3>3, <3>5 DEF NewRecords
    <3> HIDE DEF c, a
    <3>7. Upto(k) = k /\ k = i + 1 /\ k # 0 /\ k - 1 = i /\ k <= m
      BY <1>0, <2>4
    <3>8. \A l \in 1..k : c.txData[l] = f[nr][l - 1]
      <4>1. \A l \in 1..k : l \in 1..i \/ l = i + 1
        BY <3>7
      <4>2. f[nr][(i + 1) - 1] = v
        BY <3>7
      <4> HIDE DEF v, i
      <4> QED
        BY <3>3, <3>4, <3>6, <4>1, <4>2
    <3>9. Read(c, k)
      BY <3>4, <3>6, <3>7, <3>8
    <3> HIDE DEF Read, Stays, h
    <3> QED
      BY <2>3, <3>2, <3>7, <3>9
  <2>5. CASE ~(i < m)
    <3>1. v \in Lost /\ ~Loads(v)
      BY <2>1, <2>5 DEF Filled, Loads
    <3>2. g[k] = a \/ g[k] = [a EXCEPT !.file = h, !.misses = x]
      BY <2>1, <3>1, Zenon DEF RestoreStep
    <3> HIDE DEF h, x
    <3>3. g[k].rec = a.rec /\ g[k].file \in {a.file, h}
      BY <2>1, <3>2 DEF Restoring
    <3>4. Upto(k) = Upto(i) /\ ~(k <= m)
      BY <1>0, <2>5
    <3> HIDE DEF Read, Stays, Upto, a
    <3> QED
      BY <2>1, <2>3, <3>3, <3>4
  <2> QED
    BY <2>4, <2>5
<1>4. \A k \in 0..MaxData : k \in S
  <2> HIDE DEF S
  <2> QED
    BY <1>0, <1>2, <1>3, Climb, Zenon
<1>5. Read(g[MaxData].rec, m) /\ Stays(g[MaxData].file)
  <2>1. Ok(g[MaxData], MaxData)
    BY <1>0, <1>4
  <2>2. Upto(MaxData) = m
    BY <1>0
  <2> HIDE DEF Read, Stays, Upto
  <2> QED
    BY <2>1, <2>2
<1>6. Restored(nr, f).rec = g[MaxData].rec /\ Restored(nr, f).file = g[MaxData].file
  BY <1>1
<1> QED
  BY <1>5, <1>6

\* While a transaction is under way, no other one that counts has its record in RAM.
LEMMA Alone ==
    ASSUME NEW se, NEW j, NEW next, NEW d, NEW r, NEW f, Recorded(se, j, next, d, r, f),
           NEW s \in Sessions, Underway(se[s])
    PROVE  \A q \in TxNr : q \notin d /\ q # se[s].nr => r.nr # q
<1> SUFFICES ASSUME NEW q \in TxNr, q \notin d, q # se[s].nr, r.nr = q PROVE FALSE
  OBVIOUS
<1>1. PICK i \in 1..Len(j) : se[j[i]].nr = q
  BY DEF Recorded, Unused
<1> DEFINE p == j[i]
<1>2. p \in Sessions /\ Within(p, j) /\ p # s /\ se[p] \in Session /\ se[p].stage # "none"
  BY <1>1 DEF Recorded, RecordTypes, Sequenced, Within
<1>3. PICK m \in 0..MaxData : OwnFiles(p, se[p], m, r, f[se[p].nr])
  BY <1>1, <1>2 DEF Recorded, Owned
<1>4. se[p].stop = "none"
  BY <1>1, <1>3 DEF OwnFiles
<1>5. se[p].stage # "over" /\ se[p].stage # "discarded"
  BY <1>1, <1>2, <1>4 DEF Recorded, Staged
<1>6. Underway(se[p])
  BY <1>2, <1>5 DEF Underway, Session
<1> QED
  BY <1>2, <1>6 DEF Recorded, Sequenced

\* The record that a session is given holds what its files hold.
LEMMA FetchedIs ==
    ASSUME rec \in Recording, meterFile \in MeterFiles, NEW nr \in TxNr,
           NEW s, NEW t, NEW m \in 0..MaxData, Filled(s, t, m, meterFile[nr]),
           rec.nr = nr => RecordOf(s, t, m, rec)
    PROVE  LET st == Fetched(nr)
           IN  /\ st \in Pairs /\ st.rec.nr = nr
               /\ Filled(s, t, m, st.file[nr]) /\ RecordOf(s, t, m, st.rec)
               /\ \A i \in 0..(m - 1) : st.file[nr][i] = meterFile[nr][i]
               /\ \A q \in TxNr : q # nr => st.file[q] = meterFile[q]
               /\ rec.nr = nr => st.rec = rec
               /\ rec.nr # nr =>
                    /\ Len(st.rec.txData) = m /\ (\A i \in 1..m : st.rec.txData[i] = meterFile[nr][i - 1])
                    /\ m = 0 => InRecord(0, st.rec, st.file[nr])
<1> DEFINE st == Fetched(nr)
           f == meterFile[nr]
<1>0. MaxData \in Nat \ {0} /\ Index = 0..(MaxData - 1)
  BY MeterConstants
<1>1. st \in Pairs /\ st.rec.nr = nr
  BY FetchedType
<1>2. CASE rec.nr = nr
  <2>1. st = [rec |-> rec, file |-> meterFile]
    BY <1>2 DEF Fetched
  <2> QED
    BY <1>1, <1>2, <2>1
<1>3. CASE rec.nr # nr
  <2>1. /\ Len(st.rec.txData) = m /\ (\A i \in 1..m : st.rec.txData[i] = f[i - 1])
        /\ st.rec.mvCount = (IF m = 0 THEN 0 ELSE m - 1) /\ ~st.rec.finalized
        /\ \A i \in Index : st.file[nr][i] = f[i] \/ (i >= m /\ st.file[nr][i] \in Lost)
        /\ \A q \in TxNr : q # nr => st.file[q] = meterFile[q]
    <3>1. CASE f[0] = Missing
      <4>1. st = [rec |-> Record(nr), file |-> meterFile]
        BY <1>3, <3>1 DEF Fetched
      <4>2. m = 0
        BY <1>0, <3>1, ValueAssumption DEF Filled, OwnTo, Lost
      <4> QED
        BY <4>1, <4>2 DEF Record
    <3>2. CASE f[0] # Missing
      <4>1. st = Restored(nr, meterFile)
        BY <1>3, <3>2 DEF Fetched
      <4> DEFINE a == Restored(nr, meterFile)
      <4>2. /\ Len(a.rec.txData) = m /\ (\A i \in 1..m : a.rec.txData[i] = f[i - 1])
            /\ a.rec.mvCount = (IF m = 0 THEN 0 ELSE m - 1) /\ ~a.rec.finalized
            /\ \A i \in Index : a.file[nr][i] = f[i] \/ (i >= m /\ a.file[nr][i] \in Lost)
            /\ \A q \in TxNr : q # nr => a.file[q] = meterFile[q]
        BY RestoredIs, Zenon
      <4> HIDE DEF st, a, f
      <4> QED
        BY <4>1, <4>2 DEF a
    <3> QED
      BY <3>1, <3>2
  <2> HIDE DEF st, f
  <2>2. \A i \in 0..(m - 1) : i \in Index /\ st.file[nr][i] = f[i]
    BY <1>0, <2>1
  <2>3. Filled(s, t, m, st.file[nr])
    <3>1. Filled(s, t, m, f)
      BY DEF f
    <3>2. \A i \in Index : i < m => st.file[nr][i] = f[i]
      BY <1>0, <2>2
    <3>3. \A i \in Index : ~(i < m) => st.file[nr][i] \in Lost
      BY <2>1, <3>1 DEF Filled
    <3> QED
      BY <1>0, <3>1, <3>2, <3>3 DEF Filled
  <2>4. Rising(s, t, st.rec.txData)
    <3>1. Filled(s, t, m, f)
      BY DEF f
    <3>2. \A i \in 1..Len(st.rec.txData) : i - 1 \in Index /\ i - 1 < m /\ st.rec.txData[i] = f[i - 1]
      BY <1>0, <2>1
    <3>3. \A i \in 1..Len(st.rec.txData) : OwnTo(s, t, st.rec.txData[i])
      BY <3>1, <3>2 DEF Filled
    <3>4. ASSUME NEW i \in 1..Len(st.rec.txData), NEW k \in 1..Len(st.rec.txData), i < k
          PROVE  st.rec.txData[i].n < st.rec.txData[k].n
      <4>1. i - 1 \in Index /\ k - 1 \in Index /\ i - 1 < k - 1 /\ k - 1 < m
        BY <1>0, <2>1, <3>2, <3>4
      <4>2. f[i - 1].n < f[k - 1].n
        BY <3>1, <4>1 DEF Filled
      <4> QED
        BY <3>2, <4>2
    <3> QED
      BY <3>3, <3>4 DEF Rising
  <2>5. st.rec.mvCount > 0 => st.rec.txData # <<>>
    BY <2>1
  <2>6. RecordOf(s, t, m, st.rec)
    BY <1>0, <2>1, <2>4, <2>5 DEF RecordOf
  <2>7. m = 0 => InRecord(0, st.rec, st.file[nr])
    BY <2>1 DEF InRecord
  <2> QED
    BY <1>1, <1>3, <2>1, <2>2, <2>3, <2>6, <2>7 DEF st, f
<1> QED
  BY <1>2, <1>3

\* What recording some values leaves; u: the number of values in files now.
Left(s, t, nr, st, fresh, whole) ==
    \E u \in 0..MaxData :
        /\ Filled(s, t, u, st.file[nr]) /\ RecordOf(s, t, u, st.rec)
        /\ fresh => u > 0 /\ st.file[nr][u - 1].n = t /\ st.rec.txData # <<>> /\ Last(st.rec.txData).n = t
        /\ whole => Whole(s, t, u, st.file[nr]) /\ InRecord(u, st.rec, st.file[nr])

\* A value that is recorded leaves the record and the files in order.
LEMMA AddLeft ==
    ASSUME NEW s \in Sessions, NEW t \in Nat, NEW nr \in TxNr, NEW st \in Pairs, st.rec.nr = nr,
           NEW outcome \in Outcomes, NEW fresh, NEW whole, Left(s, t, nr, st, fresh, whole)
    PROVE  LET v == [of |-> s, n |-> t + 1]
           IN  Left(s, t + 1, nr, Add(st.rec, st.file, v, outcome), outcome = "ok", whole /\ outcome = "ok")
<1> DEFINE v == [of |-> s, n |-> t + 1]
           a == Add(st.rec, st.file, v, outcome)
<1>1. PICK m \in 0..MaxData :
        /\ Filled(s, t, m, st.file[nr]) /\ RecordOf(s, t, m, st.rec)
        /\ whole => Whole(s, t, m, st.file[nr]) /\ InRecord(m, st.rec, st.file[nr])
  BY DEF Left
<1>2. st.rec \in Recording /\ st.file \in MeterFiles /\ MaxData \in Nat
  BY MeterConstants DEF Pairs
<1>3. CASE outcome = "ok"
  <2> DEFINE u == Place(st.rec) + 1
  <2>1. /\ u \in 1..MaxData /\ Filled(s, t + 1, u, a.file[nr]) /\ RecordOf(s, t + 1, u, a.rec) /\ a.file[nr][u - 1] = v
        /\ a.rec.txData # <<>> /\ Last(a.rec.txData) = v
        /\ whole => Whole(s, t + 1, u, a.file[nr]) /\ InRecord(u, a.rec, a.file[nr])
    BY <1>1, <1>2, <1>3, AddStored
  <2> HIDE DEF a, u
  <2>2. u \in 0..MaxData /\ u > 0
    BY <1>2, <2>1
  <2>3. Left(s, t + 1, nr, a, outcome = "ok", whole /\ outcome = "ok")
    BY <2>1, <2>2 DEF Left
  <2> QED
    BY <2>3 DEF a
<1>4. CASE outcome # "ok"
  <2>1. \E u \in 0..MaxData : Filled(s, t + 1, u, a.file[nr]) /\ RecordOf(s, t + 1, u, a.rec)
    BY <1>1, <1>2, <1>4, AddFailed
  <2> HIDE DEF a
  <2>2. Left(s, t + 1, nr, a, outcome = "ok", whole /\ outcome = "ok")
    BY <1>4, <2>1 DEF Left
  <2> QED
    BY <2>2 DEF a
<1> QED
  BY <1>3, <1>4

\* So do several.
LEMMA TakenIs ==
    ASSUME rec \in Recording, meterFile \in MeterFiles, NEW s \in Sessions, ses[s] \in Session,
           NEW total \in Nat, NEW outcome \in Outcomes, NEW m \in 0..MaxData,
           LET t == ses[s].taken
               nr == ses[s].nr
           IN  Filled(s, t, m, meterFile[nr]) /\ (rec.nr = nr => RecordOf(s, t, m, rec))
    PROVE  LET t == ses[s].taken
               nr == ses[s].nr
               st == Taken(s, total, outcome)
               whole == /\ Whole(s, t, m, meterFile[nr]) /\ (t > 0 => rec.nr = nr)
                        /\ rec.nr = nr => InRecord(m, rec, meterFile[nr])
           IN  /\ st \in Pairs /\ st.rec.nr = nr /\ \A q \in TxNr : q # nr => st.file[q] = meterFile[q]
               /\ Left(s, t + total, nr, st, total > 0 /\ outcome = "ok", whole /\ (total = 0 \/ outcome = "ok"))
<1> DEFINE t == ses[s].taken
           nr == ses[s].nr
           st == Taken(s, total, outcome)
           base == Fetched(nr)
           whole == /\ Whole(s, t, m, meterFile[nr]) /\ (t > 0 => rec.nr = nr)
                    /\ rec.nr = nr => InRecord(m, rec, meterFile[nr])
<1>1. t \in Nat /\ nr \in TxNr /\ MaxData \in Nat \ {0}
  BY MeterConstants DEF Session
<1>2. /\ base \in Pairs /\ base.rec.nr = nr
      /\ Filled(s, t, m, base.file[nr]) /\ RecordOf(s, t, m, base.rec)
      /\ \A i \in 0..(m - 1) : base.file[nr][i] = meterFile[nr][i]
      /\ \A q \in TxNr : q # nr => base.file[q] = meterFile[q]
      /\ rec.nr = nr => base.rec = rec
      /\ rec.nr # nr => (m = 0 => InRecord(0, base.rec, base.file[nr]))
  <2>1. Filled(s, t, m, meterFile[nr]) /\ (rec.nr = nr => RecordOf(s, t, m, rec))
    OBVIOUS
  <2> HIDE DEF t, nr, whole
  <2> QED
    BY <1>1, <2>1, FetchedIs, Zenon
<1>3. PICK g : /\ g[0] = base /\ \A k \in 0..total : g[k] \in Pairs
               /\ \A k \in 1..total : g[k] = AddStep(s, outcome, g[k - 1], k)
               /\ Taken(s, total, outcome) = g[total]
  BY <1>1, <1>2, TakenRuns
<1> HIDE DEF t, nr, base, whole
<1>4. whole => Whole(s, t, m, base.file[nr]) /\ InRecord(m, base.rec, base.file[nr])
  <2> SUFFICES ASSUME whole PROVE Whole(s, t, m, base.file[nr]) /\ InRecord(m, base.rec, base.file[nr])
    OBVIOUS
  <2>1. Whole(s, t, m, base.file[nr])
    BY <1>2 DEF Whole, whole
  <2>2. CASE rec.nr = nr
    <3>1. \A i \in 1..m : i - 1 \in 0..(m - 1)
      BY <1>1
    <3>2. base.rec = rec /\ InRecord(m, rec, meterFile[nr])
      BY <1>2, <2>2 DEF whole
    <3>3. \A i \in 1..m : base.file[nr][i - 1] = meterFile[nr][i - 1]
      BY <1>2, <3>1
    <3>4. InRecord(m, base.rec, base.file[nr])
      BY <3>2, <3>3 DEF InRecord
    <3> QED
      BY <2>1, <3>4
  <2>3. CASE rec.nr # nr
    <3>1. m = 0
      BY <1>1, <2>3 DEF whole, Whole
    <3> QED
      BY <1>2, <2>1, <2>3, <3>1
  <2> QED
    BY <2>1, <2>2, <2>3
<1> DEFINE Ok(k) == /\ g[k].rec.nr = nr /\ \A q \in TxNr : q # nr => g[k].file[q] = meterFile[q]
                    /\ Left(s, t + k, nr, g[k], k > 0 /\ outcome = "ok", whole /\ (k = 0 \/ outcome = "ok"))
           S == {k \in 0..total : Ok(k)}
<1>5. 0 \in S
  <2>1. Left(s, t, nr, base, FALSE, whole)
    BY <1>2, <1>4 DEF Left
  <2>2. t + 0 = t /\ ~(0 > 0)
    BY <1>1
  <2>3. Left(s, t + 0, nr, g[0], 0 > 0 /\ outcome = "ok", whole /\ (0 = 0 \/ outcome = "ok"))
    BY <1>3, <2>1, <2>2 DEF Left
  <2>4. Ok(0)
    BY <1>2, <1>3, <2>3
  <2> QED
    BY <2>4
<1>6. ASSUME NEW k \in 1..total, k - 1 \in S PROVE k \in S
  <2> DEFINE i == k - 1
             a == g[k - 1]
             v == [of |-> s, n |-> (t + i) + 1]
             w == (whole /\ (i = 0 \/ outcome = "ok"))
  <2>1. /\ a \in Pairs /\ a.rec.nr = nr /\ (\A q \in TxNr : q # nr => a.file[q] = meterFile[q])
        /\ Left(s, t + i, nr, a, i > 0 /\ outcome = "ok", w)
    BY <1>3, <1>6
  <2>2. i \in Nat /\ t + i \in Nat /\ (t + i) + 1 = t + k
    BY <1>1, <1>6
  <2>3. g[k] = Add(a.rec, a.file, v, outcome)
    BY <1>3, <2>2 DEF AddStep, t
  <2>4. Left(s, (t + i) + 1, nr, g[k], outcome = "ok", w /\ outcome = "ok")
    <3> HIDE DEF a, w, i
    <3> QED
      BY <1>1, <2>1, <2>2, <2>3, AddLeft
  <2>5. Left(s, t + k, nr, g[k], k > 0 /\ outcome = "ok", whole /\ (k = 0 \/ outcome = "ok"))
    <3>1. (outcome = "ok" <=> k > 0 /\ outcome = "ok") /\ (w /\ outcome = "ok" <=> whole /\ (k = 0 \/ outcome = "ok"))
      BY <2>2
    <3>2. Left(s, t + k, nr, g[k], outcome = "ok", w /\ outcome = "ok")
      BY <2>2, <2>4
    <3> HIDE DEF w
    <3> QED
      BY <3>1, <3>2 DEF Left
  <2>6. g[k].rec.nr = nr /\ \A q \in TxNr : q # nr => g[k].file[q] = meterFile[q]
    <3>1. a.rec \in Recording /\ a.file \in MeterFiles /\ v \in Value
      BY <2>1, <2>2, NewValue DEF Pairs
    <3>2. ~a.rec.finalized
      BY <2>1 DEF Left, RecordOf
    <3> HIDE DEF a, v
    <3>3. \A q \in TxNr : q # nr => g[k].file[q] = a.file[q]
      BY <1>1, <2>1, <2>3, <3>1, <3>2, AddIs
    <3>4. g[k].rec.nr = nr
      BY <2>1, <2>3, <3>1, AddType
    <3> QED
      BY <2>1, <3>3, <3>4
  <2> QED
    BY <2>5, <2>6
<1>7. \A k \in 0..total : k \in S
  <2> HIDE DEF S
  <2> QED
    BY <1>5, <1>6, Climb, Zenon
<1>8. Ok(total) /\ g[total] \in Pairs
  BY <1>3, <1>7
<1> QED
  BY <1>3, <1>8 DEF t, nr, whole

\* Whatever a number stands for, its record and its values are in files of their own.
LEMMA RestoredElse ==
    ASSUME NEW nr \in TxNr, NEW f \in MeterFiles
    PROVE  \A q \in TxNr : q # nr => Restored(nr, f).file[q] = f[q]
<1>1. PICK g : /\ g[0] = RestoreBase(nr, f) /\ \A k \in 0..MaxData : g[k] \in Restoring(nr)
               /\ \A k \in 1..MaxData : g[k] = RestoreStep(nr, f, g[k - 1], k - 1)
               /\ Restored(nr, f) = [rec |-> g[MaxData].rec, file |-> g[MaxData].file]
  BY RestoreRuns
<1>0. MaxData \in Nat
  BY MeterConstants
<1> DEFINE Ok(k) == \A q \in TxNr : q # nr => g[k].file[q] = f[q]
           S == {k \in 0..MaxData : Ok(k)}
<1>2. 0 \in S
  BY <1>0, <1>1 DEF RestoreBase
<1>3. ASSUME NEW k \in 1..MaxData, k - 1 \in S PROVE k \in S
  <2> DEFINE a == g[k - 1]
             h == [a.file EXCEPT ![nr][k - 1] = AfterLoad(@)]
             x == a.misses + 1
  <2>1. a \in Restoring(nr) /\ a.file \in MeterFiles /\ g[k] = RestoreStep(nr, f, a, k - 1) /\ Ok(k - 1)
    BY <1>0, <1>1, <1>3 DEF Restoring
  <2>2. \A q \in TxNr : q # nr => h[q] = a.file[q]
    BY <2>1 DEF MeterFiles
  <2>3. g[k].file \in {a.file, h}
    <3> DEFINE c == [a.rec EXCEPT !.txData = Append(@, f[nr][k - 1]), !.mvCount = k - 1]
    <3>1. \/ g[k] = a
          \/ g[k] = [rec |-> c, file |-> h, misses |-> 0]
          \/ g[k] = [a EXCEPT !.file = h, !.misses = x]
      BY <2>1, Zenon DEF RestoreStep
    <3> HIDE DEF h, x, a, c
    <3>2. a = [rec |-> a.rec, file |-> a.file, misses |-> a.misses]
      BY <2>1 DEF Restoring
    <3>3. CASE g[k] = [a EXCEPT !.file = h, !.misses = x]
      BY <3>2, <3>3
    <3> QED
      BY <3>1, <3>3
  <2> HIDE DEF h
  <2> QED
    BY <2>1, <2>2, <2>3
<1>4. \A k \in 0..MaxData : k \in S
  <2> HIDE DEF S
  <2> QED
    BY <1>0, <1>2, <1>3, Climb, Zenon
<1>5. Ok(MaxData)
  BY <1>0, <1>4
<1> QED
  BY <1>1, <1>5

\* getTxMeterData leaves the files of other numbers.
LEMMA FetchedElse ==
    ASSUME meterFile \in MeterFiles, NEW nr \in TxNr
    PROVE  \A q \in TxNr : q # nr => Fetched(nr).file[q] = meterFile[q]
<1>1. Fetched(nr) = [rec |-> rec, file |-> meterFile] \/ Fetched(nr) = [rec |-> Record(nr), file |-> meterFile]
      \/ Fetched(nr) = Restored(nr, meterFile)
  BY DEF Fetched
<1> QED
  BY <1>1, RestoredElse

\* So does addTxData.
LEMMA AddElse ==
    ASSUME NEW r \in Recording, r.nr \in TxNr, NEW f \in MeterFiles, NEW v \in Value, NEW outcome \in Outcomes
    PROVE  \A q \in TxNr : q # r.nr => Add(r, f, v, outcome).file[q] = f[q]
<1>1. CASE r.finalized
  BY <1>1 DEF Add
<1>2. CASE ~r.finalized
  BY <1>2, AddIs
<1> QED
  BY <1>1, <1>2

\* So do several values.
LEMMA TakenElse ==
    ASSUME rec \in Recording, meterFile \in MeterFiles, NEW s \in Sessions, ses[s] \in Session,
           NEW total \in Nat, NEW outcome \in Outcomes
    PROVE  LET nr == ses[s].nr
               st == Taken(s, total, outcome)
           IN  /\ st \in Pairs /\ st.rec.nr = nr /\ st.rec \in Recording /\ st.file \in MeterFiles
               /\ \A q \in TxNr : q # nr => st.file[q] = meterFile[q]
<1> DEFINE nr == ses[s].nr
           base == Fetched(nr)
<1>1. nr \in TxNr /\ ses[s].taken \in Nat
  BY DEF Session
<1>2. base \in Pairs /\ base.rec.nr = nr /\ \A q \in TxNr : q # nr => base.file[q] = meterFile[q]
  <2> HIDE DEF nr
  <2> QED
    BY <1>1, FetchedType, FetchedElse
<1>3. PICK g : /\ g[0] = base /\ \A k \in 0..total : g[k] \in Pairs
               /\ \A k \in 1..total : g[k] = AddStep(s, outcome, g[k - 1], k)
               /\ Taken(s, total, outcome) = g[total]
  BY <1>1, <1>2, TakenRuns
<1> HIDE DEF base
<1> DEFINE Ok(k) == g[k].rec.nr = nr /\ \A q \in TxNr : q # nr => g[k].file[q] = meterFile[q]
           S == {k \in 0..total : Ok(k)}
<1>5. 0 \in S
  BY <1>2, <1>3
<1>6. ASSUME NEW k \in 1..total, k - 1 \in S PROVE k \in S
  <2> DEFINE a == g[k - 1]
             v == [of |-> s, n |-> ses[s].taken + k]
  <2>1. a \in Pairs /\ a.rec \in Recording /\ a.file \in MeterFiles /\ Ok(k - 1) /\ v \in Value
    <3>1. a \in Pairs /\ Ok(k - 1) /\ ses[s].taken + k \in Nat
      BY <1>1, <1>3, <1>6
    <3> QED
      BY <3>1, NewValue DEF Pairs
  <2>2. g[k] = Add(a.rec, a.file, v, outcome)
    BY <1>3 DEF AddStep
  <2> HIDE DEF a, v, nr
  <2>3. /\ g[k].rec.nr = a.rec.nr
        /\ a.rec.nr = nr => \A q \in TxNr : q # nr => g[k].file[q] = a.file[q]
    <3>1. g[k].rec.nr = a.rec.nr
      BY <2>1, <2>2, AddType
    <3>2. ASSUME a.rec.nr = nr PROVE \A q \in TxNr : q # nr => g[k].file[q] = a.file[q]
      <4>1. a.rec.nr \in TxNr
        BY <1>1, <3>2
      <4>2. \A q \in TxNr : q # a.rec.nr => Add(a.rec, a.file, v, outcome).file[q] = a.file[q]
        BY <2>1, <4>1, AddElse
      <4> QED
        BY <2>2, <3>2, <4>2
    <3> QED
      BY <3>1, <3>2
  <2>4. Ok(k)
    BY <2>1, <2>3 DEF a
  <2> QED
    BY <2>4
<1>7. \A k \in 0..total : k \in S
  <2> HIDE DEF S
  <2> QED
    BY <1>5, <1>6, Climb, Zenon
<1>8. Ok(total) /\ g[total] \in Pairs
  BY <1>3, <1>7
<1> QED
  BY <1>3, <1>8 DEF Pairs

\* The state as it is.
Now == Recorded(ses, journal, nextNr, doubt, rec, meterFile)

\* The types of the state.
LEMMA NowTypes ==
    ASSUME Now
    PROVE  /\ ses \in [Sessions -> Session] /\ (\A s \in Sessions : ses[s] \in Session /\ ses[s].nr \in TxNr)
           /\ journal \in Seq(Sessions) /\ Len(journal) <= RecordSize /\ nextNr \in TxNr
           /\ rec \in Recording /\ meterFile \in MeterFiles
BY DEF Now, Recorded, RecordTypes, Session

\* The end of a journal is in it.
LEMMA EndIsWithin ==
    ASSUME NEW j \in Seq(Sessions), NEW s, j # <<>>, Last(j) = s
    PROVE  Within(s, j)
<1>1. Len(j) \in 1..Len(j) /\ j[Len(j)] = s
  BY DEF Last
<1> QED
  BY <1>1 DEF Within

\* A transaction under way takes values, and is then as long as them: e, its record afterwards.
Took(s, e, total, outcome) ==
    /\ e \in Session /\ e.nr = ses[s].nr /\ e.taken = ses[s].taken + total /\ e.cut = ses[s].cut
    /\ e.failed = (ses[s].failed \/ (total > 0 /\ outcome # "ok"))

\* Values that were taken are left in flash and in the record.
LEMMA TookLeft ==
    ASSUME Now, NEW s \in Sessions, Underway(ses[s]), ses[s].nr \notin doubt,
           NEW total \in Nat, NEW outcome \in Outcomes, NEW e, Took(s, e, total, outcome)
    PROVE  Left(s, e.taken, e.nr, Taken(s, total, outcome), total > 0 /\ outcome = "ok", ~e.cut /\ ~e.failed)
<1>1. journal \in Seq(Sessions) /\ journal # <<>> /\ Last(journal) = s
  BY NowTypes DEF Now, Recorded, Sequenced
<1>2. Within(s, journal)
  BY <1>1, EndIsWithin
<1>3. PICK m \in 0..MaxData : OwnFiles(s, ses[s], m, rec, meterFile[ses[s].nr])
  BY <1>2 DEF Now, Recorded, Owned
<1>4. ses[s].stop = "none" /\ ses[s] \in Session
  BY NowTypes DEF Now, Recorded, Staged
<1> DEFINE t == ses[s].taken
           nr == ses[s].nr
           whole == /\ Whole(s, t, m, meterFile[nr]) /\ (t > 0 => rec.nr = nr)
                    /\ rec.nr = nr => InRecord(m, rec, meterFile[nr])
           st == Taken(s, total, outcome)
<1>5. Left(s, t + total, nr, st, total > 0 /\ outcome = "ok", whole /\ (total = 0 \/ outcome = "ok"))
  <2>1. Filled(s, t, m, meterFile[nr]) /\ (rec.nr = nr => RecordOf(s, t, m, rec))
    BY <1>3 DEF OwnFiles
  <2> QED
    BY <1>4, <2>1, NowTypes, TakenIs
<1>6. ~e.cut /\ ~e.failed => whole /\ (total = 0 \/ outcome = "ok")
  <2>1. ~e.cut /\ ~e.failed => ~ses[s].cut /\ ~ses[s].failed /\ (total = 0 \/ outcome = "ok")
    BY <1>4 DEF Took, Session
  <2>2. ~ses[s].cut /\ ~ses[s].failed => whole
    BY <1>3, <1>4 DEF OwnFiles
  <2> QED
    BY <2>1, <2>2
<1>7. e.taken = t + total /\ e.nr = nr
  BY DEF Took
<1> HIDE DEF t, nr, st, whole
<1>8. Left(s, e.taken, e.nr, st, total > 0 /\ outcome = "ok", ~e.cut /\ ~e.failed)
  BY <1>5, <1>6, <1>7 DEF Left
<1> QED
  BY <1>8 DEF st

\* What it holds then, if it goes on, ...
LEMMA TookOwn ==
    ASSUME NEW s, NEW e, NEW st, NEW fresh, Left(s, e.taken, e.nr, st, fresh, ~e.cut /\ ~e.failed),
           e.stop = "none", st.rec.nr = e.nr
    PROVE  \E u \in 0..MaxData : OwnFiles(s, e, u, st.rec, st.file[e.nr])
<1>1. PICK u \in 0..MaxData :
        /\ Filled(s, e.taken, u, st.file[e.nr]) /\ RecordOf(s, e.taken, u, st.rec)
        /\ ~e.cut /\ ~e.failed => Whole(s, e.taken, u, st.file[e.nr]) /\ InRecord(u, st.rec, st.file[e.nr])
  BY DEF Left
<1> QED
  BY <1>1 DEF OwnFiles

\* Values as the server is told them; u: the number of files, h.
LEMMA ReportedIs ==
    ASSUME NEW s \in Sessions, NEW e \in Session, NEW u \in 0..MaxData, NEW h,
           Rising(s, e.taken, e.data),
           ~e.failed => e.data # <<>> /\ Last(e.data).n = e.taken,
           ~e.cut /\ ~e.failed => Whole(s, e.taken, u, h) /\ Len(e.data) = u /\ \A i \in 1..u : e.data[i] = h[i - 1]
    PROVE  Reported(s, e)
<1>2. MaxData \in Nat \ {0} /\ e.taken \in Nat
  BY MeterConstants DEF Session
<1> DEFINE x == e.data
<1>4. x \in Seq(Value) /\ DOMAIN x = 1..Len(x) /\ Len(x) \in Nat
  BY DEF Session
<1>5. ASSUME NEW i \in DOMAIN x PROVE x[i].of = s /\ (i > 1 => x[i - 1].n < x[i].n)
  <2>1. OwnTo(s, e.taken, x[i])
    BY <1>4 DEF Rising
  <2>2. i > 1 => i - 1 \in 1..Len(x) /\ i - 1 < i
    BY <1>4
  <2>3. i > 1 => x[i - 1].n < x[i].n
    BY <1>4, <2>2 DEF Rising
  <2> QED
    BY <2>1, <2>3 DEF OwnTo
<1> DEFINE l == IF e.taken > MaxData THEN MaxData ELSE e.taken
           w == [i \in 1..l |-> [of |-> s, n |-> IF i = MaxData THEN e.taken ELSE i]]
<1>7. ~e.cut /\ ~e.failed => x = w
  <2> SUFFICES ASSUME ~e.cut, ~e.failed PROVE x = w
    OBVIOUS
  <2>1. u = l /\ Len(x) = u /\ (\A i \in 1..u : x[i] = h[i - 1]) /\ \A i \in 0..(u - 1) : h[i] = Nth(s, e.taken, i)
    BY DEF Whole
  <2>2. l \in Nat
    BY <1>2
  <2> HIDE DEF l
  <2>3. \A i \in 1..l : x[i] = w[i]
    <3>1. ASSUME NEW i \in 1..l PROVE x[i] = w[i]
      <4>1. i - 1 \in 0..(u - 1) /\ (i - 1 = MaxData - 1 <=> i = MaxData) /\ (i - 1) + 1 = i
        BY <1>2, <2>1, <2>2
      <4>2. x[i] = Nth(s, e.taken, i - 1)
        BY <2>1, <4>1
      <4> QED
        BY <4>1, <4>2 DEF Nth
    <3> QED
      BY <3>1
  <2>4. w \in Seq(Value) /\ Len(w) = l
    <3>1. \A i \in 1..l : (IF i = MaxData THEN e.taken ELSE i) \in Nat
      BY <1>2, <2>2
    <3>2. w \in [1..l -> Value]
      BY <3>1, NewValue
    <3> HIDE DEF w
    <3> QED
      BY <2>2, <3>2
  <2> HIDE DEF x, w
  <2> QED
    BY <1>4, <2>1, <2>3, <2>4, SeqEqual
<1> QED
  BY <1>5, <1>7 DEF Reported

\* ... and if it ends: flash holds its values, and the StopTransaction has those of the record.
LEMMA TookReported ==
    ASSUME NEW s \in Sessions, NEW e \in Session, NEW st, NEW fresh, ~e.failed => fresh,
           Left(s, e.taken, e.nr, st, fresh, ~e.cut /\ ~e.failed),
           e.stop = "ram", e.data = (IF st.rec.finalized THEN <<>> ELSE st.rec.txData)
    PROVE  /\ \E u \in 0..MaxData : OwnFiles(s, e, u, NoRecord, st.file[e.nr])
           /\ Reported(s, e)
<1>1. PICK u \in 0..MaxData :
        /\ Filled(s, e.taken, u, st.file[e.nr]) /\ RecordOf(s, e.taken, u, st.rec)
        /\ fresh => u > 0 /\ st.file[e.nr][u - 1].n = e.taken /\ st.rec.txData # <<>> /\ Last(st.rec.txData).n = e.taken
        /\ ~e.cut /\ ~e.failed => Whole(s, e.taken, u, st.file[e.nr]) /\ InRecord(u, st.rec, st.file[e.nr])
  BY DEF Left
<1>2. NoRecord.nr = -1 /\ e.nr \in TxNr /\ -1 \notin TxNr
  BY MeterConstants DEF NoRecord, Record, Session
<1>3. OwnFiles(s, e, u, NoRecord, st.file[e.nr])
  BY <1>1, <1>2 DEF OwnFiles
<1>4. e.data = st.rec.txData /\ Rising(s, e.taken, e.data)
  BY <1>1 DEF RecordOf
<1>5. ~e.cut /\ ~e.failed => Len(e.data) = u /\ \A i \in 1..u : e.data[i] = st.file[e.nr][i - 1]
  BY <1>1, <1>4 DEF InRecord
<1>6. Reported(s, e)
  BY <1>1, <1>4, <1>5, ReportedIs
<1> QED
  BY <1>3, <1>6

-----------------------------------------------------------------------------
(* The steps that begin, record and end *)

\* The transaction that is under way is the end of the journal.
LEMMA UnderwayIs ==
    ASSUME Now, NEW s \in Sessions, Underway(ses[s])
    PROVE  /\ journal # <<>> /\ Last(journal) = s /\ Within(s, journal)
           /\ ses[s].stage # "none" /\ ses[s].stop = "none" /\ (ses[s].silent => ses[s].nr \in doubt)
           /\ \A q \in TxNr : q \notin doubt /\ q # ses[s].nr => rec.nr # q
<1>1. journal # <<>> /\ Last(journal) = s /\ journal \in Seq(Sessions)
  BY NowTypes DEF Now, Recorded, Sequenced
<1>2. Within(s, journal)
  BY <1>1, EndIsWithin
<1>3. ses[s].stage # "none" /\ ses[s].stop = "none" /\ (ses[s].silent => ses[s].nr \in doubt)
  BY DEF Now, Recorded, Staged, Underway
<1>4. \A q \in TxNr : q \notin doubt /\ q # ses[s].nr => rec.nr # q
  BY Alone DEF Now
<1> QED
  BY <1>1, <1>2, <1>3, <1>4

\* A transaction takes values and goes on.
LEMMA TakeStep ==
    ASSUME Now, NEW s \in Sessions, Underway(ses[s]), NEW total \in Nat, NEW outcome \in Outcomes, NEW e,
           Took(s, e, total, outcome), e.stop = "none", e.stage \in {"running", "ending"}, e.silent = ses[s].silent
    PROVE  LET st == Taken(s, total, outcome)
           IN  Recorded([ses EXCEPT ![s] = e], journal, nextNr, doubt, st.rec, st.file)
<1> DEFINE st == Taken(s, total, outcome)
           nr == e.nr
<1>1. e \in Session /\ ses[s] \in Session /\ nr = ses[s].nr
  BY NowTypes DEF Took
<1>2. /\ st.rec.nr = nr /\ st.rec \in Recording /\ st.file \in MeterFiles
      /\ \A q \in TxNr : q # nr => st.file[q] = meterFile[q]
  BY <1>1, NowTypes, TakenElse
<1>3. /\ Within(s, journal) /\ ses[s].stage # "none" /\ (ses[s].silent => nr \in doubt)
      /\ \A q \in TxNr : q \notin doubt /\ q # nr => rec.nr # q
  BY <1>1, UnderwayIs
<1>4. ASSUME nr \notin doubt PROVE \E u \in 0..MaxData : OwnFiles(s, e, u, st.rec, st.file[nr])
  <2>1. Left(s, e.taken, nr, st, total > 0 /\ outcome = "ok", ~e.cut /\ ~e.failed)
    BY <1>1, <1>4, TookLeft
  <2> HIDE DEF st
  <2> QED
    BY <1>2, <2>1, TookOwn
<1> HIDE DEF st
<1>5. Goes(ses, s, e, journal, doubt, doubt, rec, st.rec, meterFile, st.file)
  BY <1>1, <1>2, <1>3 DEF Goes, Underway
<1>6. Fares(s, e, journal, doubt, st.rec, st.file)
  BY <1>1, <1>3, <1>4 DEF Fares
<1>7. Recorded([ses EXCEPT ![s] = e], journal, nextNr, doubt, st.rec, st.file)
  BY <1>1, <1>2, <1>5, <1>6, SessionStep DEF Now
<1> QED
  BY <1>7 DEF st

\* A transaction takes its last value and ends.
LEMMA EndStep ==
    ASSUME Now, NEW s \in Sessions, Underway(ses[s]), NEW outcome \in Outcomes, NEW e,
           Took(s, e, 1, outcome), e.stop = "ram", e.stage = "over", e.silent = ses[s].silent,
           LET r == Taken(s, 1, outcome).rec IN e.data = IF r.finalized THEN <<>> ELSE r.txData
    PROVE  Recorded([ses EXCEPT ![s] = e], journal, nextNr, doubt, NoRecord, Taken(s, 1, outcome).file)
<1> DEFINE st == Taken(s, 1, outcome)
           nr == e.nr
<1>1. e \in Session /\ ses[s] \in Session /\ nr = ses[s].nr /\ nr \in TxNr
  BY NowTypes DEF Took
<1>2. /\ st.rec.nr = nr /\ st.file \in MeterFiles
      /\ \A q \in TxNr : q # nr => st.file[q] = meterFile[q]
  BY <1>1, NowTypes, TakenElse
<1>3. /\ Within(s, journal) /\ ses[s].stage # "none" /\ (ses[s].silent => nr \in doubt)
      /\ \A q \in TxNr : q \notin doubt /\ q # nr => rec.nr # q
  BY <1>1, UnderwayIs
<1>4. ASSUME nr \notin doubt
      PROVE  Reported(s, e) /\ \E u \in 0..MaxData : OwnFiles(s, e, u, NoRecord, st.file[nr])
  <2>1. Left(s, e.taken, nr, st, 1 > 0 /\ outcome = "ok", ~e.cut /\ ~e.failed)
    BY <1>1, <1>4, TookLeft
  <2>2. ~e.failed => 1 > 0 /\ outcome = "ok"
    BY <1>1 DEF Took, Session
  <2>3. e.data = IF st.rec.finalized THEN <<>> ELSE st.rec.txData
    OBVIOUS
  <2> DEFINE fresh == 1 > 0 /\ outcome = "ok"
  <2>4. (~e.failed => fresh) /\ Left(s, e.taken, e.nr, st, fresh, ~e.cut /\ ~e.failed)
    BY <2>1, <2>2
  <2> HIDE DEF st, fresh
  <2> QED
    BY <1>1, <2>3, <2>4, TookReported, Zenon
<1>4a. NoRecord \in Recording /\ \A q \in TxNr : NoRecord.nr # q
  BY RecordType, MeterConstants DEF NoRecord, NrOrNone
<1> HIDE DEF st
<1>5. Goes(ses, s, e, journal, doubt, doubt, rec, NoRecord, meterFile, st.file)
  BY <1>1, <1>2, <1>3, <1>4a DEF Goes, Underway
<1>6. Fares(s, e, journal, doubt, NoRecord, st.file)
  BY <1>1, <1>3, <1>4 DEF Fares, Underway
<1>7. Recorded([ses EXCEPT ![s] = e], journal, nextNr, doubt, NoRecord, st.file)
  BY <1>1, <1>2, <1>4a, <1>5, <1>6, SessionStep DEF Now
<1> QED
  BY <1>7 DEF st

\* Counting changes nothing else.
LEMMA CountingIs ==
    ASSUME NEW s, ses[s] \in Session, NEW n \in Nat, NEW outcome \in Outcomes
    PROVE  LET c == Counting(s, n, outcome)
           IN  /\ Took(s, c, n, outcome) /\ c.stage = ses[s].stage /\ c.stop = ses[s].stop
               /\ c.start = ses[s].start /\ c.silent = ses[s].silent /\ c.data = ses[s].data
<1> DEFINE taken == ses[s].taken + n
           failed == (ses[s].failed \/ (n > 0 /\ outcome # "ok"))
           c == [ses[s] EXCEPT !.taken = taken, !.failed = failed]
<1>1. taken \in Nat /\ failed \in BOOLEAN
  BY DEF Session
<1>2. Counting(s, n, outcome) = c
  BY DEF Counting, Session
<1> HIDE DEF taken, failed
<1>3. /\ c \in Session /\ c.nr = ses[s].nr /\ c.taken = taken /\ c.cut = ses[s].cut /\ c.failed = failed
      /\ c.stage = ses[s].stage /\ c.stop = ses[s].stop
      /\ c.start = ses[s].start /\ c.silent = ses[s].silent /\ c.data = ses[s].data
  BY <1>1 DEF Session
<1> HIDE DEF c
<1> QED
  BY <1>2, <1>3 DEF Took, taken, failed

\* The StartTransaction is initiated.
LEMMA StartTxKeeps ==
    ASSUME Now, tx \in Sessions \cup {0}, NEW outcome \in Outcomes, StartTx(outcome)
    PROVE  Now'
<1> DEFINE c == Counting(tx, 1, outcome)
           e == [c EXCEPT !.stage = "running", !.start = "ram"]
           st == Taken(tx, 1, outcome)
<1>1. tx \in Sessions /\ ses[tx].stage = "begun" /\ ses[tx] \in Session
  BY NowTypes DEF StartTx
<1>2. /\ Took(tx, c, 1, outcome) /\ c.stop = ses[tx].stop /\ c.silent = ses[tx].silent
  BY <1>1, CountingIs
<1>3. Underway(ses[tx]) /\ ses[tx].stop = "none"
  BY <1>1, UnderwayIs DEF Underway
<1> HIDE DEF c
<1>4. Took(tx, e, 1, outcome) /\ e.stop = c.stop /\ e.silent = c.silent /\ e.stage = "running"
  BY <1>2 DEF Took, Session
<1>5. ses' = [ses EXCEPT ![tx] = e] /\ rec' = st.rec /\ meterFile' = st.file /\ UNCHANGED <<journal, nextNr, doubt>>
  BY DEF StartTx, c
<1> HIDE DEF e, st
<1>6. Recorded([ses EXCEPT ![tx] = e], journal, nextNr, doubt, st.rec, st.file)
  BY <1>1, <1>2, <1>3, <1>4, TakeStep DEF st
<1> QED
  BY <1>5, <1>6 DEF Now

\* The StopTransaction is initiated.
LEMMA StopTxKeeps ==
    ASSUME Now, tx \in Sessions \cup {0}, NEW outcome \in Outcomes, StopTx(outcome)
    PROVE  Now'
<1> DEFINE c == Counting(tx, 1, outcome)
           st == Taken(tx, 1, outcome)
           data == IF st.rec.finalized THEN <<>> ELSE st.rec.txData
           e == [c EXCEPT !.stage = "over", !.stop = "ram", !.data = data]
<1>1. tx \in Sessions /\ ses[tx].stage = "ending" /\ ses[tx] \in Session
  BY NowTypes DEF StopTx
<1>2. /\ Took(tx, c, 1, outcome) /\ c.stop = ses[tx].stop /\ c.silent = ses[tx].silent
  BY <1>1, CountingIs
<1>3. Underway(ses[tx])
  BY <1>1 DEF Underway
<1>4. data \in Seq(Value)
  <2>1. st.rec \in Recording
    BY <1>1, NowTypes, TakenElse
  <2>2. st.rec.txData \in Seq(Value)
    BY <2>1 DEF Recording
  <2> QED
    BY <2>2
<1>5. ses' = [ses EXCEPT ![tx] = e] /\ rec' = NoRecord /\ meterFile' = st.file /\ UNCHANGED <<journal, nextNr, doubt>>
  BY DEF StopTx
<1> HIDE DEF c, data
<1>6. Took(tx, e, 1, outcome) /\ e.stop = "ram" /\ e.silent = c.silent /\ e.stage = "over" /\ e.data = data
  BY <1>2, <1>4 DEF Took, Session
<1>7. e.data = IF st.rec.finalized THEN <<>> ELSE st.rec.txData
  BY <1>6 DEF data
<1> HIDE DEF e
<1>8. Recorded([ses EXCEPT ![tx] = e], journal, nextNr, doubt, NoRecord, st.file)
  BY <1>1, <1>2, <1>3, <1>6, <1>7, EndStep
<1> HIDE DEF st
<1> QED
  BY <1>5, <1>8 DEF Now

\* A number is given up: its values go, its record takes no more.
LEMMA GiveUp ==
    ASSUME NEW se, NEW j, NEW next, NEW d, NEW r, NEW f, Recorded(se, j, next, d, r, f),
           NEW s \in Sessions, se[s].stage # "none", NEW e \in Session, e.nr = se[s].nr, e.stage # "none",
           Underway(e) => Underway(se[s]), Underway(e) => e.stop = "none", e.stage = "over" => e.stop # "none",
           e.stage = "begun" /\ ~e.cut => e.taken = 0 /\ ~e.failed
    PROVE  LET nr == e.nr
           IN  Recorded([se EXCEPT ![s] = e], j, next, d \cup {nr}, Finalized(r, nr), Gone(r, nr, f))
<1> DEFINE nr == e.nr
           r2 == Finalized(r, nr)
           f2 == Gone(r, nr, f)
           d2 == d \cup {nr}
<1>1. r \in Recording /\ f \in MeterFiles
  BY DEF Recorded, RecordTypes
<1>2. /\ r2 \in Recording /\ r2.nr = r.nr /\ (r.nr # nr => r2 = r)
      /\ f2 \in MeterFiles /\ \A q \in TxNr : q # nr => f2[q] = f[q]
  BY <1>1, FinalizedType, GoneType
<1> HIDE DEF r2, f2
<1>3. Goes(se, s, e, j, d, d2, r, r2, f, f2)
  BY <1>2 DEF Goes
<1>4. Fares(s, e, j, d2, r2, f2)
  BY DEF Fares
<1> HIDE DEF d2
<1>5. Recorded([se EXCEPT ![s] = e], j, next, d2, r2, f2)
  BY <1>2, <1>3, <1>4, SessionStep
<1> QED
  BY <1>5 DEF d2, r2, f2

\* A silent transaction is discarded.
LEMMA StopSilentKeeps ==
    ASSUME Now, tx \in Sessions \cup {0}, StopSilent
    PROVE  Now'
<1> DEFINE e == [ses[tx] EXCEPT !.stage = "discarded"]
           nr == ses[tx].nr
           se == [ses EXCEPT ![tx] = e]
           d == doubt \cup {nr}
           r == Finalized(rec, nr)
           f == Gone(rec, nr, meterFile)
<1>1. tx \in Sessions /\ ses[tx].stage = "ending" /\ ses[tx] \in Session /\ ses \in [Sessions -> Session]
  BY NowTypes DEF StopSilent
<1>2. e \in Session /\ e.nr = nr /\ e.stage = "discarded"
  BY <1>1 DEF Session
<1>3. journal # <<>> /\ Last(journal) = tx
  BY <1>1, UnderwayIs DEF Underway
<1>4. /\ rec' = r /\ meterFile' = f /\ journal' = Front(journal) /\ nextNr' = nr /\ doubt' = d /\ ses' = se
  BY DEF StopSilent
<1>5. se[tx] = e
  BY <1>1
<1> HIDE DEF e
<1>6. Recorded(se, journal, nextNr, d, r, f)
  BY <1>1, <1>2, GiveUp DEF Now, Underway
<1> HIDE DEF se, nr, d, r, f
<1>7. se[Last(journal)].nr = nr /\ nr \in d /\ ~Underway(se[Last(journal)])
  BY <1>2, <1>3, <1>5 DEF Underway, d
<1>8. Recorded(se, Front(journal), nr, d, r, f)
  BY <1>3, <1>6, <1>7, PopLast
<1> QED
  BY <1>4, <1>8 DEF Now

-----------------------------------------------------------------------------
(* The steps of requests, of the metering and of a power cut *)

\* Nothing that is recorded changes; the StopTransaction may be answered.
LEMMA PlainStep ==
    ASSUME Now, NEW s \in Sessions, ses[s].stage # "none", NEW e \in Session,
           e.nr = ses[s].nr, e.taken = ses[s].taken, e.cut = ses[s].cut, e.failed = ses[s].failed,
           e.data = ses[s].data, e.silent = ses[s].silent,
           e.stage = ses[s].stage \/ (ses[s].stage = "running" /\ e.stage = "ending"),
           e.stop = ses[s].stop \/ (ses[s].stop = "ram" /\ e.stop = "answered")
    PROVE  Recorded([ses EXCEPT ![s] = e], journal, nextNr, doubt, rec, meterFile)
<1>1. rec \in Recording /\ meterFile \in MeterFiles
  BY NowTypes
<1>2. /\ ses[s].nr \notin doubt /\ ses[s].stop # "answered" => Within(s, journal)
      /\ ses[s].nr \notin doubt /\ Within(s, journal) =>
            \E m \in 0..MaxData : OwnFiles(s, ses[s], m, rec, meterFile[ses[s].nr])
      /\ ses[s].stop \in {"ram", "answered"} /\ ses[s].nr \notin doubt => Reported(s, ses[s])
  BY DEF Now, Recorded, Sequenced, Owned, Delivered
<1>3. /\ ses[s].stage = "over" => ses[s].stop # "none"
      /\ Underway(ses[s]) => ses[s].stop = "none"
      /\ ses[s].stage = "discarded" \/ ses[s].silent => ses[s].nr \in doubt
      /\ ses[s].stage = "begun" /\ ~ses[s].cut => ses[s].taken = 0 /\ ~ses[s].failed
  BY DEF Now, Recorded, Staged
<1>4. Goes(ses, s, e, journal, doubt, doubt, rec, rec, meterFile, meterFile)
  BY <1>2 DEF Goes, Underway
<1>5. \A m : OwnFiles(s, ses[s], m, rec, meterFile[e.nr]) => OwnFiles(s, e, m, rec, meterFile[e.nr])
  BY DEF OwnFiles
<1>6. Reported(s, ses[s]) => Reported(s, e)
  BY DEF Reported
<1>7. Fares(s, e, journal, doubt, rec, meterFile)
  BY <1>2, <1>3, <1>5, <1>6 DEF Fares, Underway
<1> QED
  BY <1>1, <1>4, <1>7, SessionStep DEF Now

\* A transaction is to end.
LEMMA EndTransactionKeeps ==
    ASSUME Now, tx \in Sessions \cup {0}, EndTransaction
    PROVE  Now'
<1> DEFINE e == [ses[tx] EXCEPT !.stage = "ending"]
<1>1. tx \in Sessions /\ ses[tx] \in Session /\ ses[tx].stage = "running"
  BY NowTypes DEF EndTransaction
<1>2. /\ e \in Session /\ e.nr = ses[tx].nr /\ e.taken = ses[tx].taken /\ e.cut = ses[tx].cut
      /\ e.failed = ses[tx].failed
      /\ e.data = ses[tx].data /\ e.silent = ses[tx].silent /\ e.stage = "ending" /\ e.stop = ses[tx].stop
  BY <1>1 DEF Session
<1>3. ses' = [ses EXCEPT ![tx] = e] /\ UNCHANGED <<journal, nextNr, doubt, rec, meterFile>>
  BY DEF EndTransaction
<1> HIDE DEF e
<1>4. Recorded([ses EXCEPT ![tx] = e], journal, nextNr, doubt, rec, meterFile)
  BY <1>1, <1>2, PlainStep
<1> QED
  BY <1>3, <1>4 DEF Now

\* The StartTransaction is answered.
LEMMA StartConfKeeps ==
    ASSUME Now, NEW s \in Sessions, StartConf(s)
    PROVE  Now'
<1> DEFINE e == [ses[s] EXCEPT !.start = "answered"]
<1>1. ses[s] \in Session /\ ses[s].stage # "none"
  BY NowTypes DEF StartConf, Waits, Now, Recorded, Staged
<1>2. /\ e \in Session /\ e.nr = ses[s].nr /\ e.taken = ses[s].taken /\ e.cut = ses[s].cut /\ e.failed = ses[s].failed
      /\ e.data = ses[s].data /\ e.silent = ses[s].silent /\ e.stage = ses[s].stage /\ e.stop = ses[s].stop
  BY <1>1 DEF Session
<1>3. ses' = [ses EXCEPT ![s] = e] /\ UNCHANGED <<journal, nextNr, doubt, rec, meterFile>>
  BY DEF StartConf
<1> HIDE DEF e
<1>4. Recorded([ses EXCEPT ![s] = e], journal, nextNr, doubt, rec, meterFile)
  BY <1>1, <1>2, PlainStep
<1> QED
  BY <1>3, <1>4 DEF Now

\* The StopTransaction is answered.
LEMMA StopConfKeeps ==
    ASSUME Now, NEW s \in Sessions, StopConf(s)
    PROVE  Now'
<1> DEFINE e == [ses[s] EXCEPT !.stop = "answered"]
<1>1. ses[s] \in Session /\ ses[s].stage # "none" /\ ses[s].stop = "ram"
  BY NowTypes DEF StopConf, Now, Recorded, Staged
<1>2. /\ e \in Session /\ e.nr = ses[s].nr /\ e.taken = ses[s].taken /\ e.cut = ses[s].cut /\ e.failed = ses[s].failed
      /\ e.data = ses[s].data /\ e.silent = ses[s].silent /\ e.stage = ses[s].stage /\ e.stop = "answered"
  BY <1>1 DEF Session
<1>3. ses' = [ses EXCEPT ![s] = e] /\ UNCHANGED <<journal, nextNr, doubt, rec, meterFile>>
  BY DEF StopConf
<1> HIDE DEF e
<1>4. Recorded([ses EXCEPT ![s] = e], journal, nextNr, doubt, rec, meterFile)
  BY <1>1, <1>2, PlainStep
<1> QED
  BY <1>3, <1>4 DEF Now

\* Values are taken under a transaction that runs.
LEMMA TakeValuesKeeps ==
    ASSUME Now, tx \in Sessions \cup {0}, UNCHANGED <<journal, nextNr, doubt>>,
           NEW only \in InTxOnly, NEW due \in 0..2, NEW recorded \in 0..2, NEW outcome \in Outcomes,
           TakeValues(only, due, recorded, outcome)
    PROVE  Now'
<1>1. CASE Running(tx) /\ ~ses[tx].silent
  <2> DEFINE e == Counting(tx, recorded, outcome)
             st == Taken(tx, recorded, outcome)
  <2>1. tx \in Sessions /\ ses[tx] \in Session /\ Underway(ses[tx]) /\ ses[tx].stage \in {"running", "ending"}
    BY <1>1, NowTypes DEF Running, Underway
  <2>2. recorded \in Nat
    OBVIOUS
  <2>3. Took(tx, e, recorded, outcome) /\ e.stage = ses[tx].stage /\ e.stop = ses[tx].stop /\ e.silent = ses[tx].silent
    BY <2>1, <2>2, CountingIs
  <2>4. ses[tx].stop = "none"
    BY <2>1, UnderwayIs
  <2>5. ses' = [ses EXCEPT ![tx] = e]
    BY <1>1, Zenon DEF TakeValues
  <2>6. rec' = st.rec /\ meterFile' = st.file
    <3>1. CASE recorded > 0
      BY <1>1, <3>1, Zenon DEF TakeValues
    <3>2. CASE ~(recorded > 0)
      <4>1. rec' = Fetched(ses[tx].nr).rec /\ meterFile' = Fetched(ses[tx].nr).file
        BY <1>1, <3>2, Zenon DEF TakeValues
      <4>2. recorded = 0
        BY <3>2
      <4>3. Fetched(ses[tx].nr) \in Pairs /\ ses[tx].taken \in Nat
        BY <2>1, NowTypes, FetchedType DEF Session
      <4>4. st = Fetched(ses[tx].nr)
        BY <2>1, <2>2, <4>2, <4>3, TakenRuns
      <4> QED
        BY <4>1, <4>4
    <3> QED
      BY <3>1, <3>2
  <2> HIDE DEF e
  <2>7. Recorded([ses EXCEPT ![tx] = e], journal, nextNr, doubt, st.rec, st.file)
    BY <2>1, <2>2, <2>3, <2>4, TakeStep
  <2> HIDE DEF st
  <2> QED
    BY <2>5, <2>6, <2>7 DEF Now
<1>2. CASE ~(Running(tx) /\ ~ses[tx].silent)
  <2>1. UNCHANGED <<ses, rec, meterFile>>
    <3>1. ~(0 > 0)
      OBVIOUS
    <3> QED
      BY <1>2, <3>1, Zenon DEF TakeValues
  <2> QED
    BY <2>1 DEF Now
<1> QED
  BY <1>1, <1>2

\* A cut takes what is in RAM.
LEMMA CutKeeps ==
    ASSUME NEW se, NEW j, NEW next, NEW d, NEW r, NEW f, Recorded(se, j, next, d, r, f), MeterLost(se),
           \A s \in Sessions : Running(s) <=> se[s].stage \in {"running", "ending"}
    PROVE  ses' = CutOf(se) /\ Recorded(ses', j, next, d, NoRecord, f)
<1>1. ses' = CutOf(se)
  BY DEF MeterLost, CutOf, CutSession
<1>2. Recorded(CutOf(se), j, next, d, NoRecord, f)
  BY CutStep
<1> QED
  BY <1>1, <1>2

\* Session 0 is none.
LEMMA RunningIs ==
    \A s \in Sessions : Running(s) <=> ses[s].stage \in {"running", "ending"}
BY MeterConstants DEF Running

\* The power is cut between two steps.
LEMMA MeterCutKeeps ==
    ASSUME Now, MeterCut
    PROVE  Now'
<1>1. Recorded(ses', journal, nextNr, doubt, NoRecord, meterFile)
  BY RunningIs, CutKeeps DEF MeterCut, Now
<1> QED
  BY <1>1 DEF MeterCut, MeterLost, Now

\* The record of a StartTransaction is removed for want of its time.
LEMMA StartLostKeeps ==
    ASSUME Now, NEW s \in Sessions, StartLost(s)
    PROVE  Now'
<1> DEFINE nr == ses[s].nr
           stage == IF ses[s].stage = "running" THEN "ending" ELSE ses[s].stage
           e == [ses[s] EXCEPT !.start = "lost", !.silent = TRUE, !.stage = stage]
           lost == [ses EXCEPT ![s].start = "lost", ![s].silent = TRUE,
                               ![s].stage = IF @ = "running" THEN "ending" ELSE @]
           d == doubt \cup {nr}
           f == Gone(rec, nr, meterFile)
           r == Finalized(rec, nr)
<1>1. ses[s] \in Session /\ ses \in [Sessions -> Session] /\ ses[s].stage # "none"
  BY NowTypes DEF StartLost, Now, Recorded, Staged
<1>2. lost = [ses EXCEPT ![s] = e]
  BY <1>1 DEF Session
<1>3. stage \in {"none", "begun", "running", "ending", "over", "discarded"} /\ stage # "none"
  BY <1>1 DEF Session
<1>4. /\ meterFile' = f /\ doubt' = d
      /\ \/ MeterLost(lost)
         \/ ses' = lost /\ rec' = r /\ UNCHANGED <<journal, nextNr>>
  BY Zenon DEF StartLost
<1> HIDE DEF lost
<1>5. /\ e \in Session /\ e.nr = nr /\ e.taken = ses[s].taken /\ e.cut = ses[s].cut /\ e.failed = ses[s].failed
      /\ e.stage = stage /\ e.stop = ses[s].stop
  <2> HIDE DEF stage
  <2> QED
    BY <1>1, <1>3 DEF Session
<1> HIDE DEF e
<1>6. Recorded([ses EXCEPT ![s] = e], journal, nextNr, d, r, f)
  <2>1. /\ ses[s].stage = "over" => ses[s].stop # "none"
        /\ Underway(ses[s]) => ses[s].stop = "none"
        /\ ses[s].stage = "begun" /\ ~ses[s].cut => ses[s].taken = 0 /\ ~ses[s].failed
    BY DEF Now, Recorded, Staged
  <2>2. e.stage # "none" /\ (Underway(e) => Underway(ses[s]) /\ e.stop = "none")
        /\ (e.stage = "over" => e.stop # "none")
        /\ (e.stage = "begun" /\ ~e.cut => e.taken = 0 /\ ~e.failed)
    BY <1>3, <1>5, <2>1 DEF Underway
  <2> HIDE DEF stage
  <2>3. Recorded(ses, journal, nextNr, doubt, rec, meterFile)
    BY DEF Now
  <2>4. Recorded([ses EXCEPT ![s]
        = e], journal, nextNr, doubt \cup {e.nr}, Finalized(rec, e.nr), Gone(rec, e.nr, meterFile))
    BY <1>1, <1>5, <2>2, <2>3, GiveUp
  <2> QED
    BY <1>5, <2>4
<1>7. CASE ses' = lost /\ rec' = r /\ UNCHANGED <<journal, nextNr>>
  <2> HIDE DEF d, f, r
  <2> QED
    BY <1>2, <1>4, <1>6, <1>7 DEF Now
<1>8. CASE MeterLost(lost)
  <2>1. \A p \in Sessions : Running(p) <=> lost[p].stage \in {"running", "ending"}
    BY <1>1, <1>2, <1>5, RunningIs
  <2> HIDE DEF d, f, r
  <2>2. Recorded(lost, journal, nextNr, d, r, f)
    BY <1>2, <1>6
  <2>3. Recorded(ses', journal, nextNr, d, NoRecord, f)
    BY <1>8, <2>1, <2>2, CutKeeps
  <2> QED
    BY <1>4, <1>8, <2>3 DEF MeterLost, Now
<1> QED
  BY <1>4, <1>7, <1>8

\* Files that hold the same values are filled alike.
LEMMA FilledSame ==
    ASSUME NEW s, NEW t, NEW m, NEW f, NEW g, Filled(s, t, m, f), \A i \in Index : g[i] = f[i]
    PROVE  Filled(s, t, m, g)
BY DEF Filled

\* What a write that is cut leaves in its file takes nothing from the others.
LEMMA WriteCut ==
    ASSUME NEW s \in Sessions, NEW t \in Nat, NEW m \in 0..MaxData,
           NEW r \in Recording, r.nr \in TxNr, NEW f \in MeterFiles,
           Filled(s, t, m, f[r.nr]), RecordOf(s, t, m, r),
           NEW left, left \in Lost \/ left = [of |-> s, n |-> t + 1],
           NEW g, \A i \in Index : g[i] = IF i = Place(r) THEN left ELSE f[r.nr][i]
    PROVE  \E u \in 0..MaxData : Filled(s, t + 1, u, g)
<1> DEFINE v == [of |-> s, n |-> t + 1]
           p == Place(r)
<1>1. v \in Value /\ ~r.finalized /\ MaxData \in Nat
  BY NewValue, MeterConstants DEF RecordOf
<1>2. CASE left = v
  <2> DEFINE h == Add(r, f, v, "ok").file[r.nr]
  <2>1. \A i \in Index : h[i] = IF i = p THEN v ELSE f[r.nr][i]
    <3>1. "ok" \in Outcomes
      BY DEF Outcomes
    <3> HIDE DEF v
    <3> QED
      BY <1>1, <3>1, AddIs DEF Stored
  <2>2. p + 1 \in 1..MaxData /\ Filled(s, t + 1, p + 1, h)
    BY AddStored
  <2> HIDE DEF h, p, v
  <2>3. \A i \in Index : g[i] = h[i]
    BY <1>2, <2>1 DEF p
  <2>4. Filled(s, t + 1, p + 1, g)
    BY <2>2, <2>3, FilledSame
  <2> QED
    BY <1>1, <2>2, <2>4
<1>3. CASE left \in Lost
  <2> DEFINE h == Add(r, f, v, "unwritten").file[r.nr]
  <2>0. "unwritten" \in Outcomes \ {"ok"}
    BY DEF Outcomes
  <2>1. (\A i \in Index : h[i] = IF i = p THEN Missing ELSE f[r.nr][i]) /\ p \in Index
    <3> HIDE DEF v
    <3> QED
      BY <1>1, <2>0, AddIs DEF Stored
  <2>2. PICK u \in 0..MaxData : Filled(s, t + 1, u, h)
    BY <2>0, AddFailed
  <2> HIDE DEF h, p, v
  <2>3. ~(p < u)
    BY <2>1, <2>2, ValueAssumption DEF Filled, OwnTo, Lost
  <2>4. \A i \in Index : i < u => g[i] = h[i]
    BY <2>1, <2>3 DEF p
  <2>5. \A i \in Index : ~(i < u) => g[i] \in Lost
    BY <1>3, <2>1, <2>2, <2>3 DEF Filled, p
  <2>6. \A i, k \in Index : i < k /\ k < u => i < u
    BY MeterConstants
  <2>7. Filled(s, t + 1, u, g)
    BY <2>2, <2>4, <2>5, <2>6 DEF Filled
  <2> QED
    BY <2>7
<1> QED
  BY <1>2, <1>3

\* Two fields of a session change at once.
LEMMA CutAndTaken ==
    ASSUME NEW f, NEW s \in Sessions, f \in [Sessions -> Session]
    PROVE  [f EXCEPT ![s].cut = TRUE, ![s].taken = @ + 1] = [f EXCEPT ![s] = [f[s] EXCEPT !.cut
           = TRUE, !.taken = f[s].taken + 1]]
<1> DEFINE g == [f EXCEPT ![s] = [f[s] EXCEPT !.cut = TRUE]]
           h == [f EXCEPT ![s].cut = TRUE, ![s].taken = @ + 1]
           c == [f[s] EXCEPT !.cut = TRUE, !.taken = f[s].taken + 1]
<1>1. f[s] \in Session
  OBVIOUS
<1>2. g[s] = [f[s] EXCEPT !.cut = TRUE] /\ g[s].taken = f[s].taken
  BY <1>1 DEF Session
<1>3. [g[s] EXCEPT !.taken = f[s].taken + 1] = c
  BY <1>1, <1>2 DEF Session
<1>4. h = [g EXCEPT ![s] = [g[s] EXCEPT !.taken = g[s].taken + 1]]
  BY Zenon
<1> QED
  BY <1>2, <1>3, <1>4

\* The power is cut while a value is written.
LEMMA RecordingIsCutKeeps ==
    ASSUME Now, tx \in Sessions \cup {0}, RecordingIsCut
    PROVE  Now'
<1> DEFINE nr == ses[tx].nr
           st == Fetched(nr)
           taken == ses[tx].taken + 1
           c == [ses[tx] EXCEPT !.cut = TRUE, !.taken = taken]
           sessions == [ses EXCEPT ![tx].cut = TRUE, ![tx].taken = @ + 1]
           e == CutSession(c)
           v == [of |-> tx, n |-> taken]
           p == Place(st.rec)
<1>1. tx \in Sessions /\ ses[tx] \in Session /\ ses \in [Sessions -> Session] /\ Underway(ses[tx]) /\ nr \in TxNr
  BY NowTypes DEF RecordingIsCut, Underway
<1>2. PICK left \in {Empty, Torn, v} : meterFile' = [st.file EXCEPT ![nr][p] = left]
  BY Zenon DEF RecordingIsCut
<1>3. MeterLost(sessions) /\ doubt' = doubt
  BY Zenon DEF RecordingIsCut
<1>4. taken \in Nat /\ sessions = [ses EXCEPT ![tx] = c]
  <2>1. tx \in Sessions /\ ses \in [Sessions -> Session]
    BY <1>1
  <2>2. sessions = [ses EXCEPT ![tx] = c]
    BY <2>1, CutAndTaken, Zenon
  <2> QED
    BY <1>1, <2>2 DEF Session
<1>5. /\ c \in Session /\ c.nr = nr /\ c.taken = taken /\ c.cut = TRUE /\ c.stage = ses[tx].stage
      /\ c.stop = ses[tx].stop /\ c.silent = ses[tx].silent
  <2> HIDE DEF taken
  <2> QED
    BY <1>1, <1>4 DEF Session
<1> HIDE DEF c, sessions
<1>6. /\ e \in Session /\ e.nr = nr /\ e.taken = taken /\ e.cut = TRUE /\ e.stage = ses[tx].stage
      /\ e.stop = (IF ses[tx].stop = "ram" THEN "flash" ELSE ses[tx].stop) /\ e.silent = ses[tx].silent
  BY <1>5, CutSessionIs
<1>7. ses[tx].stop = "none" /\ (ses[tx].silent => nr \in doubt) /\ ses[tx].stage # "none" /\ Within(tx, journal)
  BY <1>1, UnderwayIs
<1>8. ses' = [CutOf(ses) EXCEPT ![tx] = e]
  <2>1. \A s \in Sessions : Running(s) <=> sessions[s].stage \in {"running", "ending"}
    BY <1>1, <1>4, <1>5, RunningIs
  <2>2. ses' = CutOf(sessions)
    BY <1>3, <2>1 DEF MeterLost, CutOf, CutSession
  <2> HIDE DEF e
  <2>3. \A s \in Sessions : CutOf(sessions)[s] = IF s = tx THEN CutSession(c) ELSE CutSession(ses[s])
    BY <1>1, <1>4 DEF CutOf
  <2>4. CutOf(sessions) = [s \in Sessions |-> IF s = tx THEN CutSession(c) ELSE CutSession(ses[s])]
    BY <2>3 DEF CutOf
  <2>5. [CutOf(ses) EXCEPT ![tx] = e] = [s \in Sessions |-> IF s = tx THEN e ELSE CutSession(ses[s])]
    BY DEF CutOf
  <2> QED
    BY <2>2, <2>4, <2>5 DEF e
<1>9. Recorded(CutOf(ses), journal, nextNr, doubt, NoRecord, meterFile)
  BY CutStep DEF Now
<1> DEFINE f == [st.file EXCEPT ![nr][p] = left]
<1>10. st \in Pairs /\ st.rec.nr = nr /\ st.rec \in Recording /\ st.file \in MeterFiles /\ p \in Index
       /\ \A q \in TxNr : q # nr => st.file[q] = meterFile[q]
  <2> HIDE DEF nr
  <2>1. st \in Pairs /\ st.rec.nr = nr /\ \A q \in TxNr : q # nr => st.file[q] = meterFile[q]
    BY <1>1, NowTypes, FetchedType, FetchedElse
  <2>2. st.rec \in Recording /\ st.file \in MeterFiles
    BY <2>1 DEF Pairs
  <2>3. st.rec.mvCount \in 0..MaxData
    BY <2>2 DEF Recording
  <2> QED
    BY <2>1, <2>2, <2>3, PlaceIs
<1>11. left \in Lost \/ left = v
  BY DEF Lost
<1>12. left \in Lost \cup Value
  BY <1>1, <1>4, <1>11, NewValue
<1> HIDE DEF e, v, taken
<1>13. /\ f \in MeterFiles /\ (\A q \in TxNr : q # nr => f[q] = st.file[q])
       /\ \A i \in Index : f[nr][i] = IF i = p THEN left ELSE st.file[nr][i]
  <2> HIDE DEF st, p, nr
  <2> QED
    BY <1>1, <1>10, <1>12 DEF MeterFiles
<1> HIDE DEF f, p
<1>14. ASSUME nr \notin doubt PROVE \E u \in 0..MaxData : OwnFiles(tx, e, u, NoRecord, f[nr])
  <2>1. PICK m \in 0..MaxData : OwnFiles(tx, ses[tx], m, rec, meterFile[nr])
    BY <1>1, <1>7, <1>14 DEF Now, Recorded, Owned
  <2> DEFINE t == ses[tx].taken
  <2>2. Filled(tx, t, m, meterFile[nr]) /\ (rec.nr = nr => RecordOf(tx, t, m, rec))
    BY <2>1 DEF OwnFiles
  <2> HIDE DEF t, nr
  <2>3. Filled(tx, t, m, st.file[nr]) /\ RecordOf(tx, t, m, st.rec)
    BY <1>1, <2>2, NowTypes, FetchedIs
  <2>4. t \in Nat /\ v = [of |-> tx, n |-> t + 1] /\ taken = t + 1
    BY <1>1 DEF t, v, taken, Session
  <2> DEFINE g == f[nr]
  <2>5. \A i \in Index : g[i] = IF i = Place(st.rec) THEN left ELSE st.file[st.rec.nr][i]
    BY <1>10, <1>13 DEF p
  <2> HIDE DEF g, st
  <2>6. \E u \in 0..MaxData : Filled(tx, t + 1, u, g)
    BY <1>1, <1>10, <1>11, <2>3, <2>4, <2>5, WriteCut
  <2>7. PICK u \in 0..MaxData : Filled(tx, taken, u, g)
    BY <2>4, <2>6
  <2>8. NoRecord.nr # nr
    BY <1>1, MeterConstants DEF NoRecord, Record, nr
  <2>9. OwnFiles(tx, e, u, NoRecord, g)
    BY <1>6, <1>7, <2>7, <2>8 DEF OwnFiles
  <2> QED
    BY <2>9 DEF g
<1>15. CutOf(ses)[tx].stage = ses[tx].stage /\ CutOf(ses)[tx].nr = nr
  <2>1. CutOf(ses)[tx] = CutSession(ses[tx])
    BY <1>1 DEF CutOf
  <2> QED
    BY <1>1, <2>1, CutSessionIs
<1> HIDE DEF nr, st
<1>16. Goes(CutOf(ses), tx, e, journal, doubt, doubt, NoRecord, NoRecord, meterFile, f)
  BY <1>6, <1>7, <1>10, <1>13, <1>15 DEF Goes, Underway
<1>17. Fares(tx, e, journal, doubt, NoRecord, f)
  BY <1>1, <1>6, <1>7, <1>14 DEF Fares, Underway
<1>18. NoRecord \in Recording
  BY RecordType DEF NoRecord, NrOrNone
<1>19. Recorded([CutOf(ses) EXCEPT ![tx] = e], journal, nextNr, doubt, NoRecord, f)
  BY <1>1, <1>6, <1>9, <1>13, <1>16, <1>17, <1>18, SessionStep
<1>20. rec' = NoRecord /\ journal' = journal /\ nextNr' = nextNr
  BY <1>3 DEF MeterLost
<1>21. meterFile' = f
  BY <1>2 DEF f
<1> QED
  BY <1>3, <1>8, <1>19, <1>20, <1>21 DEF Now

\* The first m values of the files f are in the record, and are what they were.
Read(s, t, m, nr, st, f) ==
    /\ Filled(s, t, m, st.file[nr]) /\ RecordOf(s, t, m, st.rec)
    /\ \A i \in 0..(m - 1) : st.file[nr][i] = f[i]
    /\ Len(st.rec.txData) = m /\ (\A i \in 1..m : st.rec.txData[i] = f[i - 1])

\* getTxMeterData of files that no record in RAM is about.
LEMMA FetchedFiles ==
    ASSUME rec \in Recording, meterFile \in MeterFiles, NEW nr \in TxNr, NEW st, st = Fetched(nr), rec.nr # nr,
           NEW s, NEW t, NEW f, f = meterFile[nr], NEW m \in 0..MaxData, Filled(s, t, m, f)
    PROVE  Read(s, t, m, nr, st, f)
<1>1. /\ Filled(s, t, m, st.file[nr]) /\ RecordOf(s, t, m, st.rec)
      /\ \A i \in 0..(m - 1) : st.file[nr][i] = f[i]
      /\ Len(st.rec.txData) = m /\ (\A i \in 1..m : st.rec.txData[i] = f[i - 1])
  BY FetchedIs, Zenon
<1> QED
  BY <1>1, Zenon DEF Read

\* The values of a StopTransaction that outlived a power cut are those of its files.
LEMMA StopRestoredKeeps ==
    ASSUME Now, NEW s \in Sessions, StopRestored(s)
    PROVE  Now'
<1> DEFINE nr == ses[s].nr
           st == Fetched(nr)
<1>1. ses[s] \in Session /\ nr \in TxNr /\ ses \in [Sessions -> Session] /\ ses[s].stage # "none"
      /\ ses[s].stop = "flash"
  BY NowTypes DEF StopRestored, Now, Recorded, Staged
<1>2. /\ ses[s].stage = "over" => ses[s].stop # "none"
      /\ Underway(ses[s]) => ses[s].stop = "none"
      /\ ses[s].stage = "discarded" \/ ses[s].silent => nr \in doubt
      /\ ses[s].stage = "begun" /\ ~ses[s].cut => ses[s].taken = 0 /\ ~ses[s].failed
  BY DEF Now, Recorded, Staged
<1>3. CASE ses[s].silent
  <2> DEFINE e == [ses[s] EXCEPT !.stop = "lost"]
  <2>1. /\ e \in Session /\ e.nr = nr /\ e.taken = ses[s].taken /\ e.cut = ses[s].cut /\ e.failed = ses[s].failed
        /\ e.stage = ses[s].stage /\ e.stop = "lost"
    BY <1>1 DEF Session
  <2>2. ses' = [ses EXCEPT ![s] = e] /\ meterFile' = Gone(rec, nr, meterFile) /\ rec' = Finalized(rec, nr)
        /\ UNCHANGED <<journal, nextNr, doubt>>
    BY <1>3, Zenon DEF StopRestored
  <2> HIDE DEF e, st
  <2>3. e.stage # "none" /\ (Underway(e) => Underway(ses[s]) /\ e.stop = "none")
        /\ (e.stage = "over" => e.stop # "none")
        /\ (e.stage = "begun" /\ ~e.cut => e.taken = 0 /\ ~e.failed)
    BY <1>1, <1>2, <2>1 DEF Underway
  <2>4. Recorded(ses, journal, nextNr, doubt, rec, meterFile)
    BY DEF Now
  <2>5. Recorded([ses EXCEPT ![s]
        = e], journal, nextNr, doubt \cup {e.nr}, Finalized(rec, e.nr), Gone(rec, e.nr, meterFile))
    BY <1>1, <2>1, <2>3, <2>4, GiveUp
  <2>6. doubt \cup {e.nr} = doubt
    BY <1>2, <1>3, <2>1
  <2> QED
    BY <2>1, <2>2, <2>5, <2>6 DEF Now
<1>4. CASE ~ses[s].silent
  <2> DEFINE data == IF st.rec.finalized THEN <<>> ELSE st.rec.txData
             e == [ses[s] EXCEPT !.stop = "ram", !.data = data]
             r == Finalized(rec, nr)
  <2>0. st \in Pairs /\ st.rec.nr = nr /\ \A q \in TxNr : q # nr => st.file[q] = meterFile[q]
    <3> HIDE DEF nr
    <3> QED
      BY <1>1, NowTypes, FetchedType, FetchedElse
  <2>1. data \in Seq(Value) /\ st.file \in MeterFiles
    BY <2>0 DEF Pairs, Recording
  <2>2. ses' = [ses EXCEPT ![s] = e] /\ meterFile' = st.file /\ rec' = r /\ UNCHANGED <<journal, nextNr, doubt>>
    BY <1>4, Zenon DEF StopRestored, Finalized
  <2>2a. /\ r \in Recording /\ r.nr = rec.nr /\ (rec.nr # nr => r = rec)
    BY NowTypes, FinalizedType
  <2> HIDE DEF data
  <2>3. /\ e \in Session /\ e.nr = nr /\ e.taken = ses[s].taken /\ e.cut = ses[s].cut /\ e.failed = ses[s].failed
        /\ e.stage = ses[s].stage /\ e.stop = "ram" /\ e.silent = ses[s].silent /\ e.data = data
    BY <1>1, <2>1 DEF Session
  <2> HIDE DEF e, r
  <2>4. nr \notin doubt => Within(s, journal)
    BY <1>1 DEF Now, Recorded, Sequenced
  <2>5. ASSUME nr \notin doubt
        PROVE  Reported(s, e) /\ \E m \in 0..MaxData : OwnFiles(s, e, m, r, st.file[nr])
    <3>1. PICK m \in 0..MaxData : OwnFiles(s, ses[s], m, rec, meterFile[nr])
      BY <1>1, <2>4, <2>5 DEF Now, Recorded, Owned
    <3> DEFINE t == ses[s].taken
               f == meterFile[nr]
    <3>2. rec.nr # nr /\ Filled(s, t, m, f)
      BY <1>1, <3>1 DEF OwnFiles
    <3>3. /\ ~ses[s].failed => m > 0 /\ f[m - 1].n = t
          /\ ~ses[s].cut /\ ~ses[s].failed => Whole(s, t, m, f)
      BY <1>1, <3>1 DEF OwnFiles
    <3> HIDE DEF nr, t
    <3>4. /\ Filled(s, t, m, st.file[nr]) /\ RecordOf(s, t, m, st.rec)
          /\ \A i \in 0..(m - 1) : st.file[nr][i] = f[i]
          /\ Len(st.rec.txData) = m /\ (\A i \in 1..m : st.rec.txData[i] = f[i - 1])
      <4>1. nr \in TxNr /\ rec \in Recording /\ meterFile \in MeterFiles
        BY <1>1, NowTypes DEF nr
      <4>2. f = meterFile[nr] /\ st = Fetched(nr)
        BY DEF nr
      <4> HIDE DEF f, st
      <4>3. rec.nr # nr
        BY <3>2
      <4>4. Filled(s, t, m, f)
        BY <3>2
      <4>5. m \in 0..MaxData
        OBVIOUS
      <4>6. Read(s, t, m, nr, st, f)
        BY <4>1, <4>2, <4>3, <4>4, <4>5, FetchedFiles
      <4> QED
        BY <4>6, Zenon DEF Read
    <3> HIDE DEF f
    <3>5. e.taken = t
      BY <2>3 DEF t
    <3>6. e.data = st.rec.txData
      BY <2>3, <3>4 DEF data, RecordOf
    <3> HIDE DEF st
    <3>7. Rising(s, e.taken, e.data)
      BY <3>4, <3>5, <3>6 DEF RecordOf
    <3>8. ~e.failed => e.data # <<>> /\ Last(e.data).n = e.taken
      <4> SUFFICES ASSUME ~e.failed PROVE e.data # <<>> /\ Last(e.data).n = e.taken
        OBVIOUS
      <4>1. m > 0 /\ f[m - 1].n = t
        BY <2>3, <3>3
      <4>2. m \in 1..m /\ Len(e.data) = m /\ e.data[m] = f[m - 1]
        BY <3>4, <3>6, <4>1, MeterConstants
      <4> QED
        BY <3>5, <4>1, <4>2 DEF Last
    <3>9. ~e.cut /\ ~e.failed => Whole(s, e.taken, m, f) /\ Len(e.data) = m /\ \A i \in 1..m : e.data[i] = f[i - 1]
      BY <2>3, <3>3, <3>4, <3>5, <3>6
    <3>10. Reported(s, e)
      BY <2>3, <3>7, <3>8, <3>9, ReportedIs
    <3>11. Whole(s, t, m, f) => Whole(s, t, m, st.file[nr])
      BY <3>4 DEF Whole
    <3>12. m > 0 => m - 1 \in 0..(m - 1)
      BY MeterConstants
    <3>13. OwnFiles(s, e, m, r, st.file[nr])
      BY <2>2a, <2>3, <3>2, <3>3, <3>4, <3>5, <3>11, <3>12 DEF OwnFiles
    <3> QED
      BY <3>10, <3>13
  <2> HIDE DEF st, nr
  <2>6. Goes(ses, s, e, journal, doubt, doubt, rec, r, meterFile, st.file)
    BY <1>1, <2>0, <2>2a, <2>3, <2>4 DEF Goes, Underway, nr
  <2>7. Fares(s, e, journal, doubt, r, st.file)
    BY <1>1, <1>2, <1>4, <2>3, <2>5 DEF Fares, Underway
  <2>8. Recorded([ses EXCEPT ![s] = e], journal, nextNr, doubt, r, st.file)
    BY <2>1, <2>2a, <2>3, <2>6, <2>7, SessionStep DEF Now
  <2> QED
    BY <2>2, <2>8 DEF Now
<1> QED
  BY <1>3, <1>4

\* A session of the journal is in it, and has begun.
LEMMA InJournal ==
    ASSUME NEW se, NEW j, NEW next, NEW d, NEW r, NEW f, Recorded(se, j, next, d, r, f), NEW i \in 1..Len(j)
    PROVE  j[i] \in Sessions /\ se[j[i]] \in Session /\ se[j[i]].nr \in TxNr /\ se[j[i]].stage # "none"
           /\ Within(j[i], j)
<1>1. se \in [Sessions -> Session] /\ j \in Seq(Sessions) /\ se[j[i]].stage # "none"
  BY DEF Recorded, RecordTypes, Sequenced
<1>2. j[i] \in Sessions /\ Within(j[i], j)
  BY <1>1 DEF Within
<1> QED
  BY <1>1, <1>2 DEF Session

\* The values of a doubtful number may go, its record may take no more.
LEMMA ClearDoubt ==
    ASSUME NEW se, NEW j, NEW next, NEW d, NEW r, NEW f, Recorded(se, j, next, d, r, f),
           NEW s \in Sessions, se[s].stage # "none", NEW nr, nr = se[s].nr, nr \in d,
           NEW r2, r2 = r \/ r2 = Finalized(r, nr)
    PROVE  Recorded(se, j, next, d, r2, Gone(r, nr, f))
<1> DEFINE f2 == Gone(r, nr, f)
           e == se[s]
<1>1. r \in Recording /\ f \in MeterFiles /\ se \in [Sessions -> Session] /\ e \in Session
  BY DEF Recorded, RecordTypes
<1>2. /\ r2 \in Recording /\ r2.nr = r.nr /\ (r.nr # nr => r2 = r)
      /\ f2 \in MeterFiles /\ \A q \in TxNr : q # nr => f2[q] = f[q]
  BY <1>1, FinalizedType, GoneType
<1>3. /\ e.stage = "over" => e.stop # "none"
      /\ Underway(e) => e.stop = "none"
      /\ e.stage = "begun" /\ ~e.cut => e.taken = 0 /\ ~e.failed
  BY DEF Recorded, Staged
<1>4. [se EXCEPT ![s] = e] = se
  BY <1>1
<1> HIDE DEF f2, e
<1>5. e = se[s]
  BY DEF e
<1>6. Goes(se, s, e, j, d, d, r, r2, f, f2)
  BY <1>2, <1>5 DEF Goes
<1>7. Fares(s, e, j, d, r2, f2)
  BY <1>3, <1>5 DEF Fares
<1>8. Recorded([se EXCEPT ![s] = e], j, next, d, r2, f2)
  BY <1>1, <1>2, <1>6, <1>7, SessionStep
<1> QED
  BY <1>4, <1>8 DEF f2

\* allocateTransaction removes a silent transaction from the end of the journal.
LEMMA TrimStepKeeps ==
    ASSUME Now, \A p \in Sessions : ~Underway(ses[p]), NEW st \in Journals, NEW s \in Sessions,
           Recorded(ses, st.journal, st.nextNr, doubt, st.rec, st.file)
    PROVE  LET t == TrimStep(st, s) IN Recorded(ses, t.journal, t.nextNr, doubt, t.rec, t.file)
<1> DEFINE nr == ses[s].nr
           gone == Gone(st.rec, nr, st.file)
           front == Front(st.journal)
           final == Finalized(st.rec, nr)
           t == TrimStep(st, s)
<1>0. /\ st = [journal |-> st.journal, nextNr |-> st.nextNr, rec |-> st.rec, file |-> st.file]
      /\ st.journal \in Seq(Sessions)
  BY DEF Journals
<1>1. CASE st.journal # <<>> /\ Last(st.journal) = s /\ ses[s].silent
  <2>1. nr \in doubt
    BY <1>1 DEF Recorded, Staged
  <2>2. Len(st.journal) \in 1..Len(st.journal) /\ st.journal[Len(st.journal)] = s
    BY <1>0, <1>1 DEF Last
  <2>3. ses[s].stage # "none"
    BY <2>2, InJournal
  <2>4. \/ t = [st EXCEPT !.file = gone]
        \/ t = Journal(front, nr, final, gone)
    BY <1>1, Zenon DEF TrimStep
  <2> HIDE DEF nr, gone, front, final, t
  <2>5. CASE t = [st EXCEPT !.file = gone]
    <3>1. t.journal = st.journal /\ t.nextNr = st.nextNr /\ t.rec = st.rec /\ t.file = gone
      BY <1>0, <2>5
    <3>2. Recorded(ses, st.journal, st.nextNr, doubt, st.rec, gone)
      BY <2>1, <2>3, ClearDoubt DEF nr, gone
    <3> QED
      BY <3>1, <3>2 DEF t
  <2>6. CASE t = Journal(front, nr, final, gone)
    <3>1. t.journal = front /\ t.nextNr = nr /\ t.rec = final /\ t.file = gone
      BY <2>6 DEF Journal
    <3>2. Recorded(ses, st.journal, st.nextNr, doubt, final, gone)
      BY <2>1, <2>3, ClearDoubt DEF nr, gone, final
    <3>3. Recorded(ses, front, nr, doubt, final, gone)
      BY <1>1, <2>1, <3>2, PopLast DEF front, nr
    <3> QED
      BY <3>1, <3>3 DEF t
  <2> QED
    BY <2>4, <2>5, <2>6
<1>2. CASE ~(st.journal # <<>> /\ Last(st.journal) = s /\ ses[s].silent)
  <2>1. t = [st EXCEPT !.file = st.file]
    BY <1>2, Zenon DEF TrimStep
  <2> HIDE DEF t
  <2>2. t.journal = st.journal /\ t.nextNr = st.nextNr /\ t.rec = st.rec /\ t.file = st.file
    BY <1>0, <2>1
  <2> QED
    BY <2>2 DEF t
<1> QED
  BY <1>1, <1>2

\* So does the search over the whole journal.
LEMMA TrimmedKeeps ==
    ASSUME Now, \A p \in Sessions : ~Underway(ses[p])
    PROVE  LET t == Trimmed IN t \in Journals /\ Recorded(ses, t.journal, t.nextNr, doubt, t.rec, t.file)
<1>1. /\ journal \in Seq(Sessions) /\ nextNr \in TxNr /\ rec \in Recording /\ meterFile \in MeterFiles
      /\ \A s \in Sessions : ses[s].nr \in TxNr
  BY NowTypes
<1>2. PICK g : /\ g[0] = Journal(journal, nextNr, rec, meterFile) /\ \A k \in 0..Len(journal) : g[k] \in Journals
               /\ \A k \in 1..Len(journal) : g[k] = TrimStep(g[k - 1], Reverse(journal)[k])
               /\ Trimmed = g[Len(journal)]
  BY <1>1, TrimRuns
<1> DEFINE n == Len(journal)
           Fine(t) == Recorded(ses, t.journal, t.nextNr, doubt, t.rec, t.file)
           S == {k \in 0..n : Fine(g[k])}
<1>3. n \in Nat /\ \A k \in 1..n : Reverse(journal)[k] \in Sessions
  BY <1>1 DEF Reverse
<1>4. 0 \in S
  <2>1. Fine(g[0])
    BY <1>2 DEF Journal, Now
  <2> QED
    BY <1>3, <2>1
<1>5. ASSUME NEW k \in 1..n, k - 1 \in S PROVE k \in S
  <2>1. g[k - 1] \in Journals /\ g[k] = TrimStep(g[k - 1], Reverse(journal)[k]) /\ Reverse(journal)[k] \in Sessions
    BY <1>2, <1>3
  <2>2. Fine(g[k])
    BY <1>5, <2>1, TrimStepKeeps
  <2> QED
    BY <1>3, <2>2
<1>6. n \in S
  <2> HIDE DEF S, n
  <2>1. \A k \in 0..n : k \in S
    BY <1>3, <1>4, <1>5, Climb, Zenon
  <2> QED
    BY <1>3, <2>1
<1>7. Fine(g[n]) /\ g[n] \in Journals
  BY <1>2, <1>3, <1>6
<1> QED
  BY <1>2, <1>7

\* ... and the oldest one, if its StopTransaction was answered.
LEMMA EvictedKeeps ==
    ASSUME NEW st \in Journals, Recorded(ses, st.journal, st.nextNr, doubt, st.rec, st.file)
    PROVE  LET t == Evicted(st) IN Recorded(ses, t.journal, t.nextNr, doubt, t.rec, t.file)
<1> DEFINE s == Head(st.journal)
           j == st.journal
           nr == ses[s].nr
           r == st.rec
           f == st.file
           gone == Gone(r, nr, f)
           final == Finalized(r, nr)
           left == IF RemoveSucceeds(r, nr, f) THEN Tail(st.journal) ELSE st.journal
           t == Evicted(st)
<1>0. j \in Seq(Sessions) /\ r \in Recording /\ f \in MeterFiles
  BY DEF Journals
<1>1. CASE Len(j) < RecordSize \/ ses[s].stop # "answered"
  BY <1>1 DEF Evicted
<1>2. CASE ~(Len(j) < RecordSize \/ ses[s].stop # "answered")
  <2>1. t = Journal(left, st.nextNr, final, gone)
    BY <1>2, Zenon DEF Evicted
  <2>2. j # <<>> /\ 1 \in 1..Len(j) /\ s = j[1]
    BY <1>0, <1>2, MeterConstants
  <2>3. s \in Sessions /\ ses[s] \in Session /\ nr \in TxNr /\ ses[s].stage # "none" /\ Within(s, j)
    BY <2>2, InJournal
  <2>4. /\ gone \in MeterFiles /\ final \in Recording /\ final.nr = r.nr /\ (r.nr # nr => final = r)
        /\ \A q \in TxNr : q # nr => gone[q] = f[q]
    BY <1>0, GoneType, FinalizedType
  <2>5. Recorded(ses, j, st.nextNr, doubt, final, gone)
        /\ (nr \notin doubt => final.nr # nr /\ \A i \in Index : gone[nr][i] \in Lost)
    <3>1. CASE nr \in doubt
      <4>1. Recorded(ses, j, st.nextNr, doubt, final, gone)
        BY <2>3, <3>1, ClearDoubt
      <4> QED
        BY <3>1, <4>1
    <3>2. CASE nr \notin doubt
      <4>1. PICK m \in 0..MaxData : OwnFiles(s, ses[s], m, r, f[nr])
        BY <2>3, <3>2 DEF Recorded, Owned
      <4>2. r.nr # nr /\ Filled(s, ses[s].taken, m, f[nr])
        BY <1>2, <4>1 DEF OwnFiles
      <4>3. final = r
        BY <2>4, <4>2
      <4> DEFINE e == ses[s]
      <4> HIDE DEF final, left, t, nr, s, r, f, j
      <4>4. \A i \in Index : gone[nr][i] \in Lost
        BY <1>0, <2>3, <4>2, GoneAll
      <4> HIDE DEF gone
      <4>4a. 0 \in 0..MaxData /\ \A i \in Index : ~(i < 0)
        BY MeterConstants
      <4>5. Filled(s, e.taken, 0, gone[nr])
        BY <4>4, MeterConstants DEF Filled
      <4>6. OwnFiles(s, e, 0, r, gone[nr])
        BY <1>2, <4>2, <4>5 DEF OwnFiles, nr
      <4>7. /\ e.stage = "over" => e.stop # "none"
            /\ Underway(e) => e.stop = "none"
            /\ e.stage = "discarded" \/ e.silent => nr \in doubt
            /\ e.stage = "begun" /\ ~e.cut => e.taken = 0 /\ ~e.failed
            /\ e.stop \in {"ram", "answered"} /\ nr \notin doubt => Reported(s, e)
        BY <2>3 DEF Recorded, Staged, Delivered, nr
      <4>8. e.nr = nr /\ e \in Session
        BY <2>3 DEF nr
      <4>8a. [ses EXCEPT ![s] = e] = ses /\ e = ses[s]
        BY <2>3 DEF Recorded, RecordTypes
      <4> HIDE DEF e
      <4>9. Goes(ses, s, e, j, doubt, doubt, r, r, f, gone)
        BY <2>3, <2>4, <4>8, <4>8a DEF Goes
      <4>10. Fares(s, e, j, doubt, r, gone)
        BY <4>4a, <4>6, <4>7, <4>8 DEF Fares
      <4>11. Recorded([ses EXCEPT ![s] = e], j, st.nextNr, doubt, r, gone)
        <5>1. Recorded(ses, j, st.nextNr, doubt, r, f)
          BY DEF j, r, f
        <5> QED
          BY <1>0, <2>3, <2>4, <4>8, <4>9, <4>10, <5>1, SessionStep
      <4> QED
        BY <4>2, <4>3, <4>4, <4>8a, <4>11
    <3> QED
      BY <3>1, <3>2
  <2>6. Recorded(ses, left, st.nextNr, doubt, final, gone)
    <3> HIDE DEF final, gone, t
    <3>1. ses[Head(j)].stop = "answered" /\ nr = ses[Head(j)].nr
      BY <1>2
    <3> HIDE DEF j, nr
    <3>2. Recorded(ses, Tail(j), st.nextNr, doubt, final, gone)
      BY <2>2, <2>5, <3>1, PopFirst
    <3> QED
      BY <2>5, <3>2 DEF j
  <2>7. t.journal = left /\ t.nextNr = st.nextNr /\ t.rec = final /\ t.file = gone
    <3> HIDE DEF left, final, gone, t
    <3> QED
      BY <2>1 DEF Journal
  <2> HIDE DEF left, final, gone, t
  <2> QED
    BY <2>6, <2>7 DEF t
<1> QED
  BY <1>1, <1>2

\* A transaction begins.
LEMMA BeginTransactionKeeps ==
    ASSUME Now, \A p \in Sessions : up => (Underway(ses[p]) => tx = p), NEW s \in Sessions, BeginTransaction(s)
    PROVE  Now'
<1> DEFINE st == Evicted(Trimmed)
           allocated == Len(st.journal) < RecordSize
<1>1. up /\ tx = 0 /\ ses[s].stage = "none" /\ rec' = st.rec /\ meterFile' = st.file /\ doubt' = doubt
  BY DEF BeginTransaction
<1>2. \A p \in Sessions : ~Underway(ses[p])
  BY <1>1, MeterConstants
<1>3. Trimmed \in Journals /\ Recorded(ses, Trimmed.journal, Trimmed.nextNr, doubt, Trimmed.rec, Trimmed.file)
  BY <1>2, TrimmedKeeps
<1>4. Recorded(ses, st.journal, st.nextNr, doubt, st.rec, st.file)
  BY <1>3, EvictedKeeps
<1>5. CASE allocated
  <2>1. /\ journal' = Append(st.journal, s) /\ nextNr' = (st.nextNr + 1) % TxCnt
        /\ ses' = [ses EXCEPT ![s] = NewSession(st.nextNr, "begun")]
    BY <1>5, Zenon DEF BeginTransaction
  <2> HIDE DEF st
  <2>2. Recorded([ses EXCEPT ![s] = NewSession(st.nextNr, "begun")], Append(st.journal, s), (st.nextNr + 1) % TxCnt,
                 doubt, st.rec, st.file)
    BY <1>1, <1>2, <1>4, <1>5, BeginNew
  <2> QED
    BY <1>1, <2>1, <2>2 DEF Now
<1>6. CASE ~allocated
  <2>1. journal' = st.journal /\ nextNr' = st.nextNr /\ ses' = ses
    BY <1>6, Zenon DEF BeginTransaction
  <2> QED
    BY <1>1, <1>4, <2>1 DEF Now
<1> QED
  BY <1>5, <1>6

-----------------------------------------------------------------------------
(* Which transaction the connector and its metering are at *)

\* The values that wait were taken in the transaction under which they will be sent, and the
\* connector has not left it since without the metering having its turn.
Tagged ==
    \A i \in DOMAIN meterData : meterData[i] # 0 =>
        /\ meterData[i] = transaction /\ trackTxRunning
        /\ Running(tx) => tx = transaction
        /\ turn = "connector" => Running(tx)
AtWork ==
    /\ tx \in Sessions \cup {0} /\ meterData \in Seq(Sessions \cup {0})
    /\ InUse /\ Tagged

\* Which sessions are under way, and running.
Alike(s) ==
    /\ Underway(ses'[s]) <=> Underway(ses[s])
    /\ ses'[s].stage \in {"running", "ending"} <=> ses[s].stage \in {"running", "ending"}

\* Nothing changes but sessions, each as much under way as before.
LEMMA AtWorkSame ==
    ASSUME AtWork, UNCHANGED <<journal, tx, meterData, transaction, trackTxRunning, turn, up>>,
           \A s \in Sessions : Alike(s)
    PROVE  AtWork'
<1>1. Running(tx)' <=> Running(tx)
  BY MeterConstants DEF Alike, Running, AtWork
<1>2. InUse'
  BY DEF InUse, Alike, AtWork
<1>3. Tagged'
  BY <1>1 DEF Tagged, AtWork
<1> QED
  BY <1>2, <1>3 DEF AtWork

\* One session changes, and is as much under way as before.
LEMMA AtWorkOne ==
    ASSUME Now, AtWork, UNCHANGED <<journal, tx, meterData, transaction, trackTxRunning, turn, up>>,
           NEW s \in Sessions, NEW e, ses' = [ses EXCEPT ![s] = e],
           e.stage = ses[s].stage \/ (e.stage = "ending" /\ ses[s].stage = "running")
    PROVE  AtWork'
<1>1. ses \in [Sessions -> Session]
  BY NowTypes
<1>2. \A p \in Sessions : Alike(p)
  BY <1>1 DEF Alike, Underway
<1> QED
  BY <1>2, AtWorkSame

\* A cut.
LEMMA AtWorkLost ==
    ASSUME NEW se, MeterLost(se), up' = FALSE
    PROVE  AtWork'
<1>1. tx' = 0 /\ meterData' = <<>>
  BY DEF MeterLost
<1> QED
  BY <1>1 DEF AtWork, InUse, Tagged, Running

\* A transaction is to end.
LEMMA EndTransactionWorks ==
    ASSUME Now, AtWork, EndTransaction, UNCHANGED up
    PROVE  AtWork'
<1> DEFINE e == [ses[tx] EXCEPT !.stage = "ending"]
<1>1. tx \in Sessions /\ ses[tx] \in Session /\ ses[tx].stage = "running"
  BY NowTypes DEF EndTransaction, AtWork
<1>2. e.stage = "ending"
  BY <1>1 DEF Session
<1>3. ses' = [ses EXCEPT ![tx] = e] /\ UNCHANGED <<journal, tx, meterData, transaction, trackTxRunning, turn>>
  BY Zenon DEF EndTransaction
<1> HIDE DEF e
<1> QED
  BY <1>1, <1>2, <1>3, AtWorkOne

\* The StartTransaction is answered.
LEMMA StartConfWorks ==
    ASSUME Now, AtWork, NEW s \in Sessions, StartConf(s)
    PROVE  AtWork'
<1> DEFINE e == [ses[s] EXCEPT !.start = "answered"]
<1>1. e.stage = ses[s].stage
  BY NowTypes DEF Session
<1>2. ses' = [ses EXCEPT ![s] = e] /\ UNCHANGED <<journal, tx, meterData, transaction, trackTxRunning, turn, up>>
  BY Zenon DEF StartConf
<1> HIDE DEF e
<1> QED
  BY <1>1, <1>2, AtWorkOne

\* The StopTransaction is answered.
LEMMA StopConfWorks ==
    ASSUME Now, AtWork, NEW s \in Sessions, StopConf(s)
    PROVE  AtWork'
<1> DEFINE e == [ses[s] EXCEPT !.stop = "answered"]
<1>1. e.stage = ses[s].stage
  BY NowTypes DEF Session
<1>2. ses' = [ses EXCEPT ![s] = e] /\ UNCHANGED <<journal, tx, meterData, transaction, trackTxRunning, turn, up>>
  BY Zenon DEF StopConf
<1> HIDE DEF e
<1> QED
  BY <1>1, <1>2, AtWorkOne

\* A StopTransaction comes back from flash.
LEMMA StopRestoredWorks ==
    ASSUME Now, AtWork, NEW s \in Sessions, StopRestored(s)
    PROVE  AtWork'
<1> DEFINE st == Fetched(ses[s].nr)
           data == IF st.rec.finalized THEN <<>> ELSE st.rec.txData
           c == [ses[s] EXCEPT !.stop = "lost"]
           e == [ses[s] EXCEPT !.stop = "ram", !.data = data]
<1>1. ses[s] \in Session
  BY NowTypes
<1>2. c.stage = ses[s].stage
  BY <1>1 DEF Session
<1>3. e.stage = ses[s].stage
  <2> HIDE DEF data
  <2> QED
    BY <1>1 DEF Session
<1>4. UNCHANGED <<journal, tx, meterData, transaction, trackTxRunning, turn, up>>
  BY Zenon DEF StopRestored
<1>5. ses' = [ses EXCEPT ![s] = c] \/ ses' = [ses EXCEPT ![s] = e]
  BY Zenon DEF StopRestored
<1> HIDE DEF c, e
<1> QED
  BY <1>2, <1>3, <1>4, <1>5, AtWorkOne

\* A StartTransaction does not.
LEMMA StartLostWorks ==
    ASSUME Now, AtWork, NEW s \in Sessions, StartLost(s)
    PROVE  AtWork'
<1> DEFINE stage == IF ses[s].stage = "running" THEN "ending" ELSE ses[s].stage
           e == [ses[s] EXCEPT !.start = "lost", !.silent = TRUE, !.stage = stage]
           lost == [ses EXCEPT ![s].start = "lost", ![s].silent = TRUE,
                               ![s].stage = IF @ = "running" THEN "ending" ELSE @]
<1>1. ses \in [Sessions -> Session] /\ ses[s] \in Session
  BY NowTypes
<1>2. e.stage = stage
  <2> HIDE DEF stage
  <2> QED
    BY <1>1 DEF Session
<1>3. lost = [ses EXCEPT ![s] = e]
  BY <1>1 DEF Session
<1>4. \/ up' = FALSE /\ MeterLost(lost)
      \/ ses' = lost /\ UNCHANGED <<journal, tx, meterData, transaction, trackTxRunning, turn, up>>
  BY Zenon DEF StartLost
<1> HIDE DEF lost, e
<1>5. CASE up' = FALSE /\ MeterLost(lost)
  BY <1>5, AtWorkLost
<1>6. CASE ses' = lost /\ UNCHANGED <<journal, tx, meterData, transaction, trackTxRunning, turn, up>>
  BY <1>2, <1>3, <1>6, AtWorkOne
<1> QED
  BY <1>4, <1>5, <1>6

\* A transaction begins.
LEMMA BeginTransactionWorks ==
    ASSUME Now, AtWork, NEW s \in Sessions, BeginTransaction(s), UNCHANGED up
    PROVE  AtWork'
<1> DEFINE st == Evicted(Trimmed)
           allocated == Len(st.journal) < RecordSize
           e == NewSession(st.nextNr, "begun")
<1>1. up /\ tx = 0 /\ UNCHANGED <<meterData, transaction, trackTxRunning, turn>>
  BY DEF BeginTransaction
<1>2. \A p \in Sessions : ~Underway(ses[p])
  BY <1>1, MeterConstants DEF AtWork, InUse
<1>3. e.stage = "begun"
  BY DEF NewSession
<1>4. ses \in [Sessions -> Session] /\ s # 0 /\ ~Running(tx)
  BY <1>1, NowTypes, MeterConstants DEF Running
<1>5. st.journal \in Seq(Sessions)
  <2>1. Trimmed \in Journals
    BY <1>2, TrimmedKeeps
  <2>2. \A p \in Sessions : ses[p].nr \in TxNr
    BY NowTypes
  <2> QED
    BY <2>1, <2>2, EvictedType DEF Journals
<1>6. CASE allocated
  <2>1. journal' = Append(st.journal, s) /\ ses' = [ses EXCEPT ![s] = e] /\ tx' = s
    BY <1>6, Zenon DEF BeginTransaction
  <2> HIDE DEF st, e
  <2>2. ses'[s] = e /\ \A p \in Sessions : p # s => ses'[p] = ses[p]
    BY <1>4, <2>1
  <2>3. journal' # <<>> /\ Last(journal') = s
    BY <1>5, <2>1 DEF Last
  <2>4. InUse'
    BY <1>1, <1>2, <2>1, <2>2, <2>3 DEF InUse
  <2>5. ~Running(tx)'
    BY <1>3, <2>1, <2>2 DEF Running
  <2>6. Tagged'
    BY <1>1, <1>4, <2>5 DEF Tagged, AtWork
  <2> QED
    BY <1>1, <2>1, <2>4, <2>6 DEF AtWork
<1>7. CASE ~allocated
  <2>1. ses' = ses /\ tx' = tx
    BY <1>7, Zenon DEF BeginTransaction
  <2>2. InUse'
    BY <1>1, <1>2, <2>1 DEF InUse
  <2>3. Tagged'
    BY <1>1, <1>4, <2>1 DEF Tagged, AtWork, Running
  <2> QED
    BY <1>1, <2>1, <2>2, <2>3 DEF AtWork
<1> QED
  BY <1>6, <1>7

\* The connector goes on with the latest transaction.
LEMMA MeterBootWorks ==
    ASSUME Now, AtWork, ~up, MeterBoot
    PROVE  AtWork'
<1>1. meterData' = <<>> /\ meterData = <<>> /\ journal' = journal /\ ses' = ses
  BY DEF AtWork, InUse, MeterBoot
<1>2. tx' = IF journal = <<>> THEN 0 ELSE Last(journal)
  BY DEF MeterBoot
<1>3. journal \in Seq(Sessions)
  BY NowTypes
<1>4. tx' \in Sessions \cup {0}
  BY <1>2, <1>3, FrontIs
<1>5. \A s \in Sessions : Underway(ses[s]) => tx' = s
  BY <1>2 DEF Now, Recorded, Sequenced
<1>6. InUse'
  BY <1>1, <1>2, <1>5, MeterConstants DEF InUse
<1> QED
  BY <1>1, <1>4, <1>6 DEF AtWork, Tagged

\* The connector leaves its transaction, or has none.
LEMMA LeaveWorks ==
    ASSUME AtWork, tx' = 0, turn' # "connector", UNCHANGED <<meterData, transaction, trackTxRunning, up>>,
           \A s \in Sessions : ~Underway(ses'[s])
    PROVE  AtWork'
<1>1. ~Running(tx)'
  BY DEF Running
<1>2. InUse'
  BY DEF InUse, AtWork
<1>3. Tagged'
  BY <1>1 DEF Tagged, AtWork
<1> QED
  BY <1>2, <1>3 DEF AtWork

\* The connector has nothing to do.
LEMMA IdleWorks ==
    ASSUME Now, AtWork, Idle, up, turn' # "connector", UNCHANGED <<meterData, transaction, trackTxRunning, up>>
    PROVE  AtWork'
<1>1. ses' = ses /\ journal' = journal /\ tx' = (IF tx # 0 /\ ses[tx].stop = "answered" THEN 0 ELSE tx)
  BY DEF Idle
<1>2. CASE tx # 0 /\ ses[tx].stop = "answered"
  <2>1. \A s \in Sessions : ~Underway(ses'[s])
    BY <1>1, <1>2 DEF Now, Recorded, Staged, AtWork, InUse
  <2> QED
    BY <1>1, <1>2, <2>1, LeaveWorks
<1>3. CASE ~(tx # 0 /\ ses[tx].stop = "answered")
  <2>1. tx' = tx
    BY <1>1, <1>3
  <2>2. InUse'
    BY <1>1, <2>1 DEF InUse, AtWork
  <2>3. Tagged'
    BY <1>1, <2>1 DEF Tagged, AtWork, Running
  <2> QED
    BY <2>1, <2>2, <2>3 DEF AtWork
<1> QED
  BY <1>2, <1>3

\* It discards a silent transaction.
LEMMA StopSilentWorks ==
    ASSUME Now, AtWork, StopSilent, up, turn' # "connector", UNCHANGED <<meterData, transaction, trackTxRunning, up>>
    PROVE  AtWork'
<1> DEFINE e == [ses[tx] EXCEPT !.stage = "discarded"]
<1>1. tx \in Sessions /\ ses[tx] \in Session /\ ses \in [Sessions -> Session] /\ tx' = 0
  BY NowTypes DEF StopSilent, AtWork
<1>2. e.stage = "discarded"
  BY <1>1 DEF Session
<1>3. ses' = [ses EXCEPT ![tx] = e]
  BY Zenon DEF StopSilent
<1> HIDE DEF e
<1>4. \A s \in Sessions : ~Underway(ses'[s])
  BY <1>1, <1>2, <1>3 DEF Underway, AtWork, InUse
<1> QED
  BY <1>1, <1>4, LeaveWorks

\* It ends one.
LEMMA StopTxWorks ==
    ASSUME Now, AtWork, NEW outcome \in Outcomes, StopTx(outcome), up, turn' # "connector",
           UNCHANGED <<meterData, transaction, trackTxRunning, up>>
    PROVE  AtWork'
<1> DEFINE c == Counting(tx, 1, outcome)
           st == Taken(tx, 1, outcome)
           data == IF st.rec.finalized THEN <<>> ELSE st.rec.txData
           e == [c EXCEPT !.stage = "over", !.stop = "ram", !.data = data]
<1>1. tx \in Sessions /\ ses[tx] \in Session /\ ses \in [Sessions -> Session] /\ tx' = 0
  BY NowTypes DEF StopTx, AtWork
<1>2. c \in Session
  BY <1>1, CountingIs DEF Took
<1>3. ses' = [ses EXCEPT ![tx] = e]
  BY Zenon DEF StopTx
<1> HIDE DEF c, data
<1>4. e.stage = "over"
  BY <1>2 DEF Session
<1> HIDE DEF e
<1>5. \A s \in Sessions : ~Underway(ses'[s])
  BY <1>1, <1>3, <1>4 DEF Underway, AtWork, InUse
<1> QED
  BY <1>1, <1>5, LeaveWorks

\* It starts one.
LEMMA StartTxWorks ==
    ASSUME Now, AtWork, NEW outcome \in Outcomes, StartTx(outcome), turn = "connector", turn' # "connector",
           UNCHANGED <<meterData, transaction, trackTxRunning, up>>
    PROVE  AtWork'
<1> DEFINE c == Counting(tx, 1, outcome)
           e == [c EXCEPT !.stage = "running", !.start = "ram"]
<1>1. /\ tx \in Sessions /\ ses[tx] \in Session /\ ses \in [Sessions -> Session] /\ ses[tx].stage = "begun"
      /\ tx' = tx /\ journal' = journal
  BY NowTypes DEF StartTx, AtWork
<1>2. c \in Session
  BY <1>1, CountingIs DEF Took
<1>3. ses' = [ses EXCEPT ![tx] = e]
  BY Zenon DEF StartTx
<1> HIDE DEF c
<1>4. e.stage = "running"
  BY <1>2 DEF Session
<1> HIDE DEF e
<1>5. \A s \in Sessions : Underway(ses'[s]) <=> Underway(ses[s])
  BY <1>1, <1>3, <1>4 DEF Underway
<1>6. ~Running(tx)
  BY <1>1 DEF Running
<1>7. Tagged'
  BY <1>6 DEF Tagged, AtWork
<1>8. InUse'
  BY <1>1, <1>5 DEF InUse, AtWork
<1> QED
  BY <1>1, <1>7, <1>8 DEF AtWork

\* The turn of the connector.
LEMMA ConnectorWorks ==
    ASSUME Now, AtWork, ConnectorLoop, UNCHANGED up
    PROVE  AtWork'
<1>1. up /\ turn = "connector" /\ turn' = "metering" /\ UNCHANGED <<meterData, transaction, trackTxRunning>>
  BY DEF ConnectorLoop
<1>2. CASE Idle
  BY <1>1, <1>2, IdleWorks
<1>3. CASE StopSilent
  BY <1>1, <1>3, StopSilentWorks
<1>4. ASSUME NEW outcome \in Outcomes, StartTx(outcome) PROVE AtWork'
  BY <1>1, <1>4, StartTxWorks
<1>5. ASSUME NEW outcome \in Outcomes, StopTx(outcome) PROVE AtWork'
  BY <1>1, <1>5, StopTxWorks
<1> QED
  BY <1>2, <1>3, <1>4, <1>5 DEF ConnectorLoop

\* It keeps the invariant of the records, too.
LEMMA ConnectorKeeps ==
    ASSUME Now, AtWork, ConnectorLoop
    PROVE  Now'
<1>1. tx \in Sessions \cup {0}
  BY DEF AtWork
<1>2. CASE Idle
  BY <1>2 DEF Idle, Now
<1>3. CASE StopSilent
  BY <1>1, <1>3, StopSilentKeeps
<1>4. ASSUME NEW outcome \in Outcomes, StartTx(outcome) PROVE Now'
  BY <1>1, <1>4, StartTxKeeps
<1>5. ASSUME NEW outcome \in Outcomes, StopTx(outcome) PROVE Now'
  BY <1>1, <1>5, StopTxKeeps
<1> QED
  BY <1>2, <1>3, <1>4, <1>5 DEF ConnectorLoop

\* The metering has its turn: values are taken, sent or dropped.
LEMMA TakeValuesWorks ==
    ASSUME Now, AtWork, up, UNCHANGED <<journal, tx, up>>, trackTxRunning' = Running(tx),
           NEW only \in InTxOnly, NEW due \in 0..2, NEW recorded \in 0..2, NEW outcome \in Outcomes,
           TakeValues(only, due, recorded, outcome)
    PROVE  AtWork'
<1> DEFINE inTx == Running(tx) /\ ~ses[tx].silent
           s == IF inTx THEN tx ELSE 0
           kept == IF inTx THEN recorded ELSE 0
           e == Counting(tx, kept, outcome)
           more == [i \in 1..due |-> s]
<1>1. /\ ~Flush /\ transaction' = tx /\ meterData' = meterData \o more
      /\ ses' = IF inTx THEN [ses EXCEPT ![tx] = e] ELSE ses
  BY Zenon DEF TakeValues
<1>2. ses \in [Sessions -> Session] /\ meterData \in Seq(Sessions \cup {0}) /\ tx \in Sessions \cup {0}
  BY NowTypes DEF AtWork
<1>3. kept \in Nat
  OBVIOUS
<1>4. inTx => tx \in Sessions /\ ses[tx] \in Session
  BY <1>2 DEF Running
<1> HIDE DEF kept
<1>5. inTx => e.stage = ses[tx].stage
  BY <1>3, <1>4, CountingIs
<1> HIDE DEF e
<1>6. \A p \in Sessions : ses'[p].stage = ses[p].stage
  BY <1>1, <1>2, <1>4, <1>5
<1>7. Running(tx)' <=> Running(tx)
  BY <1>2, <1>6, MeterConstants DEF Running
<1>8. s \in Sessions \cup {0} /\ (s # 0 => s = tx /\ Running(tx))
  BY <1>4
<1> HIDE DEF s, inTx
<1>9. more \in Seq(Sessions \cup {0}) /\ Len(more) = due /\ \A i \in 1..due : more[i] = s
  BY <1>8
<1> HIDE DEF more
<1>10. /\ meterData' \in Seq(Sessions \cup {0}) /\ Len(meterData') = Len(meterData) + due
       /\ \A i \in 1..Len(meterData') :
            meterData'[i] = IF i <= Len(meterData) THEN meterData[i] ELSE more[i - Len(meterData)]
  BY <1>1, <1>2, <1>9, ConcatProperties
<1>11. ASSUME NEW i \in DOMAIN meterData', meterData'[i] # 0
       PROVE  meterData'[i] = tx /\ Running(tx)
  <2>1. CASE i \in 1..Len(meterData)
    <3>1. meterData[i] # 0 /\ i \in DOMAIN meterData /\ meterData'[i] = meterData[i]
      BY <1>2, <1>10, <1>11, <2>1
    <3>2. meterData[i] = transaction /\ trackTxRunning /\ (Running(tx) => tx = transaction)
      BY <3>1 DEF AtWork, Tagged
    <3>3. ~TxBreak
      BY <1>1, <2>1, <3>1 DEF Flush
    <3>4. Running(tx)
      BY <3>2, <3>3 DEF TxBreak
    <3> QED
      BY <3>1, <3>2, <3>4
  <2>2. CASE i \notin 1..Len(meterData)
    <3>1. i \in 1..Len(meterData') /\ ~(i <= Len(meterData)) /\ i - Len(meterData) \in 1..due
      BY <1>2, <1>10, <1>11, <2>2
    <3>2. meterData'[i] = s
      BY <1>9, <1>10, <3>1
    <3> QED
      BY <1>8, <1>11, <3>2
  <2> QED
    BY <2>1, <2>2
<1>12. Tagged'
  BY <1>1, <1>7, <1>11 DEF Tagged
<1>13. InUse'
  BY <1>6 DEF InUse, AtWork, Underway
<1> QED
  BY <1>2, <1>10, <1>12, <1>13 DEF AtWork

\* The turn of the metering.
LEMMA MeteringWorks ==
    ASSUME Now, AtWork, MeteringLoop, UNCHANGED up
    PROVE  AtWork'
<1>1. up /\ UNCHANGED <<journal, tx>> /\ trackTxRunning' = Running(tx)
  BY DEF MeteringLoop
<1>2. CASE SendMeterValues \/ DropValues
  <2>1. meterData' = <<>> /\ ses' = ses
    BY <1>2 DEF SendMeterValues, DropValues
  <2> QED
    BY <1>1, <2>1 DEF AtWork, InUse, Tagged
<1>3. ASSUME NEW only \in InTxOnly, NEW due \in 0..2, NEW recorded \in 0..2, NEW outcome \in Outcomes,
             TakeValues(only, due, recorded, outcome)
      PROVE  AtWork'
  BY <1>1, <1>3, TakeValuesWorks
<1> QED
  BY <1>2, <1>3 DEF MeteringLoop

\* It keeps the invariant of the records, too.
LEMMA MeteringKeeps ==
    ASSUME Now, AtWork, MeteringLoop
    PROVE  Now'
<1>1. UNCHANGED <<journal, nextNr, doubt>> /\ tx \in Sessions \cup {0}
  BY DEF MeteringLoop, AtWork
<1>2. CASE SendMeterValues \/ DropValues
  BY <1>1, <1>2 DEF SendMeterValues, DropValues, Now
<1>3. ASSUME NEW only \in InTxOnly, NEW due \in 0..2, NEW recorded \in 0..2, NEW outcome \in Outcomes,
             TakeValues(only, due, recorded, outcome)
      PROVE  Now'
  BY <1>1, <1>3, TakeValuesKeeps
<1> QED
  BY <1>2, <1>3 DEF MeteringLoop

-----------------------------------------------------------------------------
(* The specification *)

\* The invariants hold at first ...
LEMMA MeterStart ==
    ASSUME MeterInit
    PROVE  Now /\ AtWork
<1>1. /\ meterFile = [nr \in TxNr |-> [i \in Index |-> Missing]] /\ journal = <<>> /\ nextNr = TxCnt - 1 /\ tx = 0
      /\ ses = [s \in Sessions |-> NewSession(0, "none")] /\ rec = NoRecord /\ meterData = <<>> /\ doubt = {}
  BY DEF MeterInit
<1>2. meterFile \in MeterFiles /\ nextNr \in TxNr /\ rec \in Recording /\ rec.nr = -1
  <2>1. NoRecord \in Recording /\ NoRecord.nr = -1
    BY RecordType DEF NoRecord, NrOrNone
  <2>2. TxCnt - 1 \in TxNr
    BY MeterConstants
  <2> QED
    BY <1>1, <2>1, <2>2 DEF MeterFiles, Lost
<1>3. \A s \in Sessions : /\ ses[s] \in Session /\ ses[s].stage = "none" /\ ses[s].start = "none"
                          /\ ses[s].stop = "none"
                          /\ ~ses[s].silent
  <2>1. NewSession(0, "none") \in Session
    BY MeterConstants DEF NewSession, Session
  <2> QED
    BY <1>1, <2>1 DEF NewSession
<1>4. RecordTypes(ses, journal, nextNr, rec, meterFile)
  BY <1>1, <1>2, <1>3, MeterConstants DEF RecordTypes
<1>5. Len(journal) = 0 /\ \A s \in Sessions : ~Underway(ses[s]) /\ ~Within(s, journal)
  BY <1>1, <1>3 DEF Underway, Within
<1>6. Sequenced(ses, journal, nextNr, doubt)
  BY <1>3, <1>5 DEF Sequenced
<1>7. Unused(ses, journal, doubt, rec, meterFile)
  BY <1>1, <1>2, MeterConstants DEF Unused, Lost
<1>8. Owned(ses, journal, doubt, rec, meterFile) /\ Staged(ses, doubt) /\ Delivered(ses, doubt)
  BY <1>3, <1>5 DEF Owned, Staged, Delivered
<1>9. AtWork
  BY <1>1, <1>5 DEF AtWork, InUse, Tagged
<1> QED
  BY <1>4, <1>6, <1>7, <1>8, <1>9 DEF Now, Recorded

\* ... every step keeps them ...
LEMMA MeterKept ==
    ASSUME Now, AtWork, [Next]_vars
    PROVE  Now' /\ AtWork'
<1>1. CASE Boot
  <2>1. ~up /\ MeterBoot
    BY <1>1 DEF Boot
  <2>2. Now'
    BY <2>1 DEF MeterBoot, Now
  <2> QED
    BY <2>1, <2>2, MeterBootWorks
<1>2. CASE PowerCut
  <2>1. up' = FALSE /\ (MeterCut \/ RecordingIsCut) /\ tx \in Sessions \cup {0}
    BY <1>2 DEF PowerCut, AtWork
  <2>2. CASE MeterCut
    BY <2>1, <2>2, MeterCutKeeps, AtWorkLost DEF MeterCut
  <2>3. CASE RecordingIsCut
    <3>1. MeterLost([ses EXCEPT ![tx].cut = TRUE, ![tx].taken = @ + 1])
      BY <2>3, Zenon DEF RecordingIsCut
    <3> QED
      BY <2>1, <2>3, <3>1, RecordingIsCutKeeps, AtWorkLost
  <2> QED
    BY <2>1, <2>2, <2>3
<1>3. CASE UNCHANGED <<meterVars, up>>
  <2>1. UNCHANGED <<meterFile, ses, journal, nextNr, tx, rec, meterData, transaction, trackTxRunning, turn, doubt, up>>
    BY <1>3 DEF meterVars
  <2>2. \A s \in Sessions : Alike(s)
    BY <2>1 DEF Alike
  <2> QED
    BY <2>1, <2>2, AtWorkSame DEF Now
<1>4. CASE MeterSteps
  <2>1. CASE UNCHANGED up /\ ConnectorLoop
    BY <2>1, ConnectorKeeps, ConnectorWorks
  <2>2. CASE UNCHANGED up /\ MeteringLoop
    BY <2>2, MeteringKeeps, MeteringWorks
  <2>3. CASE UNCHANGED up /\ EndTransaction
    BY <2>3, EndTransactionKeeps, EndTransactionWorks DEF AtWork
  <2>4. ASSUME NEW s \in Sessions, BeginTransaction(s), UNCHANGED up PROVE Now' /\ AtWork'
    <3>1. \A p \in Sessions : up => (Underway(ses[p]) => tx = p)
      BY DEF AtWork, InUse
    <3> QED
      BY <2>4, <3>1, BeginTransactionKeeps, BeginTransactionWorks
  <2>5. ASSUME NEW s \in Sessions, StartConf(s) PROVE Now' /\ AtWork'
    BY <2>5, StartConfKeeps, StartConfWorks
  <2>6. ASSUME NEW s \in Sessions, StartLost(s) PROVE Now' /\ AtWork'
    BY <2>6, StartLostKeeps, StartLostWorks
  <2>7. ASSUME NEW s \in Sessions, StopRestored(s) PROVE Now' /\ AtWork'
    BY <2>7, StopRestoredKeeps, StopRestoredWorks
  <2>8. ASSUME NEW s \in Sessions, StopConf(s) PROVE Now' /\ AtWork'
    BY <2>8, StopConfKeeps, StopConfWorks
  <2> QED
    BY <1>4, <2>1, <2>2, <2>3, <2>4, <2>5, <2>6, <2>7, <2>8 DEF MeterSteps
<1> QED
  BY <1>1, <1>2, <1>3, <1>4 DEF Next, vars

\* ... so they always hold.
LEMMA MeterAlways == Spec => [](Now /\ AtWork)
<1>1. Init => Now /\ AtWork
  BY MeterStart DEF Init
<1>2. (Now /\ AtWork) /\ [Next]_vars => (Now /\ AtWork)'
  BY MeterKept
<1> QED
  BY <1>1, <1>2, PTL DEF Spec

\* The values of a StopTransaction are values of its own transaction in the order in which
\* they were taken, and unless a write failed the last one is the value at the end.
\* (MeterStore::getTxMeterData and remove, TransactionMeterData::restore)
THEOREM OwnValuesHold == Spec => []OwnValues
<1>1. Now => OwnValues
  BY DEF Now, Recorded, Delivered, Reported, OwnValues, Sent
<1> QED
  BY <1>1, MeterAlways, PTL

\* A transaction that neither a power cut nor a failed write touched is reported in full.
\* (TransactionMeterData::addTxData, StopTransaction::restore)
THEOREM WholeRecordHolds == Spec => []WholeRecord
<1>1. Now => WholeRecord
  BY DEF Now, Recorded, Delivered, Reported, WholeRecord, Sent
<1> QED
  BY <1>1, MeterAlways, PTL

\* Values that were taken in a running transaction are sent under no other.
\* (MeteringConnector::loop)
THEOREM AttributedHolds == Spec => []Attributed
<1>1. AtWork => Attributed
  BY DEF AtWork, Tagged, Attributed
<1> QED
  BY <1>1, MeterAlways, PTL

=============================================================================
