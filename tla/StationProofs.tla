--------------------------- MODULE StationProofs ---------------------------
(***************************************************************************)
(* What is proved of the charging station firmware, for all of its         *)
(* connectors, cards and budgets: the types; that the parser is in step    *)
(* again after one frame, and loses none while nothing disturbs the line;  *)
(* that the display and the station agree on who is logged in, and the     *)
(* station keeps who charges, over every interleaving of the two tasks but *)
(* those two of the properties; and that what is confirmed as ended ends.  *)
(*                                                                         *)
(* Three invariants build on each other.  LinkInv says where on the wire   *)
(* the whole frames are.  Orderly says that without noise these are what   *)
(* the board has sent, in its order: the Requests.  Session says in which  *)
(* phase a login is, and with it which of the requests and messages may be *)
(* under way.                                                              *)
(***************************************************************************)
EXTENDS Station, FoldProofs, SequenceTheorems

-----------------------------------------------------------------------------
(* The serial line *)

\* A checksum is a byte.
LEMMA ChecksumType ==
    ASSUME NEW bytes \in Seq(Byte)
    PROVE  Checksum(bytes) \in Byte
<1> DEFINE n == Len(bytes)
           next == [p \in Int \X (1..n) |-> p[1] + bytes[p[2]]]
           Iter(C) == C = [u \in SUBSET DOMAIN bytes |->
                             IF u = {} THEN 0 ELSE C[u \ {Max(u)}] + bytes[Max(u)]]
<1>1. n \in Nat /\ DOMAIN bytes = 1..n /\ \A i \in 1..n : bytes[i] \in Int
  <2>1. n \in Nat /\ DOMAIN bytes = 1..n /\ \A i \in 1..n : bytes[i] \in Byte
    OBVIOUS
  <2>2. Byte \subseteq Int
    BY DEF Byte
  <2> QED
    BY <2>1, <2>2
<1>2. next \in [Int \X (1..n) -> Int]
  <2>1. ASSUME NEW p \in Int \X (1..n) PROVE p[1] + bytes[p[2]] \in Int
    <3>1. p[1] \in Int /\ p[2] \in 1..n
      OBVIOUS
    <3>2. bytes[p[2]] \in Int
      BY <1>1, <3>1
    <3> QED
      BY <3>1, <3>2
  <2> QED
    BY <2>1
<1>3. \E C : Iter(C)
  <2>1. PICK F \in [SUBSET (1..n) -> Int] : Iterates(F, n, 0, next)
    <3>1. 0 \in Int
      OBVIOUS
    <3> QED
      BY <1>1, <1>2, <3>1, FoldExists, Zenon
  <2>2. ASSUME NEW u \in SUBSET (1..n), u # {}
        PROVE  next[<<F[u \ {Max(u)}], Max(u)>>] = F[u \ {Max(u)}] + bytes[Max(u)]
    <3>1. Max(u) \in 1..n
      BY <1>1, <2>2, MaxIn
    <3>2. <<F[u \ {Max(u)}], Max(u)>> \in Int \X (1..n)
      BY <3>1
    <3> HIDE DEF n
    <3> QED
      BY <3>2
  <2> HIDE DEF next, n
  <2>3. Iter(F)
    BY <1>1, <2>1, <2>2 DEF Iterates
  <2> QED
    BY <2>3
<1>4. PICK C : Iter(C) /\ Checksum(bytes) = C[DOMAIN bytes] % 256
  BY <1>3, Zenon DEF Checksum, FoldLeft, MapThenFoldSet
<1>5. C[{}] = 0
  <2> HIDE DEF n
  <2> QED
    BY <1>4
<1>6. ASSUME NEW k \in 1..n
      PROVE  C[1..k] = C[1..(k - 1)] + bytes[k]
  <2>1. 1..k \in SUBSET DOMAIN bytes /\ 1..k # {} /\ Max(1..k) = k /\ (1..k) \ {Max(1..k)} = 1..(k - 1)
    BY <1>1, Places
  <2> HIDE DEF n
  <2>3. C[1..k] = C[(1..k) \ {Max(1..k)}] + bytes[Max(1..k)]
    BY <1>4, <2>1
  <2> QED
    BY <2>1, <2>3
<1>7. \A k \in 1..n : C[1..(k - 1)] \in Int => C[1..k] = next[<<C[1..(k - 1)], k>>]
  <2> HIDE DEF n
  <2> QED
    BY <1>1, <1>6
<1>8. Follows(C, n, Int, 0, next)
  <2> HIDE DEF next, n
  <2> QED
    BY <1>1, <1>2, <1>5, <1>7 DEF Follows
<1>9. PICK g : Runs(g, n, Int, 0, next) /\ g[n] = C[1..n]
  <2> HIDE DEF next, n
  <2> QED
    BY <1>8, FoldRuns
<1>10. C[1..n] \in Int
  <2> HIDE DEF next, n
  <2> QED
    BY <1>1, <1>9 DEF Runs
<1>11. Checksum(bytes) = C[1..n] % 256
  BY <1>1, <1>4
<1> DEFINE sum == C[1..n]
<1>12. sum \in Int /\ Checksum(bytes) = sum % 256
  BY <1>10, <1>11
<1> HIDE DEF sum
<1>13. sum % 256 \in 0..255
  BY <1>12
<1> QED
  BY <1>12, <1>13 DEF Byte

\* What the parser has: less than a frame, the frame it found, and what follows it.
Scanning == {s \in [buffer : Seq(Byte), frame : Seq(Byte), rest : Seq(Byte)] :
                /\ Len(s.buffer) < Size
                /\ Started(s.frame) => Len(s.frame) = Size /\ Valid(s.frame) /\ s.buffer = <<>>}

\* A byte makes the buffer longer by at most one.
LEMMA PlacedType ==
    ASSUME NEW bytes \in Seq(Byte), NEW b \in Byte
    PROVE  Placed(bytes, b) \in Seq(Byte) /\ Len(Placed(bytes, b)) <= Len(bytes) + 1
<1>1. Append(bytes, b) \in Seq(Byte) /\ Len(Append(bytes, b)) = Len(bytes) + 1 /\ Len(bytes) \in Nat
  OBVIOUS
<1>2. <<b>> \in Seq(Byte) /\ Len(<<b>>) = 1 /\ <<>> \in Seq(Byte) /\ Len(<<>>) = 0
  OBVIOUS
<1>3. \/ Placed(bytes, b) = <<b>>
      \/ Placed(bytes, b) = <<>>
      \/ Placed(bytes, b) = Append(bytes, b)
  BY DEF Placed
<1> DEFINE more == Append(bytes, b)
           one == <<b>>
           none == <<>>
<1>4. \A q : (q = one \/ q = none \/ q = more) => q \in Seq(Byte) /\ Len(q) <= Len(bytes) + 1
  <2>1. more \in Seq(Byte) /\ one \in Seq(Byte) /\ none \in Seq(Byte)
    BY <1>1, <1>2
  <2>2. Len(more) <= Len(bytes) + 1 /\ Len(one) <= Len(bytes) + 1 /\ Len(none) <= Len(bytes) + 1
    BY <1>1, <1>2
  <2> HIDE DEF more, one, none
  <2> QED
    BY <2>1, <2>2
<1> QED
  BY <1>3, <1>4

\* One byte more.
LEMMA TakenType ==
    ASSUME NEW s \in Scanning, NEW b \in Byte
    PROVE  Taken(s, b) \in Scanning
<1> DEFINE bytes == Placed(s.buffer, b)
<1>1. /\ s \in [buffer : Seq(Byte), frame : Seq(Byte), rest : Seq(Byte)]
      /\ Len(s.buffer) \in Nat /\ Len(s.buffer) < Size
      /\ Started(s.frame) => Len(s.frame) = Size /\ Valid(s.frame) /\ s.buffer = <<>>
  BY DEF Scanning
<1>2. bytes \in Seq(Byte) /\ Len(bytes) \in Nat /\ Len(bytes) <= Size
  <2>1. s.buffer \in Seq(Byte)
    BY <1>1
  <2>2. bytes \in Seq(Byte) /\ Len(bytes) <= Len(s.buffer) + 1
    BY <2>1, PlacedType
  <2>3. Len(bytes) \in Nat
    BY <2>2, LenProperties
  <2> HIDE DEF bytes
  <2> QED
    BY <1>1, <2>2, <2>3 DEF Size
<1>3. CASE Started(s.frame)
  <2> DEFINE more == Append(s.rest, b)
  <2>1. Taken(s, b) = [s EXCEPT !.rest = more] /\ more \in Seq(Byte)
    BY <1>1, <1>3, Zenon, AppendProperties DEF Taken
  <2> HIDE DEF more
  <2> QED
    BY <1>1, <2>1 DEF Scanning
<1>4. CASE ~Started(s.frame) /\ Len(bytes) < Size
  <2>1. Taken(s, b) = [s EXCEPT !.buffer = bytes]
    BY <1>4, Zenon DEF Taken
  <2> HIDE DEF bytes
  <2> QED
    BY <1>1, <1>2, <1>4, <2>1 DEF Scanning
<1>5. CASE ~Started(s.frame) /\ ~(Len(bytes) < Size)
  <2> DEFINE f == IF Valid(bytes) THEN bytes ELSE <<>>
  <2>1. Taken(s, b) = [s EXCEPT !.buffer = <<>>, !.frame = f]
    BY <1>5, Zenon DEF Taken
  <2>2. f \in Seq(Byte) /\ (Started(f) => Len(f) = Size /\ Valid(f))
    <3>1. Len(bytes) = Size
      <4> DEFINE len == Len(bytes)
      <4>1. len \in Nat /\ len <= 8 /\ ~(len < 8)
        BY <1>2, <1>5, Zenon DEF Size
      <4> HIDE DEF len
      <4>2. len = 8
        BY <4>1
      <4> QED
        BY <4>2 DEF len, Size
    <3>2. <<>> \in Seq(Byte)
      OBVIOUS
    <3>3. CASE Valid(bytes)
      <4>1. f = bytes
        BY <3>3
      <4> HIDE DEF f
      <4> QED
        BY <1>2, <3>1, <3>3, <4>1
    <3>4. CASE ~Valid(bytes)
      <4>1. f = <<>>
        BY <3>4
      <4> HIDE DEF f
      <4> QED
        BY <3>2, <4>1 DEF Started
    <3> QED
      BY <3>3, <3>4
  <2>3. <<>> \in Seq(Byte) /\ Len(<<>>) = 0
    OBVIOUS
  <2> HIDE DEF f
  <2>4. Taken(s, b) = [buffer |-> <<>>, frame |-> f, rest |-> s.rest]
    BY <1>1, <2>1
  <2>5. 0 < Size
    BY DEF Size
  <2> QED
    BY <1>1, <2>2, <2>3, <2>4, <2>5 DEF Scanning
<1> QED
  BY <1>3, <1>4, <1>5

\* The states of the parser on its way over the bytes that wait.
ScanBase == [buffer |-> buffer, frame |-> <<>>, rest |-> <<>>]
ScanRun(g) ==
    /\ g[0] = ScanBase
    /\ \A k \in 0..Len(wire) : g[k] \in Scanning
    /\ \A k \in 1..Len(wire) : g[k] = Taken(g[k - 1], wire[k])
    /\ Scanned = g[Len(wire)]
LinkType == wire \in Seq(Byte) /\ buffer \in Seq(Byte) /\ Len(buffer) < Size

LEMMA ScanRuns == LinkType => \E g : ScanRun(g)
<1> SUFFICES ASSUME LinkType PROVE \E g : ScanRun(g)
  OBVIOUS
<1> DEFINE n == Len(wire)
           next == [p \in Scanning \X (1..n) |-> Taken(p[1], wire[p[2]])]
           Iter(C) == C = [u \in SUBSET DOMAIN wire |->
                             IF u = {} THEN ScanBase ELSE Taken(C[u \ {Max(u)}], wire[Max(u)])]
<1>1. n \in Nat /\ DOMAIN wire = 1..n /\ \A i \in 1..n : wire[i] \in Byte
  BY DEF LinkType
<1>2. ScanBase \in Scanning
  <2>1. <<>> \in Seq(Byte)
    OBVIOUS
  <2> QED
    BY <2>1 DEF ScanBase, Scanning, LinkType, Started
<1>3. next \in [Scanning \X (1..n) -> Scanning]
  <2>1. ASSUME NEW p \in Scanning \X (1..n) PROVE Taken(p[1], wire[p[2]]) \in Scanning
    <3>1. p[1] \in Scanning /\ p[2] \in 1..n
      OBVIOUS
    <3>2. wire[p[2]] \in Byte
      BY <1>1, <3>1
    <3> QED
      BY <3>1, <3>2, TakenType
  <2> QED
    BY <2>1
<1>4. \E C : Iter(C)
  <2>1. PICK F \in [SUBSET (1..n) -> Scanning] : Iterates(F, n, ScanBase, next)
    BY <1>1, <1>2, <1>3, FoldExists, Zenon
  <2>2. ASSUME NEW u \in SUBSET (1..n), u # {}
        PROVE  next[<<F[u \ {Max(u)}], Max(u)>>] = Taken(F[u \ {Max(u)}], wire[Max(u)])
    <3>1. Max(u) \in 1..n
      BY <1>1, <2>2, MaxIn
    <3>2. <<F[u \ {Max(u)}], Max(u)>> \in Scanning \X (1..n)
      BY <3>1
    <3> HIDE DEF n
    <3> QED
      BY <3>2
  <2> HIDE DEF next, n
  <2>3. Iter(F)
    BY <1>1, <2>1, <2>2 DEF Iterates
  <2> QED
    BY <2>3
<1>5. PICK C : Iter(C) /\ Scanned = C[DOMAIN wire]
  BY <1>4, Zenon DEF Scanned, ScanBase, FoldLeft, MapThenFoldSet
<1>6. C[{}] = ScanBase
  <2> HIDE DEF n
  <2> QED
    BY <1>5
<1>7. ASSUME NEW k \in 1..n
      PROVE  C[1..k] = Taken(C[1..(k - 1)], wire[k])
  <2>1. 1..k \in SUBSET DOMAIN wire /\ 1..k # {} /\ Max(1..k) = k /\ (1..k) \ {Max(1..k)} = 1..(k - 1)
    BY <1>1, Places
  <2> HIDE DEF n
  <2>3. C[1..k] = Taken(C[(1..k) \ {Max(1..k)}], wire[Max(1..k)])
    BY <1>5, <2>1
  <2> QED
    BY <2>1, <2>3
<1>8. \A k \in 1..n : C[1..(k - 1)] \in Scanning => C[1..k] = next[<<C[1..(k - 1)], k>>]
  <2> HIDE DEF n
  <2> QED
    BY <1>1, <1>7
<1>9. Follows(C, n, Scanning, ScanBase, next)
  <2> HIDE DEF next, n
  <2> QED
    BY <1>1, <1>2, <1>3, <1>6, <1>8 DEF Follows
<1>10. PICK g : Runs(g, n, Scanning, ScanBase, next) /\ g[n] = C[1..n]
  <2> HIDE DEF next, n
  <2> QED
    BY <1>9, FoldRuns
<1>11. /\ g[0] = ScanBase /\ \A k \in 0..n : g[k] \in Scanning
       /\ \A k \in 1..n : g[k] = next[<<g[k - 1], k>>] /\ g[k - 1] \in Scanning
  <2> HIDE DEF next, n
  <2> QED
    BY <1>1, <1>10 DEF Runs
<1>12. ASSUME NEW k \in 1..n PROVE g[k] = Taken(g[k - 1], wire[k])
  <2>1. <<g[k - 1], k>> \in Scanning \X (1..n)
    BY <1>11
  <2> QED
    BY <1>11, <2>1
<1>13. Scanned = g[n]
  <2> HIDE DEF n
  <2> QED
    BY <1>1, <1>5, <1>10
<1> QED
  BY <1>11, <1>12, <1>13, Zenon DEF n, ScanRun

\* Before a frame is found nothing is left over.
Nothing == [buffer |-> <<>>, frame |-> <<>>, rest |-> <<>>]

\* What one byte does to a parser that has not found a frame, and to one that has.
LEMMA TakenIs ==
    ASSUME NEW s \in Scanning, NEW b \in Byte
    PROVE  /\ Started(s.frame) =>
                Taken(s, b) = [buffer |-> s.buffer, frame |-> s.frame, rest |-> Append(s.rest, b)]
           /\ ~Started(s.frame) => Taken(s, b).rest = s.rest
           /\ ~Started(s.frame) /\ Len(Placed(s.buffer, b)) < Size =>
                Taken(s, b) = [buffer |-> Placed(s.buffer, b), frame |-> <<>>, rest |-> s.rest]
           /\ ~Started(s.frame) /\ ~(Len(Placed(s.buffer, b)) < Size) =>
                Taken(s, b) = [buffer |-> <<>>, rest |-> s.rest,
                               frame |-> IF Valid(Placed(s.buffer, b)) THEN Placed(s.buffer, b) ELSE <<>>]
<1>1. s \in [buffer : Seq(Byte), frame : Seq(Byte), rest : Seq(Byte)]
  BY DEF Scanning
<1> DEFINE bytes == Placed(s.buffer, b)
           f == IF Valid(bytes) THEN bytes ELSE <<>>
           more == Append(s.rest, b)
<1>2. CASE Started(s.frame)
  <2>1. Taken(s, b) = [s EXCEPT !.rest = more]
    BY <1>1, <1>2, Zenon DEF Taken
  <2> HIDE DEF more
  <2>2. Taken(s, b) = [buffer |-> s.buffer, frame |-> s.frame, rest |-> more]
    BY <1>1, <2>1
  <2> QED
    BY <1>2, <2>2 DEF more
<1>3. CASE ~Started(s.frame) /\ Len(bytes) < Size
  <2>1. Taken(s, b) = [s EXCEPT !.buffer = bytes]
    BY <1>3, Zenon DEF Taken
  <2>2. s.frame = <<>>
    BY <1>3 DEF Started
  <2> HIDE DEF bytes
  <2>3. Taken(s, b) = [buffer |-> bytes, frame |-> <<>>, rest |-> s.rest]
    BY <1>1, <2>1, <2>2
  <2>4. Taken(s, b).rest = s.rest
    BY <2>3
  <2> QED
    BY <1>3, <2>3, <2>4 DEF bytes
<1>4. CASE ~Started(s.frame) /\ ~(Len(bytes) < Size)
  <2>1. Taken(s, b) = [s EXCEPT !.buffer = <<>>, !.frame = f]
    BY <1>4, Zenon DEF Taken
  <2> HIDE DEF f
  <2>2. Taken(s, b) = [buffer |-> <<>>, frame |-> f, rest |-> s.rest]
    BY <1>1, <2>1
  <2>3. Taken(s, b).rest = s.rest
    BY <2>2
  <2>4. Taken(s, b) = [buffer |-> <<>>, rest |-> s.rest, frame |-> f]
    BY <2>2
  <2> QED
    BY <1>4, <2>3, <2>4, Zenon DEF bytes, f
<1> QED
  BY <1>2, <1>3, <1>4

\* A byte that begins no frame is passed over, wherever the parser is not within one.
LEMMA SkipOne ==
    ASSUME NEW b \in Byte, b # HeaderHigh
    PROVE  Taken(Nothing, b) = Nothing
<1>1. Nothing \in Scanning
  BY DEF Nothing, Scanning, Started, Size
<1>2. Placed(<<>>, b) = <<>>
  BY DEF Placed
<1>3. Len(Placed(<<>>, b)) < Size /\ Nothing.buffer = <<>> /\ ~Started(Nothing.frame) /\ Nothing.rest = <<>>
  BY <1>2 DEF Nothing, Started, Size
<1>4. Taken(Nothing, b) = [buffer |-> Placed(Nothing.buffer, b), frame |-> <<>>, rest |-> Nothing.rest]
  BY <1>1, <1>3, TakenIs
<1> QED
  BY <1>2, <1>3, <1>4 DEF Nothing

\* The state at a place is known, and everything up to a later one is passed over.
LEMMA Skip ==
    ASSUME LinkType, NEW g, ScanRun(g), NEW a \in 0..Len(wire), NEW z \in a..Len(wire), g[a] = Nothing,
           \A k \in (a + 1)..z : wire[k] # HeaderHigh
    PROVE  g[z] = Nothing
<1> DEFINE n == Len(wire)
           S == {i \in 0..(z - a) : g[a + i] = Nothing}
<1>1. n \in Nat /\ \A i \in 1..n : wire[i] \in Byte
  BY DEF LinkType
<1>2. \A k \in 1..n : g[k] = Taken(g[k - 1], wire[k])
  BY DEF ScanRun
<1> HIDE DEF n
<1>3. a \in 0..n /\ z \in a..n
  BY DEF n
<1>4. z - a \in Nat /\ 0 \in S
  BY <1>1, <1>3
<1>5. ASSUME NEW i \in 1..(z - a), i - 1 \in S PROVE i \in S
  <2>1. a + i \in 1..n /\ a + i \in (a + 1)..z /\ (a + i) - 1 = a + (i - 1)
    BY <1>1, <1>3
  <2>2. g[a + i] = Taken(Nothing, wire[a + i])
    BY <1>2, <1>5, <2>1
  <2>3. g[a + i] = Nothing
    BY <1>1, <2>1, <2>2, SkipOne
  <2> QED
    BY <2>3
<1>6. \A i \in 0..(z - a) : i \in S
  <2> HIDE DEF S
  <2> QED
    BY <1>4, <1>5, Climb
<1>7. z - a \in S /\ a + (z - a) = z
  BY <1>1, <1>3, <1>4, <1>6
<1> QED
  BY <1>7

\* A sequence without its first elements.
LEMMA RestIs ==
    ASSUME NEW T, NEW s \in Seq(T), NEW p \in 0..Len(s)
    PROVE  /\ SubSeq(s, p + 1, Len(s)) \in Seq(T) /\ Len(SubSeq(s, p + 1, Len(s))) = Len(s) - p
           /\ \A j \in 1..(Len(s) - p) : SubSeq(s, p + 1, Len(s))[j] = s[p + j]
<1> DEFINE n == Len(s)
           r == SubSeq(s, p + 1, n)
<1>1. n \in Nat /\ \A i \in 1..n : s[i] \in T
  OBVIOUS
<1>2. p \in 0..n
  OBVIOUS
<1> HIDE DEF n
<1>3. p + 1 \in Int /\ n \in Int /\ \A i \in (p + 1)..n : s[i] \in T
  BY <1>1, <1>2
<1>4. /\ r \in Seq(T) /\ Len(r) = IF p + 1 <= n THEN n - (p + 1) + 1 ELSE 0
      /\ \A j \in 1..(n - (p + 1) + 1) : r[j] = s[(p + 1) + j - 1]
  BY <1>3, SubSeqProperties
<1>5. n - (p + 1) + 1 = n - p /\ \A j \in 1..(n - p) : (p + 1) + j - 1 = p + j
  BY <1>1, <1>2
<1>6. p + 1 > n => n - p = 0
  BY <1>1, <1>2
<1> HIDE DEF r
<1>7. r \in Seq(T) /\ Len(r) = n - p /\ \A j \in 1..(n - p) : r[j] = s[p + j]
  BY <1>1, <1>2, <1>4, <1>5, <1>6
<1> QED
  BY <1>7, Zenon DEF n, r

\* Once a frame is found, all that follows is left over.
LEMMA Found ==
    ASSUME LinkType, NEW g, ScanRun(g), NEW p \in 0..Len(wire), Started(g[p].frame), g[p].rest = <<>>
    PROVE  /\ Scanned.buffer = <<>> /\ Scanned.frame = g[p].frame
           /\ Scanned.rest = SubSeq(wire, p + 1, Len(wire))
<1> DEFINE n == Len(wire)
           S == {i \in 0..(n - p) : /\ g[p + i].buffer = <<>> /\ g[p + i].frame = g[p].frame
                                    /\ Len(g[p + i].rest) = i /\ \A j \in 1..i : g[p + i].rest[j] = wire[p + j]}
<1>1. n \in Nat /\ \A i \in 1..n : wire[i] \in Byte
  BY DEF LinkType
<1>2. /\ \A k \in 1..n : g[k] = Taken(g[k - 1], wire[k])
      /\ \A k \in 0..n : g[k] \in Scanning
      /\ Scanned = g[n]
  BY DEF ScanRun
<1>3. p \in 0..n
  OBVIOUS
<1> HIDE DEF n
<1>4. n - p \in Nat /\ 0 \in S
  <2>1. g[p].buffer = <<>>
    BY <1>2, <1>3 DEF Scanning
  <2>2. p + 0 = p /\ n - p \in Nat
    BY <1>1, <1>3
  <2> QED
    BY <2>1, <2>2
<1>5. ASSUME NEW i \in 1..(n - p), i - 1 \in S PROVE i \in S
  <2> DEFINE s == g[p + (i - 1)]
  <2>1. p + i \in 1..n /\ (p + i) - 1 = p + (i - 1) /\ p + (i - 1) \in 0..n
    BY <1>1, <1>3
  <2>2. s \in Scanning /\ g[p + i] = Taken(s, wire[p + i]) /\ wire[p + i] \in Byte
    BY <1>1, <1>2, <2>1
  <2>3. s.buffer = <<>> /\ s.frame = g[p].frame /\ Len(s.rest) = i - 1 /\ \A j \in 1..(i - 1) : s.rest[j] = wire[p + j]
    BY <1>5
  <2>4. s.rest \in Seq(Byte)
    BY <2>2 DEF Scanning
  <2> HIDE DEF s
  <2>5. g[p + i] = [buffer |-> s.buffer, frame |-> s.frame, rest |-> Append(s.rest, wire[p + i])]
    BY <2>2, <2>3, TakenIs
  <2>6. /\ Len(Append(s.rest, wire[p + i])) = i
        /\ \A j \in 1..i : Append(s.rest, wire[p + i])[j] = wire[p + j]
    <3>1. /\ Len(Append(s.rest, wire[p + i])) = Len(s.rest) + 1
          /\ \A j \in 1..Len(s.rest) : Append(s.rest, wire[p + i])[j] = s.rest[j]
          /\ Append(s.rest, wire[p + i])[Len(s.rest) + 1] = wire[p + i]
      BY <2>2, <2>4, AppendProperties
    <3>2. i \in Nat /\ Len(s.rest) + 1 = i /\ \A j \in 1..i : j = i \/ j \in 1..(i - 1)
      BY <2>3
    <3> QED
      BY <2>3, <3>1, <3>2
  <2> DEFINE more == Append(s.rest, wire[p + i])
             h == g[p + i]
  <2>7. h.buffer = <<>> /\ h.frame = g[p].frame /\ h.rest = more
    BY <2>3, <2>5
  <2>8. Len(more) = i /\ \A j \in 1..i : more[j] = wire[p + j]
    BY <2>6
  <2>9. i \in 0..(n - p)
    BY <1>4
  <2> HIDE DEF more, h
  <2>10. Len(h.rest) = i /\ \A j \in 1..i : h.rest[j] = wire[p + j]
    BY <2>7, <2>8
  <2> QED
    BY <2>7, <2>9, <2>10 DEF h
<1>6. n - p \in S
  <2>1. \A i \in 0..(n - p) : i \in S
    <3> HIDE DEF S
    <3> QED
      BY <1>4, <1>5, Climb
  <2> QED
    BY <1>4, <2>1
<1>7. p + (n - p) = n
  BY <1>1, <1>3
<1>8. /\ Scanned.buffer = <<>> /\ Scanned.frame = g[p].frame
      /\ Len(Scanned.rest) = n - p /\ \A j \in 1..(n - p) : Scanned.rest[j] = wire[p + j]
      /\ Scanned.rest \in Seq(Byte)
  <2>1. g[n] \in Scanning
    BY <1>1, <1>2
  <2> QED
    BY <1>2, <1>6, <1>7, <2>1 DEF Scanning
<1>9. Scanned.rest = SubSeq(wire, p + 1, n)
  <2> DEFINE r == SubSeq(wire, p + 1, n)
  <2>1. wire \in Seq(Byte)
    BY DEF LinkType
  <2>2. r \in Seq(Byte) /\ Len(r) = n - p /\ \A j \in 1..(n - p) : r[j] = wire[p + j]
    <3>1. p \in 0..Len(wire)
      OBVIOUS
    <3> HIDE DEF n
    <3> QED
      BY <2>1, <3>1, RestIs DEF r, n
  <2> HIDE DEF r
  <2>3. Scanned.rest = r
    <3> DEFINE q == Scanned.rest
    <3>1. q \in Seq(Byte) /\ Len(q) = Len(r) /\ \A j \in 1..Len(q) : q[j] = r[j]
      BY <1>8, <2>2
    <3> HIDE DEF q
    <3>2. q = r
      BY <2>2, <3>1, SeqEqual
    <3> QED
      BY <3>2 DEF q
  <2> QED
    BY <2>3 DEF r
<1> QED
  BY <1>8, <1>9 DEF n

\* As long as no frame is found nothing is left over; the parser has found one at the end only
\* if there is a first place at which it did.
LEMMA Searching ==
    ASSUME LinkType, NEW g, ScanRun(g), NEW m \in 0..Len(wire)
    PROVE  \/ ~Started(g[m].frame) /\ g[m].frame = <<>> /\ g[m].rest = <<>>
           \/ \E p \in 1..m : Started(g[p].frame) /\ g[p].rest = <<>>
<1> DEFINE n == Len(wire)
           Free0(k) == ~Started(g[k].frame) /\ g[k].frame = <<>> /\ g[k].rest = <<>>
           Some(k) == \E p \in 1..k : Started(g[p].frame) /\ g[p].rest = <<>>
           S == {k \in 0..m : Free0(k) \/ Some(k)}
<1>1. /\ n \in Nat /\ \A i \in 1..n : wire[i] \in Byte
      /\ \A k \in 1..n : g[k] = Taken(g[k - 1], wire[k])
      /\ \A k \in 0..n : g[k] \in Scanning
      /\ g[0] = ScanBase
  BY DEF LinkType, ScanRun
<1>2. m \in 0..n /\ m \in Nat
  BY <1>1
<1> HIDE DEF n
<1>3. 0 \in S
  BY <1>1, <1>2 DEF ScanBase, Started
<1>4. ASSUME NEW k \in 1..m, k - 1 \in S PROVE k \in S
  <2>1. k \in 1..n /\ k - 1 \in 0..n /\ k \in 0..m /\ k \in 1..k
    BY <1>1, <1>2
  <2>2. CASE Some(k - 1)
    <3>1. \A p \in 1..(k - 1) : p \in 1..k
      BY <2>1
    <3> QED
      BY <2>1, <2>2, <3>1
  <2>3. CASE Free0(k - 1)
    <3>1. g[k].rest = <<>>
      BY <1>1, <2>1, <2>3, TakenIs
    <3>2. Started(g[k].frame) \/ (~Started(g[k].frame) /\ g[k].frame = <<>>)
      BY DEF Started
    <3> QED
      BY <2>1, <3>1, <3>2
  <2> QED
    BY <1>4, <2>2, <2>3
<1>5. \A k \in 0..m : k \in S
  <2> HIDE DEF S
  <2> QED
    BY <1>2, <1>3, <1>4, Climb
<1>6. m \in S
  BY <1>2, <1>5
<1> QED
  BY <1>6

-----------------------------------------------------------------------------
(* Frames on the line *)

\* The eight bytes behind place a.
Chunk(w, a) == [i \in 1..Size |-> w[a + i]]

\* They are a frame, with no header byte in it.
GoodAt(w, a) ==
    /\ w[a + 1] = HeaderHigh /\ w[a + 2] = HeaderLow
    /\ \A i \in 2..Size : w[a + i] # HeaderHigh
    /\ Valid(Chunk(w, a))

\* From place o on there are k frames and nothing else.
Framed(w, k, o) ==
    /\ Len(w) = o + 8 * k
    /\ \A j \in 0..(k - 1) : GoodAt(w, o + 8 * j)

\* A parser that is not within a frame finds the one it reaches.
LEMMA Parse ==
    ASSUME LinkType, NEW g, ScanRun(g), NEW a \in Nat, a + 8 <= Len(wire), g[a] = Nothing, GoodAt(wire, a)
    PROVE  g[a + 8] = [buffer |-> <<>>, frame |-> Chunk(wire, a), rest |-> <<>>]
<1> DEFINE n == Len(wire)
           Pre(i) == [j \in 1..i |-> wire[a + j]]
           S == {i \in 0..7 : g[a + i] = [buffer |-> Pre(i), frame |-> <<>>, rest |-> <<>>]}
<1>1. /\ n \in Nat /\ \A i \in 1..n : wire[i] \in Byte
      /\ \A k \in 1..n : g[k] = Taken(g[k - 1], wire[k])
      /\ \A k \in 0..n : g[k] \in Scanning
      /\ a + 8 <= n
  BY DEF LinkType, ScanRun
<1> HIDE DEF n
<1>2. \A i \in 0..8 : Pre(i) \in Seq(Byte) /\ Len(Pre(i)) = i
  <2>1. ASSUME NEW i \in 0..8 PROVE Pre(i) \in Seq(Byte) /\ Len(Pre(i)) = i
    <3>1. \A j \in 1..i : wire[a + j] \in Byte
      BY <1>1
    <3> QED
      BY <3>1
  <2> QED
    BY <2>1
<1>3. ASSUME NEW i \in 1..8 PROVE Placed(Pre(i - 1), wire[a + i]) = Pre(i)
  <2>0. /\ wire[a + 1] = HeaderHigh /\ wire[a + 2] = HeaderLow
        /\ wire[a + i] \in Byte /\ Pre(i - 1) \in Seq(Byte) /\ Len(Pre(i - 1)) = i - 1
    BY <1>1, <1>2 DEF GoodAt
  <2>1. Append(Pre(i - 1), wire[a + i]) = Pre(i)
    <3> DEFINE p == Pre(i - 1)
               b == wire[a + i]
               q == Append(p, b)
    <3>1. /\ q \in Seq(Byte) /\ Len(q) = Len(p) + 1
          /\ \A j \in 1..Len(p) : q[j] = p[j]
          /\ q[Len(p) + 1] = b
      BY <2>0, AppendProperties
    <3>2. Len(p) = i - 1 /\ i - 1 + 1 = i /\ \A j \in 1..i : j = i \/ j \in 1..(i - 1)
      BY <2>0
    <3>3. \A j \in 1..(i - 1) : p[j] = wire[a + j]
      OBVIOUS
    <3>4. Pre(i) \in Seq(Byte) /\ Len(Pre(i)) = i /\ \A j \in 1..i : Pre(i)[j] = wire[a + j]
      BY <1>2
    <3> HIDE DEF p, q
    <3>5. Len(q) = i /\ \A j \in 1..i : q[j] = wire[a + j]
      BY <3>1, <3>2, <3>3
    <3> DEFINE z == Pre(i)
    <3>6. Len(q) = Len(z) /\ \A j \in 1..Len(q) : q[j] = z[j]
      BY <3>4, <3>5
    <3>7. z \in Seq(Byte)
      BY <3>4
    <3> HIDE DEF z
    <3>8. q = z
      BY <3>1, <3>6, <3>7, SeqEqual
    <3> QED
      BY <3>8 DEF q, p, z
  <2>2. CASE i = 1
    <3>1. Pre(i - 1) = <<>>
      BY <2>0, <2>2
    <3>2. Append(<<>>, wire[a + i]) = <<wire[a + i]>>
      OBVIOUS
    <3>3. wire[a + i] = HeaderHigh
      BY <2>0, <2>2
    <3>4. Placed(<<>>, wire[a + i]) = <<wire[a + i]>>
      BY <3>3 DEF Placed
    <3> QED
      BY <2>1, <3>1, <3>2, <3>4
  <2>3. CASE i # 1
    <3> DEFINE p == Pre(i - 1)
    <3>1. p # <<>> /\ Len(p) = i - 1
      BY <2>0, <2>3
    <3>2. i - 1 = 1 => wire[a + i] = HeaderLow
      BY <2>0
    <3>3. Len(p) = 1 => wire[a + i] = HeaderLow
      BY <3>1, <3>2
    <3> HIDE DEF p
    <3>4. Placed(p, wire[a + i]) = Append(p, wire[a + i])
      BY <3>1, <3>3 DEF Placed
    <3> QED
      BY <2>1, <3>4 DEF p
  <2> QED
    BY <2>2, <2>3
<1>4. 0 \in S
  <2>1. a + 0 = a /\ Pre(0) = <<>>
    OBVIOUS
  <2> QED
    BY <2>1 DEF Nothing
<1>5. ASSUME NEW i \in 1..7, i - 1 \in S PROVE i \in S
  <2>1. a + i \in 1..n /\ (a + i) - 1 = a + (i - 1) /\ a + (i - 1) \in 0..n
    BY <1>1
  <2>2. g[a + i] = Taken(g[a + (i - 1)], wire[a + i]) /\ g[a + (i - 1)] \in Scanning /\ wire[a + i] \in Byte
    BY <1>1, <2>1
  <2>3. g[a + (i - 1)] = [buffer |-> Pre(i - 1), frame |-> <<>>, rest |-> <<>>]
    BY <1>5
  <2> HIDE DEF Pre
  <2>4. Placed(Pre(i - 1), wire[a + i]) = Pre(i) /\ Len(Pre(i)) < Size
    <3>1. i \in 1..8 /\ i \in 0..8 /\ i < 8
      OBVIOUS
    <3>2. Placed(Pre(i - 1), wire[a + i]) = Pre(i)
      BY <1>3, <3>1
    <3>3. Len(Pre(i)) = i
      BY <1>2, <3>1
    <3> QED
      BY <3>1, <3>2, <3>3 DEF Size
  <2>5. g[a + i] = [buffer |-> Pre(i), frame |-> <<>>, rest |-> <<>>]
    BY <2>2, <2>3, <2>4, TakenIs DEF Started
  <2> QED
    BY <2>5
<1>6. g[a + 7] = [buffer |-> Pre(7), frame |-> <<>>, rest |-> <<>>]
  <2>1. \A i \in 0..7 : i \in S
    <3> HIDE DEF S
    <3> QED
      BY <1>4, <1>5, Climb
  <2>2. 7 \in S
    <3> HIDE DEF S
    <3> QED
      BY <2>1
  <2> QED
    BY <2>2
<1>7. g[a + 8] = Taken(g[a + 7], wire[a + 8]) /\ g[a + 7] \in Scanning /\ wire[a + 8] \in Byte
  <2>1. a + 8 \in 1..n /\ (a + 8) - 1 = a + 7 /\ a + 7 \in 0..n
    BY <1>1
  <2> QED
    BY <1>1, <2>1
<1>8. Pre(8) = Chunk(wire, a)
  BY DEF Chunk, Size
<1>9. Placed(Pre(7), wire[a + 8]) = Pre(8)
  <2>1. 8 \in 1..8 /\ 8 - 1 = 7
    OBVIOUS
  <2> HIDE DEF Pre
  <2> QED
    BY <1>3, <2>1
<1>10. Valid(Chunk(wire, a)) /\ ~(Len(Pre(8)) < Size)
  BY <1>2 DEF GoodAt, Size
<1> HIDE DEF Pre
<1> QED
  BY <1>6, <1>7, <1>8, <1>9, <1>10, TakenIs DEF Started

\* A parser that has m bytes behind a header takes all that come until it has eight: a frame, or none.
LEMMA Fill ==
    ASSUME LinkType, NEW g, ScanRun(g), NEW a \in Nat, NEW m \in 2..7, a + (8 - m) <= Len(wire),
           Len(g[a].buffer) = m, ~Started(g[a].frame), g[a].rest = <<>>
    PROVE  \/ g[a + (8 - m)] = Nothing
           \/ Started(g[a + (8 - m)].frame) /\ g[a + (8 - m)].rest = <<>>
<1> DEFINE n == Len(wire)
           S == {i \in 0..(7 - m) : ~Started(g[a + i].frame) /\ Len(g[a + i].buffer) = m + i /\ g[a + i].rest = <<>>}
<1>1. /\ n \in Nat /\ \A i \in 1..n : wire[i] \in Byte
      /\ \A k \in 1..n : g[k] = Taken(g[k - 1], wire[k])
      /\ \A k \in 0..n : g[k] \in Scanning
      /\ a + (8 - m) <= n
  BY DEF LinkType, ScanRun
<1> HIDE DEF n
<1>2. ASSUME NEW i \in 1..(8 - m), i - 1 \in S
      PROVE  LET h == g[a + (i - 1)] IN
             /\ h \in Scanning /\ wire[a + i] \in Byte /\ g[a + i] = Taken(h, wire[a + i])
             /\ ~Started(h.frame) /\ h.rest = <<>>
             /\ Len(Placed(h.buffer, wire[a + i])) = m + i
  <2> DEFINE h == g[a + (i - 1)]
             b == wire[a + i]
  <2>1. a + i \in 1..n /\ (a + i) - 1 = a + (i - 1) /\ a + (i - 1) \in 0..n
    BY <1>1
  <2>2. h \in Scanning /\ b \in Byte /\ g[a + i] = Taken(h, b)
    BY <1>1, <2>1
  <2>3. ~Started(h.frame) /\ h.rest = <<>> /\ Len(h.buffer) = m + (i - 1) /\ h.buffer \in Seq(Byte)
    BY <1>2, <2>2 DEF Scanning
  <2> HIDE DEF h, b
  <2>4. Len(h.buffer) # 0 /\ Len(h.buffer) # 1
    BY <2>3
  <2>5. Placed(h.buffer, b) = Append(h.buffer, b)
    <3>1. h.buffer # <<>>
      BY <2>4
    <3> QED
      BY <2>4, <3>1 DEF Placed
  <2>6. Len(Append(h.buffer, b)) = m + i
    <3>1. Len(Append(h.buffer, b)) = Len(h.buffer) + 1
      BY <2>2, <2>3, AppendProperties
    <3> QED
      BY <2>3, <3>1
  <2> QED
    BY <2>2, <2>3, <2>5, <2>6 DEF h, b
<1>3. 0 \in S
  <2>1. a + 0 = a /\ m + 0 = m
    OBVIOUS
  <2> QED
    BY <2>1
<1>4. ASSUME NEW i \in 1..(7 - m), i - 1 \in S PROVE i \in S
  <2> DEFINE h == g[a + (i - 1)]
             bytes == Placed(h.buffer, wire[a + i])
  <2>1. i \in 1..(8 - m) /\ i \in 0..(7 - m)
    OBVIOUS
  <2>2. /\ h \in Scanning /\ wire[a + i] \in Byte /\ g[a + i] = Taken(h, wire[a + i])
        /\ ~Started(h.frame) /\ h.rest = <<>> /\ Len(bytes) = m + i
    BY <1>2, <1>4, <2>1
  <2> HIDE DEF h
  <2>3. Len(bytes) < Size
    BY <2>2 DEF Size
  <2>4. g[a + i] = [buffer |-> bytes, frame |-> <<>>, rest |-> <<>>]
    BY <2>2, <2>3, TakenIs
  <2> HIDE DEF bytes
  <2>5. ~Started(g[a + i].frame) /\ Len(g[a + i].buffer) = m + i /\ g[a + i].rest = <<>>
    BY <2>2, <2>4 DEF Started
  <2> QED
    BY <2>1, <2>5
<1>5. 7 - m \in S
  <2>1. \A i \in 0..(7 - m) : i \in S
    <3>1. 7 - m \in Nat
      OBVIOUS
    <3> HIDE DEF S
    <3> QED
      BY <1>3, <1>4, <3>1, Climb
  <2>2. 7 - m \in 0..(7 - m)
    OBVIOUS
  <2> QED
    BY <2>1, <2>2
<1>6. 8 - m \in 1..(8 - m) /\ (8 - m) - 1 = 7 - m
  OBVIOUS
<1> DEFINE i == 8 - m
           h == g[a + (i - 1)]
           bytes == Placed(h.buffer, wire[a + i])
<1>7. /\ h \in Scanning /\ wire[a + i] \in Byte /\ g[a + i] = Taken(h, wire[a + i])
      /\ ~Started(h.frame) /\ h.rest = <<>> /\ Len(bytes) = m + i
  <2>1. i \in 1..(8 - m) /\ i - 1 \in S
    BY <1>5, <1>6
  <2> QED
    BY <1>2, <2>1
<1>8. ~(Len(bytes) < Size) /\ Len(bytes) = 8
  BY <1>7 DEF Size
<1> HIDE DEF i, h
<1>9. g[a + i] = [buffer |-> <<>>, rest |-> <<>>, frame |-> IF Valid(bytes) THEN bytes ELSE <<>>]
  BY <1>7, <1>8, TakenIs
<1>10. bytes # <<>>
  <2>1. Len(<<>>) = 0
    OBVIOUS
  <2>2. Len(bytes) # 0
    BY <1>8
  <2> HIDE DEF bytes
  <2> QED
    BY <2>1, <2>2
<1> HIDE DEF bytes
<1>11. g[a + i] = Nothing \/ (Started(g[a + i].frame) /\ g[a + i].rest = <<>>)
  BY <1>9, <1>10 DEF Started, Nothing
<1> QED
  BY <1>11 DEF i

\* What follows the first d frames, or a part of them.
LEMMA Behind ==
    ASSUME NEW w \in Seq(Byte), NEW k \in Nat, NEW o \in Nat, Framed(w, k, o),
           NEW d \in 0..k, NEW p \in 0..Len(w), p <= o + 8 * d
    PROVE  Framed(SubSeq(w, p + 1, Len(w)), k - d, o + 8 * d - p)
<1> DEFINE r == SubSeq(w, p + 1, Len(w))
           q == o + 8 * d - p
           n == Len(w)
<1>1. n \in Nat /\ n = o + 8 * k /\ p \in 0..n
  BY DEF Framed
<1>2. Len(r) = n - p /\ \A i \in 1..(n - p) : r[i] = w[p + i]
  BY RestIs
<1> HIDE DEF r, n
<1>3. Len(r) = q + 8 * (k - d)
  BY <1>1, <1>2
<1>4. ASSUME NEW j \in 0..(k - d - 1) PROVE GoodAt(r, q + 8 * j)
  <2> DEFINE a == q + 8 * j
             c == o + 8 * (d + j)
  <2>1. d + j \in 0..(k - 1)
    OBVIOUS
  <2>2. GoodAt(w, c)
    BY <2>1 DEF Framed
  <2>3. a \in Nat /\ c \in Nat /\ p + a = c /\ c + 8 <= n
    BY <1>1, <2>1
  <2> HIDE DEF a, c
  <2>4. \A i \in 1..8 : r[a + i] = w[c + i]
    <3>1. \A i \in 1..8 : a + i \in 1..(n - p) /\ p + (a + i) = c + i
      BY <1>1, <2>3
    <3> QED
      BY <1>2, <3>1
  <2>5. Chunk(r, a) = Chunk(w, c)
    BY <2>4 DEF Chunk, Size
  <2>6. GoodAt(r, a)
    BY <2>2, <2>4, <2>5 DEF GoodAt, Size
  <2> QED
    BY <2>6 DEF a
<1> QED
  BY <1>3, <1>4 DEF Framed, r

\* A frame more.
LEMMA OneMore ==
    ASSUME NEW w \in Seq(Byte), NEW f \in Seq(Byte), NEW k \in Nat, NEW o \in Nat, Framed(w, k, o),
           Len(f) = 8, GoodAt(f, 0)
    PROVE  /\ Framed(w \o f, k + 1, o)
           /\ Chunk(w \o f, o + 8 * k) = Chunk(f, 0)
           /\ \A j \in 0..(k - 1) : Chunk(w \o f, o + 8 * j) = Chunk(w, o + 8 * j)
<1> DEFINE v == w \o f
           n == Len(w)
<1>1. n \in Nat /\ n = o + 8 * k
  BY DEF Framed
<1>2. /\ Len(v) = n + 8
      /\ \A i \in 1..n : v[i] = w[i]
      /\ \A i \in 1..8 : v[n + i] = f[i]
  <2>1. Len(v) = n + 8 /\ \A i \in 1..(n + 8) : v[i] = IF i <= n THEN w[i] ELSE f[i - n]
    <3>1. Len(v) = Len(w) + Len(f) /\ \A i \in 1..(Len(w) + Len(f)) : v[i] = IF i <= Len(w) THEN w[i] ELSE f[i - Len(w)]
      BY ConcatProperties
    <3> QED
      BY <3>1
  <2>2. \A i \in 1..n : i \in 1..(n + 8) /\ i <= n
    BY <1>1
  <2>3. \A i \in 1..8 : n + i \in 1..(n + 8) /\ ~(n + i <= n) /\ (n + i) - n = i
    BY <1>1
  <2> HIDE DEF v, n
  <2> QED
    BY <2>1, <2>2, <2>3
<1> HIDE DEF v, n
<1>3. ASSUME NEW j \in 0..(k - 1)
      PROVE  GoodAt(v, o + 8 * j) /\ Chunk(v, o + 8 * j) = Chunk(w, o + 8 * j)
  <2> DEFINE a == o + 8 * j
  <2>1. GoodAt(w, a)
    BY DEF Framed
  <2>2. a \in Nat /\ a + 8 <= n
    BY <1>1
  <2> HIDE DEF a
  <2>3. \A i \in 1..8 : v[a + i] = w[a + i]
    BY <1>1, <1>2, <2>2
  <2>4. Chunk(v, a) = Chunk(w, a)
    BY <2>3 DEF Chunk, Size
  <2>5. GoodAt(v, a)
    BY <2>1, <2>3, <2>4 DEF GoodAt, Size
  <2> QED
    BY <2>4, <2>5 DEF a
<1>4. GoodAt(v, n) /\ Chunk(v, n) = Chunk(f, 0)
  <2>1. \A i \in 1..8 : v[n + i] = f[0 + i]
    BY <1>2
  <2>2. Chunk(v, n) = Chunk(f, 0)
    BY <2>1 DEF Chunk, Size
  <2>3. f[0 + 1] = v[n + 1] /\ f[0 + 2] = v[n + 2]
    BY <2>1
  <2> QED
    BY <2>1, <2>2, <2>3 DEF GoodAt, Size
<1>5. Framed(v, k + 1, o)
  <2>1. Len(v) = o + 8 * (k + 1)
    BY <1>1, <1>2
  <2>2. \A j \in 0..k : j \in 0..(k - 1) \/ (j = k /\ o + 8 * j = n)
    BY <1>1
  <2>3. \A j \in 0..((k + 1) - 1) : GoodAt(v, o + 8 * j)
    BY <1>3, <1>4, <2>2
  <2> QED
    BY <2>1, <2>3 DEF Framed
<1> QED
  BY <1>1, <1>3, <1>4, <1>5 DEF v

-----------------------------------------------------------------------------
(* The parser and the line *)

\* In step: whole frames wait, and the parser is within none.
Aligned == buffer = <<>> /\ Framed(wire, ahead, 0)
\* After a disturbance: something waits, and whole frames behind it.
Adrift == missed = 0 /\ \E o \in Nat : Framed(wire, ahead, o)
\* What was there before has taken the beginning of the first frame.
Passing == /\ missed = 0 /\ buffer = <<>> /\ ahead > 0
           /\ \E t \in 1..7 : Framed(wire, ahead - 1, t) /\ \A i \in 1..t : wire[i] # HeaderHigh
LinkInv ==
    /\ ahead \in Nat /\ missed \in 0..1
    /\ Aligned \/ ("noise" \in odd /\ (Adrift \/ Passing))
    /\ "noise" \notin odd => missed = 0

\* How many frames a remainder still has.
LEMMA Remaining ==
    ASSUME NEW k \in Nat
    PROVE  /\ (8 * k + Size - 1) \div Size = k /\ (8 * k) % Size = 0
           /\ \A m \in 2..7 : (8 * k + m + Size - 1) \div Size = k + 1 /\ (8 * k + m) % Size # 0
           /\ \A i \in Nat : (8 * k + i + Size - 1) \div Size >= k
BY DEF Size

\* The parser reads up to a frame.
LEMMA ReadFound ==
    ASSUME LinkType, Read, NEW g, ScanRun(g), NEW p \in 1..Len(wire), Started(g[p].frame), g[p].rest = <<>>
    PROVE  /\ buffer' = <<>> /\ frame' = g[p].frame /\ Started(frame')
           /\ wire' = SubSeq(wire, p + 1, Len(wire)) /\ Len(wire') = Len(wire) - p
           /\ ahead' = (IF (Len(wire') + Size - 1) \div Size < ahead THEN (Len(wire') + Size - 1) \div Size ELSE ahead)
           /\ missed' = missed + (ahead - ahead') -
                (IF Len(wire') % Size = 0 /\ (Len(wire') + Size - 1) \div Size < ahead THEN 1 ELSE 0)
<1>1. p \in 0..Len(wire) /\ wire \in Seq(Byte)
  BY DEF LinkType
<1>2. /\ Scanned.buffer = <<>> /\ Scanned.frame = g[p].frame
      /\ Scanned.rest = SubSeq(wire, p + 1, Len(wire))
  BY <1>1, Found
<1>3. Len(Scanned.rest) = Len(wire) - p
  BY <1>1, <1>2, RestIs
<1>4. /\ buffer' = Scanned.buffer /\ frame' = Scanned.frame /\ wire' = Scanned.rest
      /\ ahead' = (IF (Len(Scanned.rest) + Size - 1) \div Size < ahead
                   THEN (Len(Scanned.rest) + Size - 1) \div Size ELSE ahead)
      /\ missed' = missed + (ahead - ahead') -
            (IF Started(Scanned.frame) /\ Len(Scanned.rest) % Size = 0
                /\ (Len(Scanned.rest) + Size - 1) \div Size < ahead THEN 1 ELSE 0)
  BY Zenon DEF Read
<1> QED
  BY <1>2, <1>3, <1>4

\* The parser reads everything and finds none.
LEMMA ReadNone ==
    ASSUME LinkType, Read, NEW g, ScanRun(g), ahead \in Nat,
           ~Started(g[Len(wire)].frame), g[Len(wire)].rest = <<>>
    PROVE  /\ buffer' = g[Len(wire)].buffer /\ frame' = <<>> /\ wire' = <<>> /\ ahead' = 0
           /\ missed' = missed + ahead
<1>1. Scanned = g[Len(wire)]
  BY DEF ScanRun
<1>2. /\ buffer' = Scanned.buffer /\ frame' = Scanned.frame /\ wire' = Scanned.rest
      /\ ahead' = (IF (Len(Scanned.rest) + Size - 1) \div Size < ahead
                   THEN (Len(Scanned.rest) + Size - 1) \div Size ELSE ahead)
      /\ missed' = missed + (ahead - ahead') -
            (IF Started(Scanned.frame) /\ Len(Scanned.rest) % Size = 0
                /\ (Len(Scanned.rest) + Size - 1) \div Size < ahead THEN 1 ELSE 0)
  BY Zenon DEF Read
<1>3. Len(<<>>) = 0 /\ (0 + Size - 1) \div Size = 0
  BY DEF Size
<1>4. ahead' = 0
  BY <1>1, <1>2, <1>3
<1>5. missed' = missed + (ahead - ahead') - 0
  BY <1>1, <1>2
<1>6. missed' = missed + ahead
  BY <1>4, <1>5
<1> QED
  BY <1>1, <1>2, <1>4, <1>6 DEF Started

\* All frames but the first.
LEMMA NextFrame ==
    ASSUME NEW w, NEW k \in Nat, k > 0, NEW o \in Nat, Framed(w, k, o)
    PROVE  Framed(w, k - 1, o + 8) /\ GoodAt(w, o) /\ o + 8 <= Len(w)
<1>1. Len(w) = o + 8 * k /\ \A j \in 0..(k - 1) : GoodAt(w, o + 8 * j)
  BY DEF Framed
<1>2. Len(w) = (o + 8) + 8 * (k - 1) /\ o + 8 <= Len(w)
  BY <1>1
<1>3. \A j \in 0..((k - 1) - 1) : GoodAt(w, (o + 8) + 8 * j)
  <2>1. \A j \in 0..((k - 1) - 1) : j + 1 \in 0..(k - 1) /\ o + 8 * (j + 1) = (o + 8) + 8 * j
    OBVIOUS
  <2> QED
    BY <1>1, <2>1
<1>4. GoodAt(w, o)
  <2>1. 0 \in 0..(k - 1) /\ o + 8 * 0 = o
    OBVIOUS
  <2> QED
    BY <1>1, <2>1
<1> QED
  BY <1>2, <1>3, <1>4 DEF Framed

\* The parser reaches whole frames outside of one: it finds the first of them.
LEMMA ReadClean ==
    ASSUME LinkType, Read, NEW g, ScanRun(g), ahead \in Nat, missed \in Nat,
           NEW o \in 0..Len(wire), g[o] = Nothing, NEW k \in 0..ahead, Framed(wire, k, o)
    PROVE  /\ Aligned' /\ missed' = missed + (ahead - k)
           /\ k > 0 => ahead' = k - 1 /\ frame' = Chunk(wire, o) /\ wire' = SubSeq(wire, o + 9, Len(wire))
           /\ k = 0 => ahead' = 0 /\ frame' = <<>> /\ wire' = <<>>
<1>1. k \in Nat /\ o \in Nat /\ Len(wire) = o + 8 * k /\ wire \in Seq(Byte)
  BY DEF Framed, LinkType
<1>2. CASE k = 0
  <2>1. o = Len(wire)
    BY <1>1, <1>2
  <2>2. ~Started(g[Len(wire)].frame) /\ g[Len(wire)].rest = <<>> /\ g[Len(wire)].buffer = <<>>
    BY <2>1 DEF Nothing, Started
  <2>3. buffer' = <<>> /\ frame' = <<>> /\ wire' = <<>> /\ ahead' = 0 /\ missed' = missed + ahead
    BY <2>2, ReadNone
  <2>4. Aligned'
    BY <2>3 DEF Aligned, Framed
  <2> QED
    BY <1>2, <2>3, <2>4
<1>3. CASE k > 0
  <2> DEFINE p == o + 8
             r == SubSeq(wire, p + 1, Len(wire))
  <2>1. GoodAt(wire, o) /\ p <= Len(wire) /\ p \in 1..Len(wire) /\ p \in 0..Len(wire)
    BY <1>1, <1>3, NextFrame
  <2>2. g[p] = [buffer |-> <<>>, frame |-> Chunk(wire, o), rest |-> <<>>]
    BY <1>1, <2>1, Parse
  <2>3. Started(g[p].frame) /\ g[p].rest = <<>> /\ g[p].frame = Chunk(wire, o)
    <3>1. Chunk(wire, o) # <<>>
      BY DEF Chunk, Size
    <3> QED
      BY <2>2, <3>1 DEF Started
  <2>4. Framed(r, k - 1, 0)
    <3>1. 1 \in 0..k /\ p <= o + 8 * 1 /\ o + 8 * 1 - p = 0
      BY <1>1, <1>3
    <3>2. Framed(r, k - 1, o + 8 * 1 - p)
      BY <1>1, <2>1, <3>1, Behind
    <3> QED
      BY <3>1, <3>2
  <2> DEFINE l == Len(wire')
  <2>5. /\ buffer' = <<>> /\ frame' = Chunk(wire, o)
        /\ wire' = r /\ l = Len(wire) - p
        /\ ahead' = (IF (l + Size - 1) \div Size < ahead THEN (l + Size - 1) \div Size ELSE ahead)
        /\ missed' = missed + (ahead - ahead') -
                (IF l % Size = 0 /\ (l + Size - 1) \div Size < ahead THEN 1 ELSE 0)
    BY <2>1, <2>3, ReadFound
  <2>6. l = 8 * (k - 1) /\ k - 1 \in Nat
    BY <1>1, <1>3, <2>5
  <2>7. (l + Size - 1) \div Size = k - 1 /\ l % Size = 0
    BY <2>6, Remaining
  <2> HIDE DEF l, r
  <2>8. ahead' = k - 1 /\ missed' = missed + (ahead - k)
    BY <1>3, <2>5, <2>7
  <2>9. Aligned'
    BY <2>4, <2>5, <2>8 DEF Aligned
  <2>10. p + 1 = o + 9
    BY <1>1
  <2> QED
    BY <1>3, <2>5, <2>8, <2>9, <2>10 DEF r
<1> QED
  BY <1>1, <1>2, <1>3

\* A frame that the parser meets while it is within another.
LEMMA ReadAdrift ==
    ASSUME LinkType, Read, NEW g, ScanRun(g), ahead \in Nat \ {0}, missed = 0,
           NEW o \in Nat, Framed(wire, ahead, o), g[o].frame = <<>>, g[o].rest = <<>>, Len(g[o].buffer) \in 1..7
    PROVE  (Aligned' /\ missed' = 1 /\ ahead' \in Nat) \/ (Passing' /\ ahead' \in Nat)
<1>1. /\ Framed(wire, ahead - 1, o + 8) /\ GoodAt(wire, o) /\ o + 8 <= Len(wire)
      /\ Len(wire) = o + 8 * ahead /\ wire \in Seq(Byte)
  <2>1. ahead \in Nat /\ ahead > 0
    OBVIOUS
  <2>2. Framed(wire, ahead - 1, o + 8) /\ GoodAt(wire, o) /\ o + 8 <= Len(wire)
    BY <2>1, NextFrame
  <2> QED
    BY <2>2 DEF Framed, LinkType
<1>2. ASSUME NEW a \in (o + 1)..(o + 8), g[a] = Nothing
      PROVE  Aligned' /\ missed' = 1 /\ ahead' \in Nat
  <2>1. a \in 0..Len(wire) /\ o + 8 \in a..Len(wire) /\ o + 8 \in 0..Len(wire) /\ ahead - 1 \in 0..ahead
    BY <1>1
  <2>2. \A k \in (a + 1)..(o + 8) : wire[k] # HeaderHigh
    <3>1. \A k \in (a + 1)..(o + 8) : k - o \in 2..8 /\ o + (k - o) = k
      BY <1>1
    <3>2. \A i \in 2..8 : wire[o + i] # HeaderHigh
      BY <1>1 DEF GoodAt, Size
    <3> QED
      BY <3>1, <3>2
  <2>3. g[o + 8] = Nothing
    BY <1>2, <2>1, <2>2, Skip
  <2>4. /\ Aligned' /\ missed' = missed + (ahead - (ahead - 1))
        /\ ahead - 1 > 0 => ahead' = (ahead - 1) - 1
        /\ ahead - 1 = 0 => ahead' = 0
    BY <1>1, <2>1, <2>3, ReadClean
  <2> QED
    BY <2>4
<1>3. CASE Len(g[o].buffer) = 1
  <2>1. o + 1 \in 1..Len(wire) /\ (o + 1) - 1 = o /\ o \in 0..Len(wire)
    BY <1>1
  <2>2. g[o + 1] = Taken(g[o], wire[o + 1]) /\ g[o] \in Scanning /\ wire[o + 1] \in Byte
    BY <2>1 DEF ScanRun, LinkType
  <2>3. wire[o + 1] = HeaderHigh /\ HeaderHigh # HeaderLow
    BY <1>1, LinkAssumption DEF GoodAt
  <2>4. g[o].buffer # <<>>
    <3>1. Len(<<>>) = 0 /\ 0 # 1
      OBVIOUS
    <3> QED
      BY <1>3, <3>1, Zenon
  <2>5. Placed(g[o].buffer, wire[o + 1]) = <<>>
    <3> DEFINE b == wire[o + 1]
               s == g[o].buffer
    <3>1. b # HeaderLow /\ s # <<>> /\ Len(s) = 1
      BY <1>3, <2>3, <2>4
    <3> HIDE DEF b, s
    <3>2. Placed(s, b) = <<>>
      BY <3>1 DEF Placed
    <3> QED
      BY <3>2 DEF b, s
  <2>6. g[o + 1] = Nothing
    BY <2>2, <2>5, TakenIs DEF Started, Nothing, Size
  <2>7. o + 1 \in (o + 1)..(o + 8)
    OBVIOUS
  <2> QED
    BY <1>2, <2>6, <2>7
<1>4. CASE Len(g[o].buffer) \in 2..7
  <2> DEFINE m == Len(g[o].buffer)
             p == o + (8 - m)
             r == SubSeq(wire, p + 1, Len(wire))
  <2>1. m \in 2..7 /\ p <= Len(wire) /\ p \in 1..Len(wire) /\ p \in 0..Len(wire) /\ p \in (o + 1)..(o + 8)
    <3>1. m \in 2..7 /\ Len(wire) \in Nat
      BY <1>1, <1>4
    <3> HIDE DEF m
    <3> QED
      BY <1>1, <3>1
  <2>2. ~Started(g[o].frame)
    BY DEF Started
  <2>3. CASE g[p] = Nothing
    BY <1>2, <2>1, <2>3
  <2>4. CASE Started(g[p].frame) /\ g[p].rest = <<>>
    <3> DEFINE l == Len(wire')
    <3>1. /\ buffer' = <<>> /\ wire' = r /\ l = Len(wire) - p
          /\ ahead' = (IF (l + Size - 1) \div Size < ahead THEN (l + Size - 1) \div Size ELSE ahead)
          /\ missed' = missed + (ahead - ahead') -
                  (IF l % Size = 0 /\ (l + Size - 1) \div Size < ahead THEN 1 ELSE 0)
      BY <2>1, <2>4, ReadFound
    <3>2. Framed(r, ahead - 1, m)
      <4>1. 1 \in 0..ahead /\ p <= o + 8 * 1 /\ o + 8 * 1 - p = m
        <5> HIDE DEF m
        <5> QED
          BY <2>1
      <4>2. Framed(r, ahead - 1, o + 8 * 1 - p)
        BY <1>1, <2>1, <4>1, Behind
      <4> QED
        BY <4>1, <4>2
    <3>3. \A i \in 1..m : r[i] # HeaderHigh
      <4>1. \A i \in 1..m : i \in 1..(Len(wire) - p) /\ p + i = o + (8 - m + i) /\ (8 - m + i) \in 2..8
        <5> HIDE DEF m
        <5> QED
          BY <1>1, <2>1
      <4>2. \A i \in 1..(Len(wire) - p) : r[i] = wire[p + i]
        BY <1>1, <2>1, RestIs
      <4>3. \A i \in 2..8 : wire[o + i] # HeaderHigh
        BY <1>1 DEF GoodAt, Size
      <4> HIDE DEF r, m, p
      <4> QED
        BY <4>1, <4>2, <4>3
    <3> HIDE DEF l, r
    <3>4. l = 8 * (ahead - 1) + m /\ ahead - 1 \in Nat
      <4> HIDE DEF m
      <4> QED
        BY <1>1, <2>1, <3>1
    <3>5. (l + Size - 1) \div Size = (ahead - 1) + 1 /\ l % Size # 0
      BY <2>1, <3>4, Remaining
    <3>6. ahead' = ahead /\ missed' = 0
      BY <3>1, <3>5
    <3>7. Passing'
      <4> HIDE DEF m
      <4> QED
        BY <2>1, <3>1, <3>2, <3>3, <3>6 DEF Passing
    <3> QED
      BY <3>6, <3>7
  <2> QED
    BY <1>1, <2>1, <2>2, <2>3, <2>4, Fill
<1> QED
  BY <1>3, <1>4

\* What the parser reads has the types of the line.
LEMMA ReadType ==
    ASSUME LinkTypeOK, Read
    PROVE  LinkTypeOK'
<1>1. LinkType
  BY DEF LinkTypeOK, LinkType
<1>2. PICK g : ScanRun(g)
  BY <1>1, ScanRuns
<1>3. Scanned \in Scanning
  <2>1. Len(wire) \in 0..Len(wire)
    BY <1>1 DEF LinkType
  <2> QED
    BY <1>2, <2>1 DEF ScanRun
<1>4. buffer' = Scanned.buffer /\ frame' = Scanned.frame /\ wire' = Scanned.rest
  BY Zenon DEF Read
<1> QED
  BY <1>3, <1>4 DEF Scanning, LinkTypeOK

\* Reading keeps the parser and the line together; in step it takes the first frame.
LEMMA ReadKeeps ==
    ASSUME LinkTypeOK, LinkInv, Read, UNCHANGED odd
    PROVE  /\ LinkInv'
           /\ "noise" \notin odd => /\ Aligned /\ Aligned' /\ ahead > 0 /\ ahead' = ahead - 1
                                    /\ frame' = Chunk(wire, 0) /\ wire' = SubSeq(wire, 9, Len(wire))
<1>1. LinkType /\ wire # <<>> /\ wire \in Seq(Byte) /\ Len(wire) \in Nat
  BY DEF LinkTypeOK, LinkType, Read
<1>2. PICK g : ScanRun(g)
  BY <1>1, ScanRuns
<1>3. g[0] = ScanBase /\ 0 \in 0..Len(wire) /\ Len(wire) # 0
  BY <1>1, <1>2, EmptySeq DEF ScanRun
<1>4. ahead \in Nat /\ missed \in 0..1 /\ missed \in Nat /\ ("noise" \notin odd => missed = 0)
  BY DEF LinkInv
<1>5. CASE Aligned
  <2>1. g[0] = Nothing /\ Framed(wire, ahead, 0)
    BY <1>3, <1>5 DEF Aligned, ScanBase, Nothing
  <2>2. ahead > 0
    BY <1>3, <1>4, <2>1 DEF Framed
  <2>3. ahead \in 0..ahead
    BY <1>4
  <2>4. /\ Aligned' /\ missed' = missed + (ahead - ahead)
        /\ ahead > 0 => ahead' = ahead - 1 /\ frame' = Chunk(wire, 0) /\ wire' = SubSeq(wire, 0 + 9, Len(wire))
    BY <1>1, <1>2, <1>3, <1>4, <2>1, <2>3, ReadClean
  <2>5. ahead' \in Nat /\ missed' = missed
    BY <1>4, <2>2, <2>4
  <2> QED
    BY <1>4, <1>5, <2>2, <2>4, <2>5 DEF LinkInv
<1>6. CASE "noise" \in odd /\ Passing
  <2>1. missed = 0 /\ buffer = <<>> /\ ahead > 0
    BY <1>6 DEF Passing
  <2>2. PICK t \in 1..7 : Framed(wire, ahead - 1, t) /\ \A i \in 1..t : wire[i] # HeaderHigh
    BY <1>6 DEF Passing
  <2>3. ahead - 1 \in 0..ahead /\ t \in 0..Len(wire) /\ 0 \in 0..Len(wire) /\ Len(wire) = t + 8 * (ahead - 1)
    BY <1>1, <1>4, <2>1, <2>2 DEF Framed
  <2>4. g[t] = Nothing
    <3>1. g[0] = Nothing
      BY <1>3, <2>1 DEF ScanBase, Nothing
    <3>2. t \in 0..Len(wire) /\ \A k \in (0 + 1)..t : wire[k] # HeaderHigh
      BY <2>2, <2>3
    <3> QED
      BY <1>1, <1>2, <2>3, <3>1, <3>2, Skip
  <2>5. /\ Aligned' /\ missed' = missed + (ahead - (ahead - 1))
        /\ ahead - 1 > 0 => ahead' = (ahead - 1) - 1
        /\ ahead - 1 = 0 => ahead' = 0
    BY <1>1, <1>2, <1>4, <2>2, <2>3, <2>4, ReadClean
  <2>6. missed' = 1 /\ ahead' \in Nat
    BY <1>4, <2>1, <2>5
  <2> QED
    BY <1>6, <2>5, <2>6 DEF LinkInv
<1>7. CASE "noise" \in odd /\ Adrift
  <2>1. missed = 0
    BY <1>7 DEF Adrift
  <2>2. PICK o \in Nat : Framed(wire, ahead, o)
    BY <1>7 DEF Adrift
  <2>3. o \in 0..Len(wire) /\ Len(wire) = o + 8 * ahead
    BY <1>4, <2>2 DEF Framed
  <2>4. ASSUME NEW p \in 1..o, Started(g[p].frame), g[p].rest = <<>> PROVE LinkInv'
    <3> DEFINE r == SubSeq(wire, p + 1, Len(wire))
               l == Len(wire')
    <3>1. p \in 1..Len(wire) /\ p \in 0..Len(wire)
      BY <2>3, <1>4
    <3>2. /\ wire' = r /\ l = Len(wire) - p
          /\ ahead' = (IF (l + Size - 1) \div Size < ahead THEN (l + Size - 1) \div Size ELSE ahead)
          /\ missed' = missed + (ahead - ahead') -
                  (IF l % Size = 0 /\ (l + Size - 1) \div Size < ahead THEN 1 ELSE 0)
      BY <1>1, <1>2, <2>4, <3>1, ReadFound
    <3>3. l = 8 * ahead + (o - p) /\ o - p \in Nat
      BY <2>3, <3>2, <1>4
    <3>4. (l + Size - 1) \div Size >= ahead
      BY <1>4, <3>3, Remaining
    <3>5. ahead' = ahead /\ missed' = 0
      <4> DEFINE d == (l + Size - 1) \div Size
      <4>1. d \in Int
        BY <3>3, <1>4 DEF Size
      <4> HIDE DEF l, r, d
      <4>2. ~(d < ahead)
        BY <1>4, <3>4, <4>1 DEF d
      <4>3. ahead' = ahead
        BY <3>2, <4>2 DEF d
      <4>4. missed' = missed + (ahead - ahead') - 0
        BY <3>2, <4>2 DEF d
      <4> QED
        BY <1>4, <2>1, <4>3, <4>4
    <3>6. Framed(r, ahead, o - p)
      <4>1. 0 \in 0..ahead /\ p <= o + 8 * 0 /\ o + 8 * 0 - p = o - p /\ ahead - 0 = ahead
        BY <1>4, <2>3
      <4>2. Framed(r, ahead - 0, o + 8 * 0 - p)
        BY <1>1, <1>4, <2>2, <3>1, <4>1, Behind
      <4> QED
        BY <4>1, <4>2
    <3> HIDE DEF l, r
    <3>7. Adrift'
      BY <3>2, <3>3, <3>5, <3>6 DEF Adrift
    <3> QED
      BY <1>4, <1>7, <3>5, <3>7 DEF LinkInv
  <2>5. CASE ~Started(g[o].frame) /\ g[o].frame = <<>> /\ g[o].rest = <<>>
    <3>1. Len(g[o].buffer) \in Nat /\ Len(g[o].buffer) < 8 /\ g[o].buffer \in Seq(Byte)
          /\ g[o] \in [buffer : Seq(Byte), frame : Seq(Byte), rest : Seq(Byte)]
      BY <1>2, <2>3 DEF ScanRun, Scanning, Size
    <3>2. CASE ahead = 0
      <4>1. o = Len(wire)
        BY <2>3, <3>2
      <4>2. wire' = <<>> /\ ahead' = 0 /\ missed' = missed + ahead
        BY <1>1, <1>2, <1>4, <2>5, <4>1, ReadNone
      <4>3. Framed(<<>>, 0, 0)
        BY DEF Framed
      <4>4. Adrift' /\ missed' = 0 /\ ahead' = 0
        BY <2>1, <3>2, <4>2, <4>3 DEF Adrift
      <4> QED
        BY <1>7, <4>4 DEF LinkInv
    <3>3. CASE ahead # 0 /\ g[o].buffer = <<>>
      <4>1. g[o] = Nothing
        BY <2>5, <3>1, <3>3 DEF Nothing
      <4>2. ahead \in 0..ahead /\ ahead > 0
        BY <1>4, <3>3
      <4>3. Aligned' /\ missed' = missed + (ahead - ahead) /\ ahead' = ahead - 1
        BY <1>1, <1>2, <1>4, <2>2, <2>3, <4>1, <4>2, ReadClean
      <4>4. missed' = 0 /\ ahead' \in Nat
        BY <1>4, <2>1, <4>2, <4>3
      <4> QED
        BY <1>7, <4>3, <4>4 DEF LinkInv
    <3>4. CASE ahead # 0 /\ g[o].buffer # <<>>
      <4>1. ahead \in Nat \ {0} /\ Len(g[o].buffer) \in 1..7
        <5> DEFINE b == g[o].buffer
        <5>1. b \in Seq(Byte) /\ b # <<>> /\ Len(b) \in Nat /\ Len(b) < 8
          BY <3>1, <3>4
        <5> HIDE DEF b
        <5>2. Len(b) \in Nat \ {0}
          BY <5>1, EmptySeq
        <5>3. Len(b) \in 1..7
          <6> DEFINE l == Len(b)
          <6>1. l \in Nat \ {0} /\ l < 8
            BY <5>1, <5>2
          <6> HIDE DEF l
          <6>2. l \in 1..7
            BY <6>1
          <6> QED
            BY <6>2 DEF l
        <5>4. ahead \in Nat \ {0}
          BY <1>4, <3>4
        <5> QED
          BY <5>3, <5>4 DEF b
      <4>2. (Aligned' /\ missed' = 1 /\ ahead' \in Nat) \/ (Passing' /\ ahead' \in Nat)
        BY <1>1, <1>2, <2>1, <2>2, <2>5, <4>1, ReadAdrift
      <4>3. Passing' => missed' = 0
        BY DEF Passing
      <4> QED
        BY <1>7, <4>2, <4>3 DEF LinkInv
    <3> QED
      BY <3>2, <3>3, <3>4
  <2>6. o \in 0..Len(wire)
    BY <2>3
  <2>7. \/ ~Started(g[o].frame) /\ g[o].frame = <<>> /\ g[o].rest = <<>>
        \/ \E p \in 1..o : Started(g[p].frame) /\ g[p].rest = <<>>
    BY <1>1, <1>2, <2>6, Searching
  <2>8. LinkInv'
    BY <2>4, <2>5, <2>7
  <2> QED
    BY <1>7, <2>8
<1>8. "noise" \notin odd => Aligned
  BY DEF LinkInv
<1> QED
  BY <1>5, <1>6, <1>7, <1>8 DEF LinkInv

-----------------------------------------------------------------------------
(* What the board sends *)

\* A sequence with one element more, and what a sequence consists of.
LEMMA MoreIs ==
    ASSUME NEW T, NEW s \in Seq(T), NEW e \in T, NEW f, f = Append(s, e), NEW n, n = Len(s)
    PROVE  /\ f \in Seq(T) /\ Len(f) = n + 1 /\ f[n + 1] = e /\ f # <<>>
           /\ \A i \in 1..n : f[i] = s[i]
<1>1. /\ f \in Seq(T) /\ Len(f) = Len(s) + 1 /\ f[Len(s) + 1] = e /\ f # <<>>
      /\ \A i \in 1..Len(s) : f[i] = s[i]
  BY AppendProperties
<1> QED
  BY Zenon, <1>1

LEMMA AllIs ==
    ASSUME NEW T, NEW s \in Seq(T), NEW n, n = Len(s)
    PROVE  DOMAIN s = 1..n /\ (\A i \in 1..n : s[i] \in T) /\ s = [i \in 1..n |-> s[i]]
<1>1. DOMAIN s = 1..Len(s) /\ (\A i \in 1..Len(s) : s[i] \in T) /\ s = [i \in DOMAIN s |-> s[i]]
  OBVIOUS
<1> QED
  BY Zenon, <1>1

\* A frame of seven bytes and their sum is one that the parser would take, unless it is misleading.
LEMMA FrameIs ==
    ASSUME NEW bytes \in Seq(Byte), Len(bytes) = 7, NEW f \in Seq(Byte), Len(f) = 8, f # <<>>,
           \A i \in 1..7 : f[i] = bytes[i], f[8] = Checksum(bytes)
    PROVE  /\ Started(f) /\ Chunk(f, 0) = f /\ Valid(f)
           /\ bytes[1] = HeaderHigh /\ bytes[2] = HeaderLow /\ ~Misleading(f) => GoodAt(f, 0)
<1>1. Started(f)
  BY DEF Started
<1>2. DOMAIN f = 1..8 /\ (\A i \in 1..8 : f[i] \in Byte) /\ f = [i \in 1..8 |-> f[i]]
  <2>1. f \in Seq(Byte) /\ 8 = Len(f)
    OBVIOUS
  <2>2. DOMAIN f = 1..Len(f) /\ (\A i \in 1..Len(f) : f[i] \in Byte) /\ f = [i \in 1..Len(f) |-> f[i]]
    BY Zenon, AllIs
  <2> QED
    BY Zenon, <2>1, <2>2
<1>3. Chunk(f, 0) = f
  <2>1. \A i \in 1..8 : 0 + i = i
    OBVIOUS
  <2>2. [i \in 1..8 |-> f[0 + i]] = [i \in 1..8 |-> f[i]]
    BY <2>1
  <2> QED
    BY <1>2, <2>2 DEF Chunk, Size
<1>4. Valid(f)
  <2>1. Front(f) = SubSeq(f, 1, 7)
    <3>1. Front(f) = SubSeq(f, 1, Len(f) - 1)
      BY DEF Front
    <3>2. Len(f) - 1 = 7
      OBVIOUS
    <3> QED
      BY Zenon, <3>1, <3>2
  <2>2. \A i \in 1..7 : f[i] \in Byte
    BY <1>2
  <2>3. SubSeq(f, 1, 7) \in Seq(Byte) /\ Len(SubSeq(f, 1, 7)) = 7 /\ \A i \in 1..7 : SubSeq(f, 1, 7)[i] = f[i]
    BY <2>2
  <2>4. SubSeq(f, 1, 7) = bytes
    <3> DEFINE t == SubSeq(f, 1, 7)
    <3>1. t \in Seq(Byte) /\ Len(t) = Len(bytes) /\ \A i \in 1..Len(t) : t[i] = bytes[i]
      BY <2>3
    <3> HIDE DEF t
    <3>2. t = bytes
      BY <3>1, SeqEqual
    <3> QED
      BY <3>2 DEF t
  <2> QED
    BY <2>1, <2>4 DEF Valid, Size
<1>5. ASSUME bytes[1] = HeaderHigh, bytes[2] = HeaderLow, ~Misleading(f) PROVE GoodAt(f, 0)
  <2>1. HeaderHigh \notin ToSet(Tail(f))
    BY <1>5 DEF Misleading
  <2>2. Tail(f) \in Seq(Byte) /\ Len(Tail(f)) = Len(f) - 1 /\ \A i \in 1..Len(Tail(f)) : Tail(f)[i] = f[i + 1]
    BY HeadTailProperties
  <2>3. ASSUME NEW i \in 2..8 PROVE f[0 + i] # HeaderHigh
    <3> DEFINE j == i - 1
               t == Tail(f)
    <3>1. j \in 1..7 /\ j + 1 = i /\ 0 + i = i
      OBVIOUS
    <3>2. Len(t) = 7
      BY <2>2
    <3>3. t[j] = f[j + 1] /\ j \in 1..Len(t)
      BY <2>2, <3>1, <3>2
    <3>4. DOMAIN t = 1..Len(t)
      BY <2>2
    <3> HIDE DEF t, j
    <3>5. t[j] \in ToSet(t)
      BY <3>3, <3>4 DEF ToSet
    <3> QED
      BY <2>1, <3>1, <3>3, <3>5 DEF t
  <2>4. f[0 + 1] = HeaderHigh /\ f[0 + 2] = HeaderLow
    BY <1>5
  <2> QED
    BY <1>3, <1>4, <2>3, <2>4 DEF GoodAt, Size
<1> QED
  BY <1>1, <1>3, <1>4, <1>5

\* A request has its fields.
LEMMA RequestIs ==
    ASSUME NEW id \in Byte, NEW c \in Byte, NEW data \in Byte, NEW f, f = Request(id, c, data)
    PROVE  /\ f \in Seq(Byte) /\ Len(f) = 8 /\ Id(f) = id /\ Connector(f) = c /\ Data(f) = data
           /\ Started(f) /\ Valid(f) /\ Chunk(f, 0) = f
           /\ ~Misleading(f) => GoodAt(f, 0)
<1> DEFINE head == <<HeaderHigh, HeaderLow>>
           body == <<id, 0, 0, c, data>>
           bytes == head \o body
<1>1. HeaderHigh \in Byte /\ HeaderLow \in Byte /\ 0 \in Byte
  BY LinkAssumption DEF Byte
<1>2. head \in Seq(Byte) /\ Len(head) = 2 /\ head[1] = HeaderHigh /\ head[2] = HeaderLow
  BY <1>1
<1>3. body \in Seq(Byte) /\ Len(body) = 5 /\ body[1] = id /\ body[4] = c /\ body[5] = data
  BY <1>1
<1>4. f = Append(bytes, Checksum(bytes))
  BY Zenon DEF Request, Frame
<1> HIDE DEF head, body
<1>5. /\ bytes \in Seq(Byte) /\ Len(bytes) = 7
      /\ bytes[1] = HeaderHigh /\ bytes[2] = HeaderLow /\ bytes[3] = id /\ bytes[6] = c /\ bytes[7] = data
  <2>1. bytes \in Seq(Byte) /\ Len(bytes) = Len(head) + Len(body)
    BY <1>2, <1>3, ConcatProperties
  <2>2. \A i \in 1..(Len(head) + Len(body)) : bytes[i] = IF i <= Len(head) THEN head[i] ELSE body[i - Len(head)]
    BY <1>2, <1>3, ConcatProperties
  <2> HIDE DEF bytes
  <2>3. Len(head) + Len(body) = 7
    BY <1>2, <1>3
  <2>4. \A i \in 1..7 : bytes[i] = IF i <= 2 THEN head[i] ELSE body[i - 2]
    BY <1>2, <1>3, <2>2, <2>3
  <2>5. bytes[1] = head[1] /\ bytes[2] = head[2] /\ bytes[3] = body[1] /\ bytes[6] = body[4] /\ bytes[7] = body[5]
    BY <2>4
  <2> QED
    BY <1>2, <1>3, <2>1, <2>5
<1> HIDE DEF bytes
<1> DEFINE sum == Checksum(bytes)
           n == Len(bytes)
<1>6. sum \in Byte
  BY <1>5, ChecksumType
<1>7. bytes \in Seq(Byte) /\ n = 7 /\ n + 1 = 8
  BY <1>5
<1> HIDE DEF sum
<1>8. f \in Seq(Byte) /\ Len(f) = n + 1 /\ f[n + 1] = sum /\ f # <<>> /\ \A i \in 1..n : f[i] = bytes[i]
  <2>1. f = Append(bytes, sum) /\ bytes \in Seq(Byte)
    BY <1>4, <1>7 DEF sum
  <2> HIDE DEF n
  <2> QED
    BY <1>6, <2>1, MoreIs DEF n
<1> HIDE DEF n
<1>9. f \in Seq(Byte) /\ Len(f) = 8 /\ f # <<>> /\ f[8] = sum
  BY Zenon, <1>7, <1>8
<1>10. \A i \in 1..7 : f[i] = bytes[i]
  BY Zenon, <1>7, <1>8
<1>11. /\ Started(f) /\ Chunk(f, 0) = f /\ Valid(f)
       /\ ~Misleading(f) => GoodAt(f, 0)
  BY <1>5, <1>9, <1>10, FrameIs DEF sum
<1>12. f[3] = id /\ f[6] = c /\ f[7] = data
  BY <1>5, <1>10
<1> QED
  BY <1>9, <1>11, <1>12 DEF Id, Connector, Data

\* The line without a change of it, the steps of the others on it.
LEMMA SendKeeps ==
    ASSUME LinkTypeOK, LinkInv, NEW f \in Seq(Byte), Len(f) = 8, Chunk(f, 0) = f,
           ~Misleading(f) => GoodAt(f, 0), Send(f), odd' = odd \/ odd' = odd \cup {"early"}
    PROVE  /\ LinkTypeOK' /\ LinkInv'
           /\ "noise" \notin odd => /\ Aligned /\ Aligned' /\ ahead' = ahead + 1 /\ frame' = frame
                                    /\ Chunk(wire', 8 * ahead) = f
                                    /\ \A j \in 0..(ahead - 1) : Chunk(wire', 8 * j) = Chunk(wire, 8 * j)
<1>1. /\ wire' = wire \o f /\ ahead' = ahead + 1 /\ buffer' = buffer /\ frame' = frame /\ missed' = missed
      /\ GoodAt(f, 0)
  BY DEF Send
<1>2. wire \in Seq(Byte) /\ ahead \in Nat /\ missed \in 0..1
  BY DEF LinkTypeOK, LinkInv
<1>3. "noise" \in odd' <=> "noise" \in odd
  OBVIOUS
<1>4. LinkTypeOK'
  <2>1. wire' \in Seq(Byte)
    BY <1>1, <1>2, ConcatProperties
  <2> QED
    BY <1>1, <2>1 DEF LinkTypeOK, Started, Valid
<1>5. ASSUME Aligned
      PROVE  /\ Aligned' /\ Chunk(wire', 8 * ahead) = f
             /\ \A j \in 0..(ahead - 1) : Chunk(wire', 8 * j) = Chunk(wire, 8 * j)
  <2>1. Framed(wire, ahead, 0) /\ buffer = <<>> /\ 0 \in Nat
    BY <1>5 DEF Aligned
  <2>2. /\ Framed(wire', ahead', 0)
        /\ Chunk(wire', 0 + 8 * ahead) = Chunk(f, 0)
        /\ \A j \in 0..(ahead - 1) : Chunk(wire', 0 + 8 * j) = Chunk(wire, 0 + 8 * j)
    BY <1>1, <1>2, <2>1, OneMore
  <2>3. \A j \in Nat : 0 + 8 * j = 8 * j
    OBVIOUS
  <2>4. 0 + 8 * ahead = 8 * ahead /\ \A j \in 0..(ahead - 1) : 0 + 8 * j = 8 * j
    BY <1>2
  <2>5. Chunk(wire', 8 * ahead) = f
    BY <2>2, <2>4
  <2>6. \A j \in 0..(ahead - 1) : Chunk(wire', 8 * j) = Chunk(wire, 8 * j)
    BY <2>2, <2>4
  <2> QED
    BY <1>1, <2>1, <2>2, <2>5, <2>6 DEF Aligned
<1>6. ASSUME Adrift PROVE Adrift'
  <2>1. PICK o \in Nat : Framed(wire, ahead, o)
    BY <1>6 DEF Adrift
  <2>2. Framed(wire', ahead', o)
    BY <1>1, <1>2, <2>1, OneMore
  <2> QED
    BY <1>1, <1>6, <2>2 DEF Adrift
<1>7. ASSUME Passing PROVE Passing'
  <2>1. PICK t \in 1..7 : Framed(wire, ahead - 1, t) /\ \A i \in 1..t : wire[i] # HeaderHigh
    BY <1>7 DEF Passing
  <2>2. ahead - 1 \in Nat /\ t \in Nat
    BY <1>2, <1>7 DEF Passing
  <2>3. (ahead - 1) + 1 = ahead' - 1 /\ ahead' > 0
    BY <1>1, <1>2
  <2>4. Framed(wire', (ahead - 1) + 1, t)
    BY <1>1, <1>2, <2>1, <2>2, OneMore
  <2>5. Framed(wire', ahead' - 1, t)
    BY Zenon, <2>3, <2>4
  <2>6. \A i \in 1..t : wire'[i] # HeaderHigh
    <3> SUFFICES ASSUME NEW i \in 1..t PROVE wire'[i] # HeaderHigh
      OBVIOUS
    <3> DEFINE n == Len(wire)
               m == Len(f)
    <3>1. n = t + 8 * (ahead - 1) /\ m = 8
      BY <2>1 DEF Framed
    <3>2. \A j \in 1..(n + m) : wire'[j] = IF j <= n THEN wire[j] ELSE f[j - n]
      BY <1>1, <1>2, ConcatProperties
    <3> HIDE DEF n, m
    <3>3. i <= n /\ i \in 1..(n + m)
      BY <2>2, <3>1
    <3> QED
      BY <2>1, <3>2, <3>3
  <2> QED
    BY <1>1, <1>7, <2>3, <2>5, <2>6 DEF Passing
<1>8. LinkInv'
  <2>1. ahead' \in Nat /\ missed' \in 0..1
    BY <1>1, <1>2
  <2>2. Aligned' \/ ("noise" \in odd' /\ (Adrift' \/ Passing'))
    BY <1>3, <1>5, <1>6, <1>7 DEF LinkInv
  <2>3. "noise" \notin odd' => missed' = 0
    BY <1>1, <1>3 DEF LinkInv
  <2> QED
    BY <2>1, <2>2, <2>3 DEF LinkInv
<1>9. "noise" \notin odd => Aligned
  BY DEF LinkInv
<1> QED
  BY <1>1, <1>4, <1>5, <1>8, <1>9

\* After something else was on the line, and after the start.
LEMMA DisturbKeeps ==
    ASSUME LinkTypeOK, LinkInv, Disturb, "noise" \in odd'
    PROVE  LinkTypeOK' /\ LinkInv'
<1>1. /\ wire = <<>> /\ wire' \in Noise /\ missed' = 0
      /\ buffer' = buffer /\ frame' = frame /\ ahead' = ahead
  BY DEF Disturb
<1>2. wire' \in Seq(Byte) /\ ahead \in Nat
  BY <1>1, LinkAssumption DEF LinkInv
<1>3. ahead = 0
  <2>1. Len(<<>>) = 0
    OBVIOUS
  <2>2. ASSUME NEW k \in Nat, NEW o \in Nat, Framed(wire, k, o) PROVE k = 0 /\ o = 0
    <3>1. 0 = o + 8 * k
      BY <1>1, <2>1, <2>2 DEF Framed
    <3> QED
      BY <3>1
  <2>3. 0 \in Nat
    OBVIOUS
  <2>4. ASSUME Aligned PROVE ahead = 0
    BY <1>2, <2>2, <2>3, <2>4 DEF Aligned
  <2>5. ASSUME Adrift PROVE ahead = 0
    BY <1>2, <2>2, <2>5 DEF Adrift
  <2>6. ASSUME Passing PROVE FALSE
    <3>1. PICK t \in 1..7 : Framed(wire, ahead - 1, t)
      BY <2>6 DEF Passing
    <3>2. ahead - 1 \in Nat /\ t \in Nat /\ t # 0
      BY <1>2, <2>6 DEF Passing
    <3> QED
      BY <2>2, <3>1, <3>2
  <2> QED
    BY <2>4, <2>5, <2>6 DEF LinkInv
<1>4. LinkTypeOK'
  BY <1>1, <1>2 DEF LinkTypeOK, Started, Valid
<1>5. Adrift'
  <2>1. Len(wire') \in Nat /\ Len(wire') = Len(wire') + 8 * 0 /\ \A j \in 0..(0 - 1) : FALSE
    BY <1>2
  <2>2. Framed(wire', 0, Len(wire'))
    BY <2>1 DEF Framed
  <2> QED
    BY <1>1, <1>3, <2>1, <2>2 DEF Adrift
<1> QED
  BY <1>1, <1>2, <1>4, <1>5 DEF LinkInv

LEMMA EmptyAligned ==
    ASSUME wire = <<>>, buffer = <<>>, frame = <<>>, ahead = 0, missed = 0
    PROVE  LinkTypeOK /\ LinkInv
<1>1. Len(<<>>) = 0 /\ <<>> \in Seq(Byte) /\ 0 = 0 + 8 * 0 /\ \A j \in 0..(0 - 1) : FALSE
  OBVIOUS
<1>2. Framed(wire, ahead, 0)
  BY <1>1 DEF Framed
<1> QED
  BY <1>1, <1>2 DEF LinkTypeOK, LinkInv, Aligned, Started, Size

LEMMA LinkStays ==
    ASSUME LinkTypeOK, LinkInv, UNCHANGED linkVars, "noise" \in odd' <=> "noise" \in odd
    PROVE  LinkTypeOK' /\ LinkInv'
<1>1. wire' = wire /\ buffer' = buffer /\ frame' = frame /\ ahead' = ahead /\ missed' = missed
  BY DEF linkVars
<1>2. LinkTypeOK'
  BY <1>1 DEF LinkTypeOK, Started, Valid
<1>3. LinkInv'
  BY <1>1 DEF LinkInv, Aligned, Adrift, Passing
<1> QED
  BY <1>2, <1>3

LEMMA ProcessedKeeps ==
    ASSUME LinkTypeOK, LinkInv, Processed, "noise" \in odd' <=> "noise" \in odd
    PROVE  LinkTypeOK' /\ LinkInv'
<1>1. wire' = wire /\ buffer' = buffer /\ frame' = <<>> /\ ahead' = ahead /\ missed' = missed
  BY DEF Processed
<1>2. LinkTypeOK'
  BY <1>1 DEF LinkTypeOK, Started, Valid
<1>3. LinkInv'
  BY <1>1 DEF LinkInv, Aligned, Adrift, Passing
<1> QED
  BY <1>2, <1>3

LEMMA LostKeeps ==
    ASSUME LinkLost
    PROVE  LinkTypeOK' /\ LinkInv'
<1>1. wire' = <<>> /\ buffer' = <<>> /\ frame' = <<>> /\ ahead' = 0 /\ missed' = 0
  BY DEF LinkLost
<1>2. Len(<<>>) = 0 /\ <<>> \in Seq(Byte) /\ 0 = 0 + 8 * 0 /\ \A j \in 0..(0 - 1) : FALSE
  OBVIOUS
<1>3. Framed(wire', ahead', 0)
  BY <1>1, <1>2 DEF Framed
<1> QED
  BY <1>1, <1>2, <1>3 DEF LinkTypeOK, LinkInv, Aligned, Started, Size

-----------------------------------------------------------------------------
(* Types *)

\* The types without what depends on noise.
Typed ==
    /\ LinkTypeOK
    /\ isAuth \in Byte /\ idTag \in Tags
    /\ userDB \in [Slots -> [idTag : Tags, connectorID : Byte]]
    /\ reader \in [at : {"idle", "read", "look", "login"}, card : Tags, slot : Slots \cup {0}]
    /\ step \in {"enter", "check", "clear", "release", "bind"}
    /\ pending \in Seq(Slots)
    /\ tx \in [Connectors -> {NoTx} \cup [tag : Tags \cup {ServerTag}, active : BOOLEAN]]
    /\ toCims \in Seq(Message)
    /\ hmi \in [shows : BOOLEAN, connector : Byte, asks : BOOLEAN]
    /\ cable \in [Connectors -> BOOLEAN]
    /\ reader.at = "login" => reader.slot \in Slots

LEMMA Bytes ==
    /\ 0 \in Byte /\ 1 \in Byte /\ Free \in Byte /\ Connectors \subseteq Byte /\ Connectors \subseteq 1..3
    /\ IdTag \in Byte /\ ConnectorStatus \in Byte /\ HmiControlTransaction \in Byte
    /\ 1 \in Connectors /\ 1 \in Slots /\ 2 \in Slots /\ \A i \in Slots : i = 1 \/ i = 2
<1>1. Connectors \subseteq 1..3 /\ 1 \in Connectors
  BY StationAssumption
<1> QED
  BY <1>1 DEF Byte, Free, IdTag, ConnectorStatus, HmiControlTransaction, Slots

LEMMA FieldsType ==
    ASSUME LinkTypeOK, Started(frame)
    PROVE  Id(frame) \in Byte /\ Connector(frame) \in Byte /\ Data(frame) \in Byte
<1>1. frame \in Seq(Byte) /\ Len(frame) = 8
  BY DEF LinkTypeOK, Size
<1>2. \A i \in 1..8 : frame[i] \in Byte
  <2>1. \A i \in 1..Len(frame) : frame[i] \in Byte
    BY <1>1
  <2> QED
    BY Zenon, <1>1, <2>1
<1>3. 3 \in 1..8 /\ 6 \in 1..8 /\ 7 \in 1..8
  OBVIOUS
<1> QED
  BY <1>2, <1>3 DEF Id, Connector, Data

\* The least of some slots is one of them.
LEMMA LeastIs ==
    ASSUME NEW S \in SUBSET Slots, S # {}
    PROVE  Least(S) \in S /\ Least(S) \in Slots
<1>1. \A i \in S : i = 1 \/ i = 2
  BY Bytes
<1>2. \E i \in S : \A j \in S : i <= j
  <2>1. CASE 1 \in S
    BY <1>1, <2>1
  <2>2. CASE 1 \notin S
    BY <1>1, <2>2
  <2> QED
    BY <2>1, <2>2
<1>3. Least(S) \in S
  BY <1>2, Zenon DEF Least
<1> QED
  BY <1>3

LEMMA MessagesType ==
    /\ \A c \in Byte : Login(c) \in Message
    /\ \A c \in Byte, done \in BOOLEAN : Confirmation(c, done) \in Message
    /\ Remote("begin") \in Message /\ Remote("end") \in Message
BY DEF Login, Confirmation, Remote, Message

LEMMA NoUsersType == NoUsers \in [Slots -> [idTag : Tags, connectorID : Byte]]
<1>1. [idTag |-> NoTag, connectorID |-> Free] \in [idTag : Tags, connectorID : Byte]
  BY Bytes DEF Tags
<1> QED
  BY <1>1 DEF NoUsers

LEMMA InactiveType ==
    ASSUME tx \in [Connectors -> {NoTx} \cup [tag : Tags \cup {ServerTag}, active : BOOLEAN]],
           NEW c \in Connectors, Active(c)
    PROVE  Inactive(c) \in [Connectors -> {NoTx} \cup [tag : Tags \cup {ServerTag}, active : BOOLEAN]]
<1>1. tx[c] \in [tag : Tags \cup {ServerTag}, active : BOOLEAN]
  BY DEF Active
<1>2. [tx[c] EXCEPT !.active = FALSE] \in [tag : Tags \cup {ServerTag}, active : BOOLEAN]
  BY <1>1
<1> QED
  BY <1>2 DEF Inactive

LEMMA ReaderTyped ==
    ASSUME Typed, LinkInv, (\E card \in Tags : Tap(card)) \/ ReadCard
    PROVE  Typed' /\ LinkInv'
<1>1. CASE \E card \in Tags : Tap(card)
  <2>1. PICK card \in Tags : Tap(card)
    BY <1>1
  <2>2. /\ reader' = [Idle EXCEPT !.at = "read", !.card = card]
        /\ odd' = odd \cup (IF pending # <<>> THEN {"second card"} ELSE {}) \cup (IF card = NoTag THEN {"misread"} ELSE {})
        /\ UNCHANGED <<isAuth, idTag, userDB, step, pending, tx, toCims, hmi, cable, linkVars>>
    BY <2>1 DEF Tap
  <2>3. "noise" \in odd' <=> "noise" \in odd
    BY <2>2
  <2>4. LinkTypeOK' /\ LinkInv'
    BY <2>2, <2>3, LinkStays DEF Typed
  <2>5. reader' = [at |-> "read", card |-> card, slot |-> 0]
    BY <2>2 DEF Idle
  <2>6. reader' \in [at : {"idle", "read", "look", "login"}, card : Tags, slot : Slots \cup {0}] /\ reader'.at # "login"
    BY <2>5
  <2> QED
    BY <2>2, <2>4, <2>6 DEF Typed
<1>2. CASE ReadCard
  <2>1. /\ SetTag \/ AskServer \/ AddUser \/ LogIn
        /\ odd' = (IF LoggingOut THEN odd \cup {"overlap"} ELSE odd)
        /\ UNCHANGED <<step, tx, hmi, cable, linkVars, budget>>
    BY <1>2 DEF ReadCard, Odd
  <2>2. "noise" \in odd' <=> "noise" \in odd
    BY <2>1
  <2>3. LinkTypeOK' /\ LinkInv'
    BY <2>1, <2>2, LinkStays DEF Typed
  <2>4. Idle \in [at : {"idle", "read", "look", "login"}, card : Tags, slot : Slots \cup {0}] /\ Idle.at # "login"
    BY DEF Idle, Tags
  <2>5. step' \in {"enter", "check", "clear", "release", "bind"} /\ UNCHANGED <<tx, hmi, cable>>
    BY <2>1 DEF Typed
  <2>6. CASE SetTag
    <3>2. idTag' \in Tags /\ reader'.at = "look"
          /\ reader' \in [at : {"idle", "read", "look", "login"}, card : Tags, slot : Slots \cup {0}]
      BY <2>6 DEF SetTag, Typed
    <3>1. idTag' = reader.card /\ reader' = [reader EXCEPT !.at = "look"] /\ UNCHANGED <<isAuth, userDB, pending, toCims>>
      BY <2>6 DEF SetTag
    <3> QED
      BY <2>3, <2>5, <3>1, <3>2 DEF Typed
  <2>7. CASE AskServer
    <3>1. /\ Known(idTag) # {} /\ pending' = Append(pending, Least(Known(idTag))) /\ reader' = Idle
          /\ UNCHANGED <<isAuth, idTag, userDB, toCims>>
      BY <2>7 DEF AskServer
    <3>2. Known(idTag) \in SUBSET Slots
      BY DEF Known
    <3>3. Least(Known(idTag)) \in Slots
      BY <3>1, <3>2, LeastIs
    <3>4. pending' \in Seq(Slots)
      BY <3>1, <3>3, AppendProperties DEF Typed
    <3> QED
      BY <2>3, <2>4, <2>5, <3>1, <3>4 DEF Typed
  <2>8. CASE AddUser
    <3> DEFINE i == IF userDB[1].connectorID = Free THEN 1 ELSE 2
    <3>1. /\ userDB' = [userDB EXCEPT ![i].idTag = idTag] /\ reader' = [reader EXCEPT !.at = "login", !.slot = i]
          /\ UNCHANGED <<isAuth, idTag, pending, toCims>>
      BY Zenon, <2>8 DEF AddUser
    <3>2. i \in Slots
      BY Bytes
    <3> HIDE DEF i
    <3>3. userDB' \in [Slots -> [idTag : Tags, connectorID : Byte]]
      BY <3>1, <3>2 DEF Typed
    <3>4. reader' \in [at : {"idle", "read", "look", "login"}, card : Tags, slot : Slots \cup {0}] /\ reader'.slot \in Slots
      BY <3>1, <3>2 DEF Typed
    <3> QED
      BY <2>3, <2>5, <3>1, <3>3, <3>4 DEF Typed
  <2>9. CASE LogIn
    <3>1. /\ reader.at = "login" /\ isAuth' = 1 /\ toCims' = Append(toCims, Login(Shown(reader.slot))) /\ reader' = Idle
          /\ UNCHANGED <<idTag, userDB, pending>>
      BY <2>9 DEF LogIn
    <3>2. Shown(reader.slot) \in Byte
      BY <3>1 DEF Typed, Shown
    <3>3. toCims' \in Seq(Message)
      BY <3>1, <3>2, MessagesType, AppendProperties DEF Typed
    <3> QED
      BY <2>3, <2>4, <2>5, <3>1, <3>3, Bytes DEF Typed
  <2> QED
    BY <2>1, <2>6, <2>7, <2>8, <2>9
<1> QED
  BY <1>1, <1>2

LEMMA LibraryTyped ==
    ASSUME Typed, LinkInv, Authorized \/ Library \/ \E c \in Connectors : RemoteControl(c)
    PROVE  Typed' /\ LinkInv'
<1>1. CASE Authorized
  <2>1. /\ pending # <<>> /\ pending' = Tail(pending) /\ odd' = (IF LoggingOut THEN odd \cup {"overlap"} ELSE odd)
        /\ \/ isAuth' = 0 /\ UNCHANGED toCims
           \/ UNCHANGED <<isAuth, toCims>>
           \/ isAuth' = 1 /\ toCims' = Append(toCims, Login(Shown(Head(pending))))
        /\ UNCHANGED <<idTag, userDB, reader, step, tx, hmi, cable, linkVars>>
    BY <1>1 DEF Authorized, Odd
  <2>2. "noise" \in odd' <=> "noise" \in odd
    BY <2>1
  <2>3. LinkTypeOK' /\ LinkInv'
    BY <2>1, <2>2, LinkStays DEF Typed
  <2>4. Head(pending) \in Slots /\ pending' \in Seq(Slots)
    BY <2>1, HeadTailProperties DEF Typed
  <2>5. Shown(Head(pending)) \in Byte
    BY <2>4 DEF Typed, Shown
  <2>6. isAuth' \in Byte /\ toCims' \in Seq(Message)
    <3>1. Append(toCims, Login(Shown(Head(pending)))) \in Seq(Message)
      BY <2>5, MessagesType, AppendProperties DEF Typed
    <3> QED
      BY <2>1, <3>1, Bytes DEF Typed
  <2> QED
    BY <2>1, <2>3, <2>4, <2>6 DEF Typed
<1>2. CASE Library
  <2>1. PICK c \in Connectors : GivesUp(c) \/ Leaves(c)
    BY <1>2 DEF Library
  <2>2. UNCHANGED <<isAuth, idTag, userDB, reader, step, pending, toCims, hmi, cable, odd, linkVars>>
    BY <1>2 DEF Library
  <2>3. LinkTypeOK' /\ LinkInv'
    BY <2>2, LinkStays DEF Typed
  <2>4. tx' \in [Connectors -> {NoTx} \cup [tag : Tags \cup {ServerTag}, active : BOOLEAN]]
    <3>1. CASE GivesUp(c)
      BY <3>1, InactiveType DEF GivesUp, Typed
    <3>2. CASE Leaves(c)
      BY <3>2 DEF Leaves, Typed
    <3> QED
      BY <2>1, <3>1, <3>2
  <2> QED
    BY <2>2, <2>3, <2>4 DEF Typed
<1>3. CASE \E c \in Connectors : RemoteControl(c)
  <2>1. PICK c \in Connectors : RemoteControl(c)
    BY <1>3
  <2>2. /\ \/ tx[c] = NoTx /\ tx' = [tx EXCEPT ![c] = [tag |-> ServerTag, active |-> TRUE]]
              /\ toCims' = Append(toCims, Remote("begin"))
           \/ Active(c) /\ tx' = Inactive(c) /\ toCims' = Append(toCims, Remote("end"))
        /\ odd' = odd \cup {"remote"}
        /\ UNCHANGED <<isAuth, idTag, userDB, reader, step, pending, hmi, cable, linkVars>>
    BY <2>1 DEF RemoteControl, Odd
  <2>3. "noise" \in odd' <=> "noise" \in odd
    BY <2>2
  <2>4. LinkTypeOK' /\ LinkInv'
    BY <2>2, <2>3, LinkStays DEF Typed
  <2>5. tx' \in [Connectors -> {NoTx} \cup [tag : Tags \cup {ServerTag}, active : BOOLEAN]]
    <3>1. CASE tx' = [tx EXCEPT ![c] = [tag |-> ServerTag, active |-> TRUE]]
      BY <3>1 DEF Typed
    <3>2. CASE Active(c) /\ tx' = Inactive(c)
      BY <3>2, InactiveType DEF Typed
    <3> QED
      BY <2>2, <3>1, <3>2
  <2>6. toCims' \in Seq(Message)
    <3>1. \A m \in Message : Append(toCims, m) \in Seq(Message)
      BY AppendProperties DEF Typed
    <3> QED
      BY <2>2, <3>1, MessagesType
  <2> QED
    BY <2>2, <2>4, <2>5, <2>6 DEF Typed
<1> QED
  BY <1>1, <1>2, <1>3

LEMMA ProcessTyped ==
    ASSUME Typed, LinkInv, Process
    PROVE  Typed' /\ LinkInv'
<1>1. /\ LogOut \/ ClearTag \/ ClearAuth \/ Release \/ Plugged \/ Bind \/ Control \/ Other
      /\ odd' = (IF LoggingOut /\ reader.at # "idle" THEN odd \cup {"overlap"} ELSE odd)
      /\ UNCHANGED <<reader, pending, hmi, cable>>
  BY DEF Process, Odd
<1>2. "noise" \in odd' <=> "noise" \in odd
  BY <1>1
<1>3. ASSUME Done PROVE LinkTypeOK' /\ LinkInv' /\ step' = "enter"
  BY <1>2, <1>3, ProcessedKeeps DEF Done, Typed
<1>4. ASSUME NEW at, Proceed(at) PROVE LinkTypeOK' /\ LinkInv' /\ step' = at
  BY <1>2, <1>4, LinkStays DEF Proceed, Typed
<1> DEFINE Others == /\ isAuth' \in Byte /\ idTag' \in Tags
                     /\ userDB' \in [Slots -> [idTag : Tags, connectorID : Byte]]
                     /\ tx' \in [Connectors -> {NoTx} \cup [tag : Tags \cup {ServerTag}, active : BOOLEAN]]
                     /\ toCims' \in Seq(Message)
<1>5. CASE LogOut
  <2>1. Started(frame) /\ isAuth' = Data(frame) /\ Proceed("check") /\ UNCHANGED <<idTag, userDB, tx, toCims>>
    BY <1>5 DEF LogOut, Is
  <2>2. isAuth' \in Byte
    BY <2>1, FieldsType DEF Typed
  <2>3. LinkTypeOK' /\ LinkInv' /\ step' = "check"
    BY <1>4, <2>1
  <2> QED
    BY <1>1, <2>1, <2>2, <2>3 DEF Typed
<1>6. CASE ClearTag
  <2>1. /\ idTag' \in Tags /\ UNCHANGED <<isAuth, userDB, tx, toCims>>
        /\ Proceed("clear") \/ Done
    BY <1>6 DEF ClearTag, Tags, Typed
  <2>2. LinkTypeOK' /\ LinkInv' /\ step' \in {"enter", "clear"}
    BY <1>3, <1>4, <2>1
  <2> QED
    BY <1>1, <2>1, <2>2 DEF Typed
<1>7. CASE ClearAuth
  <2>1. isAuth' = 0 /\ Proceed("release") /\ UNCHANGED <<idTag, userDB, tx, toCims>>
    BY <1>7 DEF ClearAuth
  <2>2. LinkTypeOK' /\ LinkInv' /\ step' = "release"
    BY <1>4, <2>1
  <2> QED
    BY <1>1, <2>1, <2>2, Bytes DEF Typed
<1>8. CASE Release
  <2> DEFINE S == OfConnector(Connector(frame))
  <2>1. /\ userDB' = IF MayForget(Connector(frame)) /\ S # {}
                     THEN [userDB EXCEPT ![Least(S)] = [idTag |-> NoTag, connectorID |-> Free]] ELSE userDB
        /\ Done /\ UNCHANGED <<isAuth, idTag, tx, toCims>>
    BY Zenon, <1>8 DEF Release
  <2>2. S \in SUBSET Slots
    BY DEF OfConnector
  <2> HIDE DEF S
  <2>3. S # {} => Least(S) \in Slots
    BY <2>2, LeastIs
  <2>4. userDB' \in [Slots -> [idTag : Tags, connectorID : Byte]]
    <3>1. [idTag |-> NoTag, connectorID |-> Free] \in [idTag : Tags, connectorID : Byte]
      BY Bytes DEF Tags
    <3> QED
      BY <2>1, <2>3, <3>1 DEF Typed
  <2>5. LinkTypeOK' /\ LinkInv' /\ step' = "enter"
    BY <1>3, <2>1
  <2> QED
    BY <1>1, <2>1, <2>4, <2>5 DEF Typed
<1>9. CASE Plugged
  <2>1. Proceed("bind") \/ Done
    BY <1>9 DEF Plugged
  <2>2. UNCHANGED <<isAuth, idTag, userDB, tx, toCims>>
    BY <1>9 DEF Plugged
  <2>3. LinkTypeOK' /\ LinkInv' /\ step' \in {"enter", "bind"}
    BY <1>3, <1>4, <2>1
  <2> QED
    BY <1>1, <2>2, <2>3 DEF Typed
<1>10. CASE Bind
  <2> DEFINE S == Known(idTag)
  <2>1. /\ Started(frame) /\ Done /\ UNCHANGED <<isAuth, idTag, tx, toCims>>
        /\ userDB' = IF S = {} THEN userDB ELSE [userDB EXCEPT ![Least(S)].connectorID = Connector(frame)]
    BY Zenon, <1>10 DEF Bind, Is
  <2>2. S \in SUBSET Slots
    BY DEF Known
  <2> HIDE DEF S
  <2>3. S # {} => Least(S) \in Slots
    BY <2>2, LeastIs
  <2>4. Connector(frame) \in Byte
    BY <2>1, FieldsType DEF Typed
  <2>5. userDB' \in [Slots -> [idTag : Tags, connectorID : Byte]]
    BY <2>1, <2>3, <2>4 DEF Typed
  <2>6. LinkTypeOK' /\ LinkInv' /\ step' = "enter"
    BY <1>3, <2>1
  <2> QED
    BY <1>1, <2>1, <2>5, <2>6 DEF Typed
<1>11. CASE Control
  <2> DEFINE c == Connector(frame)
             Sent == Append(toCims, Confirmation(c, TRUE))
  <2>1. /\ Started(frame) /\ Done /\ UNCHANGED <<isAuth, idTag, userDB>>
        /\ End(c) \/ Begin(c, TRUE) \/ Begin(c, FALSE)
    BY <1>11 DEF Control, Is
  <2>2. c \in Byte
    BY <2>1, FieldsType DEF Typed
  <2>3. \A ok \in BOOLEAN : Append(toCims, Confirmation(c, ok)) \in Seq(Message)
    BY <2>2, MessagesType, AppendProperties DEF Typed
  <2>4. LinkTypeOK' /\ LinkInv' /\ step' = "enter"
    BY <1>3, <2>1
  <2>5. CASE End(c)
    <3>1. toCims' = Append(toCims, Confirmation(c, tx[c] # NoTx))
      BY <2>5 DEF End
    <3>2. toCims' \in Seq(Message)
      BY <2>3, <3>1
    <3>3. tx' \in [Connectors -> {NoTx} \cup [tag : Tags \cup {ServerTag}, active : BOOLEAN]]
      <4>1. tx' = IF Active(c) /\ Matches(idTag) THEN Inactive(c) ELSE tx
        BY <2>5 DEF End
      <4>2. CASE c \in Connectors
        <5> HIDE DEF c
        <5> QED
          BY <4>1, <4>2, InactiveType DEF Typed
      <4>3. CASE c \notin Connectors
        <5> HIDE DEF c
        <5>1. [tx EXCEPT ![c] = [@ EXCEPT !.active = FALSE]] = tx
          BY <4>3 DEF Typed
        <5> QED
          BY <4>1, <5>1 DEF Inactive, Typed
      <4> QED
        BY <4>2, <4>3
    <3> QED
      BY <1>1, <2>1, <2>4, <3>2, <3>3 DEF Typed
  <2>6. ASSUME NEW ok \in BOOLEAN, Begin(c, ok) PROVE Typed' /\ LinkInv'
    <3>1. toCims' \in Seq(Message)
      BY <2>3, <2>6 DEF Begin, Typed
    <3>2. tx' = tx \/ tx' = [tx EXCEPT ![c] = [tag |-> idTag, active |-> TRUE]]
      BY <2>6 DEF Begin
    <3>3. tx' \in [Connectors -> {NoTx} \cup [tag : Tags \cup {ServerTag}, active : BOOLEAN]]
      <4> DEFINE v == [tag |-> idTag, active |-> TRUE]
                 V == {NoTx} \cup [tag : Tags \cup {ServerTag}, active : BOOLEAN]
      <4>1. v \in V /\ tx \in [Connectors -> V]
        BY DEF Typed
      <4> HIDE DEF c, v, V
      <4>2. [tx EXCEPT ![c] = v] \in [Connectors -> V]
        BY <4>1
      <4>3. tx' = tx \/ tx' = [tx EXCEPT ![c] = v]
        BY <3>2 DEF v
      <4> QED
        BY <4>1, <4>2, <4>3 DEF V
    <3> QED
      BY <1>1, <2>1, <2>4, <3>1, <3>3 DEF Typed
  <2> QED
    BY <2>1, <2>5, <2>6
<1>12. CASE Other
  <2>1. Done /\ UNCHANGED <<isAuth, idTag, userDB, tx, toCims>>
    BY <1>12 DEF Other
  <2>2. LinkTypeOK' /\ LinkInv' /\ step' = "enter"
    BY <1>3, <2>1
  <2> QED
    BY <1>1, <2>1, <2>2 DEF Typed
<1> QED
  BY <1>1, <1>5, <1>6, <1>7, <1>8, <1>9, <1>10, <1>11, <1>12

\* A request on the line.
LEMMA RequestSent ==
    ASSUME Typed, LinkInv, NEW id \in Byte, NEW c \in Byte, NEW data \in Byte,
           SendRequest(Request(id, c, data)), odd' = odd \/ odd' = odd \cup {"early"}
    PROVE  LinkTypeOK' /\ LinkInv'
<1> DEFINE f == Request(id, c, data)
<1>1. f \in Seq(Byte) /\ Len(f) = 8 /\ Chunk(f, 0) = f /\ (~Misleading(f) => GoodAt(f, 0))
  BY RequestIs
<1>2. Send(f)
  BY DEF SendRequest
<1> HIDE DEF f
<1> QED
  BY <1>1, <1>2, SendKeeps DEF Typed

LEMMA BoardTyped ==
    ASSUME Typed, LinkInv, Board
    PROVE  Typed' /\ LinkInv'
<1>1. UNCHANGED <<isAuth, idTag, userDB, reader, step, pending, tx>>
  BY DEF Board
<1> DEFINE Rest == LinkTypeOK' /\ LinkInv' /\ toCims' \in Seq(Message)
                   /\ hmi' \in [shows : BOOLEAN, connector : Byte, asks : BOOLEAN] /\ cable' \in [Connectors -> BOOLEAN]
<1>2. ASSUME DisplayHears PROVE Rest
  <2>1. /\ toCims # <<>> /\ toCims' = Tail(toCims)
        /\ hmi' = CASE Head(toCims).id = "login" -> [shows |-> TRUE, connector |-> Head(toCims).connector, asks |-> FALSE]
                    [] Head(toCims).id = "confirmation" -> [hmi EXCEPT !.asks = FALSE]
                    [] OTHER -> hmi
        /\ UNCHANGED <<cable, odd, linkVars>>
    BY Zenon, <1>2 DEF DisplayHears
  <2>2. Head(toCims) \in Message /\ toCims' \in Seq(Message)
    BY <2>1, HeadTailProperties DEF Typed
  <2>3. Head(toCims).id = "login" => Head(toCims).connector \in Byte
    BY <2>2 DEF Message
  <2>4. hmi' \in [shows : BOOLEAN, connector : Byte, asks : BOOLEAN]
    BY <2>1, <2>3 DEF Typed
  <2> QED
    BY <2>1, <2>2, <2>4, LinkStays DEF Typed
<1>3. ASSUME DisplayLogsOut PROVE Rest
  <2>1. /\ SendRequest(Request(IdTag, hmi.connector, 0)) /\ hmi' = [hmi EXCEPT !.shows = FALSE]
        /\ UNCHANGED <<cable, odd, toCims>>
    BY <1>3 DEF DisplayLogsOut
  <2>2. LinkTypeOK' /\ LinkInv'
    BY <2>1, RequestSent, Bytes DEF Typed
  <2> QED
    BY <2>1, <2>2 DEF Typed
<1>4. ASSUME DisplayAsks PROVE Rest
  <2>1. PICK data \in {0, 1} : SendRequest(Request(HmiControlTransaction, hmi.connector, data))
    BY <1>4 DEF DisplayAsks
  <2>2. hmi' = [hmi EXCEPT !.asks = TRUE] /\ UNCHANGED <<cable, odd, toCims>>
    BY <1>4 DEF DisplayAsks
  <2>3. data \in Byte /\ hmi.connector \in Byte
    BY Bytes DEF Typed
  <2>4. LinkTypeOK' /\ LinkInv'
    BY <2>1, <2>2, <2>3, RequestSent, Bytes
  <2> QED
    BY <2>2, <2>4 DEF Typed
<1>5. ASSUME Noisy PROVE Rest
  <2>1. Disturb /\ odd' = odd \cup {"noise"} /\ UNCHANGED <<hmi, cable, toCims>>
    BY <1>5 DEF Noisy, Odd
  <2>2. LinkTypeOK' /\ LinkInv'
    BY <2>1, DisturbKeeps DEF Typed
  <2> QED
    BY <2>1, <2>2 DEF Typed
<1>6. ASSUME NEW c \in Connectors, PlugIn(c) PROVE Rest
  <2>1. /\ SendRequest(Request(ConnectorStatus, c, 1))
        /\ cable' = [cable EXCEPT ![c] = TRUE] /\ hmi' = [hmi EXCEPT !.connector = c]
        /\ UNCHANGED <<odd, toCims>>
    BY <1>6 DEF PlugIn
  <2>2. c \in Byte
    BY Bytes
  <2>3. LinkTypeOK' /\ LinkInv'
    BY <2>1, <2>2, RequestSent, Bytes
  <2> QED
    BY <2>1, <2>2, <2>3 DEF Typed
<1>7. ASSUME NEW c \in Connectors, PlugInEarly(c) PROVE Rest
  <2>1. /\ SendRequest(Request(ConnectorStatus, c, 1))
        /\ cable' = [cable EXCEPT ![c] = TRUE] /\ odd' = odd \cup {"early"} /\ UNCHANGED <<hmi, toCims>>
    BY <1>7 DEF PlugInEarly, Odd
  <2>2. c \in Byte
    BY Bytes
  <2>3. LinkTypeOK' /\ LinkInv'
    BY <2>1, <2>2, RequestSent, Bytes
  <2> QED
    BY <2>1, <2>3 DEF Typed
<1>8. ASSUME NEW c \in Connectors, Unplug(c) PROVE Rest
  <2>1. /\ SendRequest(Request(ConnectorStatus, c, 0))
        /\ cable' = [cable EXCEPT ![c] = FALSE] /\ UNCHANGED <<hmi, odd, toCims>>
    BY <1>8 DEF Unplug
  <2>2. c \in Byte
    BY Bytes
  <2>3. LinkTypeOK' /\ LinkInv'
    BY <2>1, <2>2, RequestSent, Bytes
  <2> QED
    BY <2>1, <2>3 DEF Typed
<1>9. Rest
  BY <1>2, <1>3, <1>4, <1>5, <1>6, <1>7, <1>8 DEF Board
<1> QED
  BY <1>1, <1>9 DEF Typed

LEMMA RestartTyped ==
    ASSUME Typed, Restart
    PROVE  Typed' /\ LinkInv'
<1>1. /\ isAuth' = 0 /\ idTag' = NoTag /\ userDB' = NoUsers
      /\ reader' = Idle /\ step' = "enter" /\ pending' = <<>> /\ toCims' = <<>>
      /\ LinkLost /\ UNCHANGED <<tx, hmi, cable>>
  BY DEF Restart
<1>2. LinkTypeOK' /\ LinkInv'
  BY <1>1, LostKeeps
<1>3. reader' \in [at : {"idle", "read", "look", "login"}, card : Tags, slot : Slots \cup {0}] /\ reader'.at # "login"
  BY <1>1 DEF Idle, Tags
<1>4. idTag' \in Tags /\ pending' \in Seq(Slots) /\ toCims' \in Seq(Message)
  BY <1>1 DEF Tags
<1>5. userDB' \in [Slots -> [idTag : Tags, connectorID : Byte]]
  BY <1>1, NoUsersType
<1> QED
  BY <1>1, <1>2, <1>3, <1>4, <1>5, Bytes DEF Typed

LEMMA TypedInit == Init => Typed /\ LinkInv
<1> SUFFICES ASSUME Init PROVE Typed /\ LinkInv
  OBVIOUS
<1>1. LinkTypeOK /\ LinkInv
  BY EmptyAligned DEF Init, LinkInit
<1>2. reader \in [at : {"idle", "read", "look", "login"}, card : Tags, slot : Slots \cup {0}] /\ reader.at # "login"
  BY DEF Init, Idle, Tags
<1>3. userDB \in [Slots -> [idTag : Tags, connectorID : Byte]]
  BY NoUsersType DEF Init
<1>4. idTag \in Tags /\ pending \in Seq(Slots) /\ toCims \in Seq(Message)
  BY DEF Init, Tags
<1>5. hmi \in [shows : BOOLEAN, connector : Byte, asks : BOOLEAN]
  BY Bytes DEF Init
<1> QED
  BY <1>1, <1>2, <1>3, <1>4, <1>5, Bytes DEF Init, Typed

LEMMA TypedNext == Typed /\ LinkInv /\ [Next]_vars => Typed' /\ LinkInv'
<1> SUFFICES ASSUME Typed, LinkInv, [Next]_vars PROVE Typed' /\ LinkInv'
  OBVIOUS
<1>1. CASE ReadBytes
  <2>1. Read /\ UNCHANGED <<isAuth, idTag, userDB, reader, step, pending, tx, toCims, hmi, cable, odd>>
    BY <1>1 DEF ReadBytes, rest
  <2>2. LinkTypeOK' /\ LinkInv'
    BY <2>1, ReadType, ReadKeeps DEF Typed
  <2> QED
    BY <2>1, <2>2 DEF Typed
<1>2. CASE Reboot \/ Crash
  BY <1>2, RestartTyped DEF Reboot, Crash
<1>3. CASE UNCHANGED vars
  <2>1. /\ UNCHANGED <<isAuth, idTag, userDB, reader, step, pending, tx, toCims, hmi, cable, odd>>
        /\ UNCHANGED linkVars
    BY <1>3 DEF vars, rest
  <2>2. LinkTypeOK' /\ LinkInv'
    BY <2>1, LinkStays DEF Typed
  <2> QED
    BY <2>1, <2>2 DEF Typed
<1> QED
  BY <1>1, <1>2, <1>3, ReaderTyped, LibraryTyped, ProcessTyped, BoardTyped DEF Next

\* Wherever bytes are lost, the parser is in step again after one frame, and it misses none as long as
\* nothing is lost.
\* (CIMS_handle)
THEOREM LinkHolds == Spec => []Resync
<1>1. Typed /\ LinkInv => Resync
  BY DEF LinkInv, Resync
<1> QED
  BY <1>1, TypedInit, TypedNext, PTL DEF Spec

-----------------------------------------------------------------------------
(* The requests on their way: that of the frame that is processed, and those of the whole frames    *)
(* that wait, in their order.  Without noise nothing else is on the line.                           *)

Count == (IF Started(frame) THEN 1 ELSE 0) + ahead
Requests == [i \in 1..Count |-> IF ~Started(frame) THEN Chunk(wire, 8 * (i - 1))
                                ELSE IF i = 1 THEN frame ELSE Chunk(wire, 8 * (i - 2))]

LEMMA CountIs ==
    ASSUME LinkInv
    PROVE  /\ Count \in Nat /\ ahead \in Nat
           /\ Started(frame) => Count = ahead + 1 /\ 1 \in 1..Count /\ Requests[1] = frame
           /\ ~Started(frame) => Count = ahead
<1>1. ahead \in Nat
  BY DEF LinkInv
<1>2. Started(frame) => Count = ahead + 1
  BY <1>1 DEF Count
<1>3. ~Started(frame) => Count = ahead
  BY <1>1 DEF Count
<1>4. Count \in Nat
  BY <1>1, <1>2, <1>3
<1>5. Started(frame) => 1 \in 1..Count
  BY <1>1, <1>2
<1>6. ASSUME Started(frame) PROVE Requests[1] = frame
  BY <1>5, <1>6, Zenon DEF Requests
<1> QED
  BY <1>1, <1>2, <1>3, <1>4, <1>5, <1>6

LEMMA RequestsStay ==
    ASSUME UNCHANGED linkVars
    PROVE  Count' = Count /\ Requests' = Requests /\ frame' = frame
BY Zenon DEF linkVars, Count, Requests

\* A read takes the first of those that wait.
LEMMA RequestsRead ==
    ASSUME Typed, LinkInv, ReadBytes, "noise" \notin odd
    PROVE  Count' = Count /\ Requests' = Requests /\ frame = <<>> /\ Started(frame')
<1>1. Read /\ UNCHANGED odd /\ frame = <<>> /\ ~Started(frame)
  BY DEF ReadBytes, rest, Read, Started
<1>2. /\ Aligned /\ ahead > 0 /\ ahead' = ahead - 1
      /\ frame' = Chunk(wire, 0) /\ wire' = SubSeq(wire, 9, Len(wire))
  BY <1>1, ReadKeeps DEF Typed
<1>3. ahead \in Nat /\ wire \in Seq(Byte) /\ Len(wire) = 8 * ahead
  BY <1>2 DEF LinkInv, Typed, LinkTypeOK, Aligned, Framed
<1>4. Started(frame')
  <2>1. DOMAIN Chunk(wire, 0) = 1..8
    BY DEF Chunk, Size
  <2>2. DOMAIN <<>> = 1..0 /\ 1 \in 1..8 /\ 1 \notin 1..0
    OBVIOUS
  <2> QED
    BY <1>2, <2>1, <2>2 DEF Started
<1>5. Count = ahead /\ Count' = ahead
  <2>1. Count = 0 + ahead
    BY <1>1 DEF Count
  <2>2. Count' = 1 + ahead'
    BY <1>4 DEF Count
  <2> QED
    BY <1>2, <1>3, <2>1, <2>2
<1>6. ASSUME NEW i \in 1..ahead
      PROVE  (IF i = 1 THEN frame' ELSE Chunk(wire', 8 * (i - 2))) = Chunk(wire, 8 * (i - 1))
  <2>1. CASE i = 1
    <3>1. 8 * (i - 1) = 0
      BY <2>1
    <3> QED
      BY <1>2, <2>1, <3>1
  <2>2. CASE i # 1
    <3> DEFINE n == Len(wire)
               r == SubSeq(wire, 8 + 1, n)
    <3>1. 8 \in 0..n /\ n - 8 = 8 * (ahead - 1)
      BY <1>2, <1>3
    <3>2. \A j \in 1..(n - 8) : r[j] = wire[8 + j]
      BY <1>3, <3>1, RestIs
    <3>3. wire' = r
      BY <1>2
    <3> HIDE DEF n, r
    <3>4. ASSUME NEW k \in 1..8 PROVE r[8 * (i - 2) + k] = wire[8 * (i - 1) + k]
      <4>1. 8 * (i - 2) + k \in 1..(n - 8) /\ 8 + (8 * (i - 2) + k) = 8 * (i - 1) + k
        BY <1>3, <2>2, <3>1
      <4> QED
        BY <3>2, <4>1
    <3>5. [k \in 1..8 |-> r[8 * (i - 2) + k]] = [k \in 1..8 |-> wire[8 * (i - 1) + k]]
      BY <3>4
    <3> QED
      BY <2>2, <3>3, <3>5 DEF Chunk, Size
  <2> QED
    BY <2>1, <2>2
<1>7. Requests = [i \in 1..ahead |-> Chunk(wire, 8 * (i - 1))]
  BY <1>1, <1>5, Zenon DEF Requests
<1>8. Requests' = [i \in 1..ahead |-> IF i = 1 THEN frame' ELSE Chunk(wire', 8 * (i - 2))]
  BY <1>4, <1>5, Zenon DEF Requests
<1>9. Requests' = Requests
  BY <1>6, <1>7, <1>8
<1> QED
  BY <1>1, <1>4, <1>5, <1>9

\* The frame is done with.
LEMMA RequestsDone ==
    ASSUME LinkInv, Processed, Started(frame)
    PROVE  /\ Count = Count' + 1 /\ Count' \in Nat /\ ~Started(frame')
           /\ \A i \in 1..Count' : i + 1 \in 1..Count /\ Requests'[i] = Requests[i + 1]
<1>1. ahead \in Nat /\ ahead' = ahead /\ wire' = wire /\ ~Started(frame')
  BY DEF LinkInv, Processed, Started
<1>2. Count = ahead + 1 /\ Count' = ahead
  BY <1>1 DEF Count
<1>3. Requests = [i \in 1..(ahead + 1) |-> IF i = 1 THEN frame ELSE Chunk(wire, 8 * (i - 2))]
  BY <1>2, Zenon DEF Requests
<1>4. Requests' = [i \in 1..ahead |-> Chunk(wire, 8 * (i - 1))]
  BY <1>1, <1>2, Zenon DEF Requests
<1>5. ASSUME NEW i \in 1..ahead PROVE Requests'[i] = Requests[i + 1]
  <2>1. i + 1 \in 1..(ahead + 1) /\ i + 1 # 1 /\ (i + 1) - 2 = i - 1
    BY <1>1
  <2>2. Requests[i + 1] = Chunk(wire, 8 * ((i + 1) - 2))
    BY <1>3, <2>1, Zenon
  <2>3. Requests'[i] = Chunk(wire, 8 * (i - 1))
    BY <1>4, Zenon
  <2> QED
    BY <2>1, <2>2, <2>3, Zenon
<1>6. \A i \in 1..ahead : i + 1 \in 1..(ahead + 1)
  BY <1>1
<1> QED
  BY <1>1, <1>2, <1>5, <1>6

\* One more is sent.
LEMMA RequestsSent ==
    ASSUME Typed, LinkInv, "noise" \notin odd,
           NEW id \in Byte, NEW c \in Byte, NEW data \in Byte, NEW f, f = Request(id, c, data),
           SendRequest(f), odd' = odd \/ odd' = odd \cup {"early"}
    PROVE  /\ Count' = Count + 1 /\ frame' = frame /\ Requests'[Count + 1] = f
           /\ \A i \in 1..Count : Requests'[i] = Requests[i]
<1>1. f \in Seq(Byte) /\ Len(f) = 8 /\ Chunk(f, 0) = f /\ (~Misleading(f) => GoodAt(f, 0))
  BY RequestIs
<1>2. Send(f)
  BY DEF SendRequest
<1>3. /\ ahead' = ahead + 1 /\ frame' = frame /\ Chunk(wire', 8 * ahead) = f
      /\ \A j \in 0..(ahead - 1) : Chunk(wire', 8 * j) = Chunk(wire, 8 * j)
  BY <1>1, <1>2, SendKeeps DEF Typed
<1>4. ahead \in Nat
  BY DEF LinkInv
<1>5. CASE Started(frame)
  <2>1. Count = ahead + 1 /\ Count' = ahead + 2
    BY <1>3, <1>4, <1>5 DEF Count
  <2>2. Requests = [i \in 1..(ahead + 1) |-> IF i = 1 THEN frame ELSE Chunk(wire, 8 * (i - 2))]
    BY <1>5, <2>1, Zenon DEF Requests
  <2>3. Requests' = [i \in 1..(ahead + 2) |-> IF i = 1 THEN frame ELSE Chunk(wire', 8 * (i - 2))]
    BY <1>3, <1>5, <2>1, Zenon DEF Requests
  <2>4. Requests'[ahead + 2] = f
    <3>1. ahead + 2 \in 1..(ahead + 2) /\ ahead + 2 # 1 /\ (ahead + 2) - 2 = ahead
      BY <1>4
    <3> QED
      BY <1>3, <2>3, <3>1, Zenon
  <2>5. ASSUME NEW i \in 1..(ahead + 1) PROVE Requests'[i] = Requests[i]
    <3>1. i \in 1..(ahead + 2) /\ (i # 1 => i - 2 \in 0..(ahead - 1))
      BY <1>4
    <3>2. Requests'[i] = IF i = 1 THEN frame ELSE Chunk(wire', 8 * (i - 2))
      BY <2>3, <3>1, Zenon
    <3>3. Requests[i] = IF i = 1 THEN frame ELSE Chunk(wire, 8 * (i - 2))
      BY <2>2, Zenon
    <3>4. i # 1 => Chunk(wire', 8 * (i - 2)) = Chunk(wire, 8 * (i - 2))
      BY <1>3, <3>1, Zenon
    <3>5. CASE i = 1
      BY <3>2, <3>3, <3>5, Zenon
    <3>6. CASE i # 1
      BY <3>2, <3>3, <3>4, <3>6, Zenon
    <3> QED
      BY <3>5, <3>6
  <2>6. (ahead + 1) + 1 = ahead + 2
    BY <1>4
  <2> QED
    BY <1>3, <2>1, <2>4, <2>5, <2>6, Zenon
<1>6. CASE ~Started(frame)
  <2>1. Count = ahead /\ Count' = ahead + 1
    BY <1>3, <1>4, <1>6 DEF Count
  <2>2. Requests = [i \in 1..ahead |-> Chunk(wire, 8 * (i - 1))]
    BY <1>6, <2>1, Zenon DEF Requests
  <2>3. Requests' = [i \in 1..(ahead + 1) |-> Chunk(wire', 8 * (i - 1))]
    BY <1>3, <1>6, <2>1, Zenon DEF Requests
  <2>4. Requests'[ahead + 1] = f
    <3>1. ahead + 1 \in 1..(ahead + 1) /\ (ahead + 1) - 1 = ahead
      BY <1>4
    <3> QED
      BY <1>3, <2>3, <3>1, Zenon
  <2>5. ASSUME NEW i \in 1..ahead PROVE Requests'[i] = Requests[i]
    <3>1. i \in 1..(ahead + 1) /\ i - 1 \in 0..(ahead - 1)
      BY <1>4
    <3>2. Requests'[i] = Chunk(wire', 8 * (i - 1))
      BY <2>3, <3>1, Zenon
    <3>3. Requests[i] = Chunk(wire, 8 * (i - 1))
      BY <2>2, Zenon
    <3> QED
      BY <1>3, <3>1, <3>2, <3>3, Zenon
  <2> QED
    BY <1>3, <2>1, <2>4, <2>5, Zenon
<1> QED
  BY <1>5, <1>6

-----------------------------------------------------------------------------
(* What the board and the station say to each other *)

ConnectorOrFree == Connectors \cup {Free}
BoardFrames ==
    {Request(IdTag, c, 0) : c \in ConnectorOrFree}
    \cup {Request(id, c, data) : id \in {ConnectorStatus, HmiControlTransaction}, c \in Connectors, data \in {0, 1}}

\* What a session sends: a plug, what it asks for, and a logout.
IsLogout(f) == Id(f) = IdTag
IsPlug(f) == Id(f) = ConnectorStatus /\ Data(f) # 0
IsAsk(f) == Id(f) = HmiControlTransaction
OfSession(f) == IsLogout(f) \/ IsPlug(f) \/ IsAsk(f)
IsLogin(m) == m.id = "login"

\* The CIMS task is within the handler of its frame.
Stepped ==
    /\ step # "enter" => Started(frame)
    /\ step = "bind" => IsPlug(frame)
    /\ step \in {"check", "clear", "release"} => IsLogout(frame)

\* No two users have the same card, and only the server starts transactions with its tag.
OneEach == \A i, j \in Slots : userDB[i].idTag = userDB[j].idTag /\ userDB[i].idTag # NoTag => i = j
ServerOnly == "remote" \notin odd => \A c \in Connectors : tx[c] # NoTx => tx[c].tag # ServerTag

\* Without noise the station hears what the board says, and the display what the station says.
HeardFrames == \A i \in 1..Count : Requests[i] \in BoardFrames
HeardLogins == \A i \in 1..Len(toCims) : IsLogin(toCims[i]) => toCims[i].connector \in ConnectorOrFree
Sane == isAuth \in {0, 1} /\ \A i \in Slots : userDB[i].connectorID \in ConnectorOrFree
Heard == HeardFrames /\ HeardLogins /\ hmi.connector \in ConnectorOrFree /\ Sane
Orderly == Stepped /\ OneEach /\ ServerOnly /\ ("noise" \notin odd => Heard)

LEMMA ConnectorOrFreeType == ConnectorOrFree \subseteq Byte /\ Free \in ConnectorOrFree /\ Connectors \subseteq ConnectorOrFree /\ Free \notin Connectors
<1>1. Free \notin 1..3
  BY DEF Free
<1> QED
  BY <1>1, Bytes DEF ConnectorOrFree

LEMMA BoardFrameIs ==
    ASSUME NEW f \in BoardFrames
    PROVE  /\ Started(f)
           /\ \/ IsLogout(f) /\ ~IsPlug(f) /\ ~IsAsk(f) /\ Data(f) = 0 /\ Connector(f) \in ConnectorOrFree
              \/ IsAsk(f) /\ ~IsPlug(f) /\ ~IsLogout(f) /\ Data(f) \in {0, 1} /\ Connector(f) \in Connectors
              \/ /\ Id(f) = ConnectorStatus /\ ~IsAsk(f) /\ ~IsLogout(f)
                 /\ Data(f) \in {0, 1} /\ Connector(f) \in Connectors /\ (IsPlug(f) <=> Data(f) = 1)
<1>1. IdTag # ConnectorStatus /\ IdTag # HmiControlTransaction /\ ConnectorStatus # HmiControlTransaction
  BY DEF IdTag, ConnectorStatus, HmiControlTransaction
<1>2. CASE \E c \in ConnectorOrFree : f = Request(IdTag, c, 0)
  <2>1. PICK c \in ConnectorOrFree : f = Request(IdTag, c, 0)
    BY <1>2
  <2>2. IdTag \in Byte /\ c \in Byte /\ 0 \in Byte
    BY Bytes, ConnectorOrFreeType
  <2>3. Started(f) /\ Id(f) = IdTag /\ Connector(f) = c /\ Data(f) = 0
    BY <2>1, <2>2, RequestIs
  <2> QED
    BY <1>1, <2>3 DEF IsLogout, IsPlug, IsAsk
<1>3. CASE \E id \in {ConnectorStatus, HmiControlTransaction}, c \in Connectors, data \in {0, 1} : f = Request(id, c, data)
  <2>1. PICK id \in {ConnectorStatus, HmiControlTransaction}, c \in Connectors, data \in {0, 1} : f = Request(id, c, data)
    BY <1>3
  <2>2. id \in Byte /\ c \in Byte /\ data \in Byte
    BY Bytes
  <2>3. Started(f) /\ Id(f) = id /\ Connector(f) = c /\ Data(f) = data
    BY <2>1, <2>2, RequestIs
  <2>4. 0 # 1 /\ (data = 0 \/ data = 1)
    OBVIOUS
  <2> QED
    BY <1>1, <2>3, <2>4 DEF IsLogout, IsPlug, IsAsk
<1> QED
  BY <1>2, <1>3 DEF BoardFrames

LEMMA Appended ==
    ASSUME NEW T, NEW s \in Seq(T), NEW e \in T, NEW f, f = Append(s, e)
    PROVE  /\ Len(s) \in Nat /\ Len(f) = Len(s) + 1 /\ f[Len(s) + 1] = e
           /\ \A i \in 1..Len(f) : (i \in 1..Len(s) /\ f[i] = s[i]) \/ (i = Len(s) + 1 /\ f[i] = e)
<1> DEFINE n == Len(s)
<1>1. n \in Nat
  OBVIOUS
<1>2. Len(f) = n + 1 /\ f[n + 1] = e /\ \A i \in 1..n : f[i] = s[i]
  BY MoreIs
<1> HIDE DEF n
<1>3. \A i \in 1..(n + 1) : i \in 1..n \/ i = n + 1
  BY <1>1
<1> QED
  BY <1>1, <1>2, <1>3 DEF n

LEMMA Tailed ==
    ASSUME NEW T, NEW s \in Seq(T), s # <<>>
    PROVE  /\ Head(s) = s[1] /\ 1 \in 1..Len(s) /\ Len(s) \in Nat /\ Len(Tail(s)) = Len(s) - 1
           /\ \A i \in 1..Len(Tail(s)) : i + 1 \in 1..Len(s) /\ Tail(s)[i] = s[i + 1]
<1>1. Len(s) \in Nat \ {0} /\ Head(s) = s[1]
  BY EmptySeq
<1>2. Len(Tail(s)) = Len(s) - 1 /\ \A i \in 1..Len(Tail(s)) : Tail(s)[i] = s[i + 1]
  BY HeadTailProperties
<1> DEFINE n == Len(s)
           m == Len(Tail(s))
<1>3. n \in Nat \ {0} /\ m = n - 1
  BY <1>1, <1>2
<1> HIDE DEF n, m
<1>4. 1 \in 1..n /\ n \in Nat /\ \A i \in 1..m : i + 1 \in 1..n
  BY <1>3
<1> QED
  BY <1>1, <1>2, <1>4 DEF n, m

LEMMA FramesStay ==
    ASSUME HeardFrames, UNCHANGED linkVars
    PROVE  HeardFrames'
BY RequestsStay DEF HeardFrames

LEMMA FramesRead ==
    ASSUME Typed, LinkInv, HeardFrames, ReadBytes, "noise" \notin odd
    PROVE  HeardFrames'
BY RequestsRead DEF HeardFrames

LEMMA FramesDone ==
    ASSUME LinkInv, HeardFrames, Processed, Started(frame)
    PROVE  HeardFrames'
<1> QED
  BY RequestsDone DEF HeardFrames

LEMMA FramesSent ==
    ASSUME Typed, LinkInv, HeardFrames, "noise" \notin odd,
           NEW id \in Byte, NEW c \in Byte, NEW data \in Byte, Request(id, c, data) \in BoardFrames,
           SendRequest(Request(id, c, data)), odd' = odd \/ odd' = odd \cup {"early"}
    PROVE  HeardFrames'
<1> DEFINE f == Request(id, c, data)
<1>1. /\ Count' = Count + 1 /\ Requests'[Count + 1] = f
      /\ \A i \in 1..Count : Requests'[i] = Requests[i]
  BY RequestsSent
<1>2. f \in BoardFrames
  OBVIOUS
<1> HIDE DEF f
<1>3. Count \in Nat
  BY CountIs
<1>4. \A i \in 1..Count' : i \in 1..Count \/ i = Count + 1
  BY <1>1, <1>3
<1> QED
  BY <1>1, <1>2, <1>4 DEF HeardFrames

LEMMA FramesLost ==
    ASSUME LinkLost
    PROVE  HeardFrames' /\ Count' = 0
<1>1. Count' = 0
  BY DEF LinkLost, Count, Started
<1> QED
  BY <1>1 DEF HeardFrames

LEMMA LoginsTold ==
    ASSUME Typed, HeardLogins, NEW m \in Message, IsLogin(m) => m.connector \in ConnectorOrFree, toCims' = Append(toCims, m)
    PROVE  HeardLogins'
<1>1. /\ toCims' = Append(toCims, m) /\ toCims \in Seq(Message)
  BY DEF Typed
<1>2. \A i \in 1..Len(toCims') : (i \in 1..Len(toCims) /\ toCims'[i] = toCims[i]) \/ (i = Len(toCims) + 1 /\ toCims'[i] = m)
  BY <1>1, Appended
<1> QED
  BY <1>2 DEF HeardLogins

LEMMA LoginsHeard ==
    ASSUME Typed, HeardLogins, toCims # <<>>, toCims' = Tail(toCims)
    PROVE  HeardLogins' /\ (IsLogin(Head(toCims)) => Head(toCims).connector \in ConnectorOrFree)
<1>1. /\ Head(toCims) = toCims[1] /\ 1 \in 1..Len(toCims)
      /\ \A i \in 1..Len(Tail(toCims)) : i + 1 \in 1..Len(toCims) /\ Tail(toCims)[i] = toCims[i + 1]
  BY Tailed DEF Typed
<1>2. IsLogin(Head(toCims)) => Head(toCims).connector \in ConnectorOrFree
  BY <1>1 DEF HeardLogins
<1>3. HeardLogins'
  BY <1>1 DEF HeardLogins
<1> QED
  BY <1>2, <1>3

\* The frame that is processed is one of the board.
LEMMA FrameHeard ==
    ASSUME LinkInv, HeardFrames, Started(frame)
    PROVE  frame \in BoardFrames
BY CountIs DEF HeardFrames

LEMMA OrderlyStays ==
    ASSUME Orderly, UNCHANGED <<linkVars, step, tx, userDB, hmi, toCims, isAuth>>, odd \subseteq odd'
    PROVE  Orderly'
<1>1. frame' = frame
  BY DEF linkVars
<1>2. Stepped' /\ OneEach' /\ ServerOnly'
  BY <1>1 DEF Orderly, Stepped, OneEach, ServerOnly
<1>3. ASSUME "noise" \notin odd' PROVE Heard'
  <2>1. Heard
    BY <1>3 DEF Orderly
  <2>2. HeardFrames'
    BY <2>1, FramesStay DEF Heard
  <2> QED
    BY <2>1, <2>2 DEF Heard, HeardLogins, Sane
<1> QED
  BY <1>2, <1>3 DEF Orderly

LEMMA ReaderOrderly ==
    ASSUME Typed, LinkInv, Orderly, (\E card \in Tags : Tap(card)) \/ ReadCard
    PROVE  Orderly'
<1>1. CASE \E card \in Tags : Tap(card)
  BY <1>1, OrderlyStays DEF Tap
<1>2. CASE ReadCard
  <2>1. /\ SetTag \/ AskServer \/ AddUser \/ LogIn
        /\ odd \subseteq odd' /\ UNCHANGED <<step, tx, hmi, linkVars>>
    BY <1>2 DEF ReadCard, Odd
  <2>2. CASE SetTag \/ AskServer
    BY <2>1, <2>2, OrderlyStays DEF SetTag, AskServer
  <2>3. frame' = frame
    BY <2>1 DEF linkVars
  <2>4. Stepped' /\ ServerOnly'
    BY <2>1, <2>3 DEF Orderly, Stepped, ServerOnly
  <2>5. ASSUME "noise" \notin odd' PROVE Heard /\ HeardFrames' /\ hmi'.connector \in ConnectorOrFree
    <3>1. Heard
      BY <2>1, <2>5 DEF Orderly
    <3> QED
      BY <2>1, <3>1, FramesStay DEF Heard
  <2>6. CASE AddUser
    <3> DEFINE i == IF userDB[1].connectorID = Free THEN 1 ELSE 2
    <3>1. /\ userDB' = [userDB EXCEPT ![i].idTag = idTag] /\ Known(idTag) = {} /\ UNCHANGED <<isAuth, toCims>>
      BY Zenon, <2>6 DEF AddUser
    <3>2. i \in Slots
      BY Bytes
    <3> HIDE DEF i
    <3>3. \A j \in Slots : userDB[j].idTag # idTag
      BY <3>1 DEF Known
    <3>4. \A j \in Slots : /\ userDB'[j].connectorID = userDB[j].connectorID
                           /\ userDB'[j].idTag = IF j = i THEN idTag ELSE userDB[j].idTag
      BY <3>1, <3>2 DEF Typed
    <3>5. OneEach'
      BY <3>3, <3>4 DEF Orderly, OneEach
    <3>6. ASSUME "noise" \notin odd' PROVE Heard'
      <4>1. Heard /\ HeardFrames' /\ hmi'.connector \in ConnectorOrFree
        BY <2>5, <3>6
      <4>2. Sane' /\ HeardLogins'
        BY <3>1, <3>4, <4>1 DEF Heard, Sane, HeardLogins
      <4> QED
        BY <4>1, <4>2 DEF Heard
    <3> QED
      BY <2>4, <3>5, <3>6 DEF Orderly
  <2>7. CASE LogIn
    <3>1. /\ reader.at = "login" /\ isAuth' = 1 /\ toCims' = Append(toCims, Login(Shown(reader.slot)))
          /\ UNCHANGED <<idTag, userDB, pending>>
      BY <2>7 DEF LogIn
    <3>2. OneEach'
      BY <3>1 DEF Orderly, OneEach
    <3>3. ASSUME "noise" \notin odd' PROVE Heard'
      <4>1. Heard /\ HeardFrames' /\ hmi'.connector \in ConnectorOrFree
        BY <2>5, <3>3
      <4>2. reader.slot \in Slots /\ Shown(reader.slot) \in ConnectorOrFree
        BY <3>1, <4>1 DEF Typed, Heard, Sane, Shown
      <4>3. Login(Shown(reader.slot)) \in Message /\ Login(Shown(reader.slot)).connector \in ConnectorOrFree
        BY <4>2, MessagesType, ConnectorOrFreeType DEF Login
      <4>4. HeardLogins'
        BY <3>1, <4>1, <4>3, LoginsTold DEF Heard
      <4>5. Sane'
        BY <3>1, <4>1 DEF Heard, Sane
      <4> QED
        BY <4>1, <4>4, <4>5 DEF Heard
    <3> QED
      BY <2>4, <3>2, <3>3 DEF Orderly
  <2> QED
    BY <2>1, <2>2, <2>6, <2>7
<1> QED
  BY <1>1, <1>2

LEMMA LibraryOrderly ==
    ASSUME Typed, LinkInv, Orderly, Authorized \/ Library \/ \E c \in Connectors : RemoteControl(c)
    PROVE  Orderly'
<1>1. CASE Authorized
  <2>1. /\ pending # <<>> /\ odd \subseteq odd'
        /\ \/ isAuth' = 0 /\ UNCHANGED toCims
           \/ UNCHANGED <<isAuth, toCims>>
           \/ isAuth' = 1 /\ toCims' = Append(toCims, Login(Shown(Head(pending))))
        /\ UNCHANGED <<idTag, userDB, reader, step, tx, hmi, cable, linkVars>>
    BY <1>1 DEF Authorized, Odd
  <2>2. frame' = frame
    BY <2>1 DEF linkVars
  <2>3. Stepped' /\ OneEach' /\ ServerOnly'
    BY <2>1, <2>2 DEF Orderly, Stepped, OneEach, ServerOnly
  <2>4. ASSUME "noise" \notin odd' PROVE Heard'
    <3>1. Heard
      BY <2>1, <2>4 DEF Orderly
    <3>2. HeardFrames' /\ hmi'.connector \in ConnectorOrFree
      BY <2>1, <3>1, FramesStay DEF Heard
    <3>3. Head(pending) \in Slots
      BY <2>1, HeadTailProperties DEF Typed
    <3>4. Shown(Head(pending)) \in ConnectorOrFree
      BY <3>1, <3>3 DEF Heard, Sane, Shown
    <3>5. Login(Shown(Head(pending))) \in Message /\ Login(Shown(Head(pending))).connector \in ConnectorOrFree
      BY <3>4, MessagesType, ConnectorOrFreeType DEF Login
    <3>6. ASSUME UNCHANGED toCims PROVE HeardLogins'
      BY <3>1, <3>6 DEF Heard, HeardLogins
    <3>7. ASSUME toCims' = Append(toCims, Login(Shown(Head(pending)))) PROVE HeardLogins'
      BY <3>1, <3>5, <3>7, LoginsTold DEF Heard
    <3>8. Sane'
      BY <2>1, <3>1 DEF Heard, Sane
    <3>9. HeardLogins'
      BY <2>1, <3>6, <3>7
    <3> QED
      BY <3>2, <3>8, <3>9 DEF Heard
  <2> QED
    BY <2>3, <2>4 DEF Orderly
<1>2. ASSUME NEW c \in Connectors, Active(c), tx' = Inactive(c)
      PROVE  \A d \in Connectors : tx'[d] # NoTx => tx[d] # NoTx /\ tx'[d].tag = tx[d].tag
  <2>1. tx[c] # NoTx /\ tx[c] \in [tag : Tags \cup {ServerTag}, active : BOOLEAN]
    BY <1>2 DEF Active, Typed
  <2>2. tx' = [tx EXCEPT ![c] = [@ EXCEPT !.active = FALSE]]
    BY <1>2 DEF Inactive
  <2> QED
    BY <2>1, <2>2 DEF Typed
<1>3. CASE Library
  <2>1. PICK c \in Connectors : GivesUp(c) \/ Leaves(c)
    BY <1>3 DEF Library
  <2>2. UNCHANGED <<isAuth, idTag, userDB, reader, step, pending, toCims, hmi, cable, odd, linkVars>>
    BY <1>3 DEF Library
  <2>3. \A d \in Connectors : tx'[d] # NoTx => tx[d] # NoTx /\ tx'[d].tag = tx[d].tag
    <3>1. CASE GivesUp(c)
      BY <3>1, <1>2 DEF GivesUp
    <3>2. CASE Leaves(c)
      BY <3>2 DEF Leaves, Typed
    <3> QED
      BY <2>1, <3>1, <3>2
  <2>4. ServerOnly'
    BY <2>2, <2>3 DEF Orderly, ServerOnly
  <2>5. Stepped' /\ OneEach'
    BY <2>2 DEF linkVars, Orderly, Stepped, OneEach
  <2>6. ASSUME "noise" \notin odd' PROVE Heard'
    <3>1. Heard
      BY <2>2, <2>6 DEF Orderly
    <3>2. HeardFrames'
      BY <2>2, <3>1, FramesStay DEF Heard
    <3> QED
      BY <2>2, <3>1, <3>2 DEF Heard, HeardLogins, Sane
  <2> QED
    BY <2>4, <2>5, <2>6 DEF Orderly
<1>4. CASE \E c \in Connectors : RemoteControl(c)
  <2>1. PICK c \in Connectors : RemoteControl(c)
    BY <1>4
  <2>2. /\ toCims' = Append(toCims, Remote("begin")) \/ toCims' = Append(toCims, Remote("end"))
        /\ odd' = odd \cup {"remote"}
        /\ UNCHANGED <<isAuth, idTag, userDB, reader, step, pending, hmi, cable, linkVars>>
    BY <2>1 DEF RemoteControl, Odd
  <2>3. ServerOnly' /\ Stepped' /\ OneEach'
    BY <2>2 DEF linkVars, Orderly, Stepped, OneEach, ServerOnly
  <2>4. ASSUME "noise" \notin odd' PROVE Heard'
    <3>1. Heard
      BY <2>2, <2>4 DEF Orderly
    <3>2. HeardFrames'
      BY <2>2, <3>1, FramesStay DEF Heard
    <3>3. ~IsLogin(Remote("begin")) /\ ~IsLogin(Remote("end"))
      BY DEF IsLogin, Remote
    <3>4. HeardLogins'
      BY <2>2, <3>1, <3>3, LoginsTold, MessagesType DEF Heard
    <3> QED
      BY <2>2, <3>1, <3>2, <3>4 DEF Heard, Sane
  <2> QED
    BY <2>3, <2>4 DEF Orderly
<1> QED
  BY <1>1, <1>3, <1>4

LEMMA ProcessOrderly ==
    ASSUME Typed, LinkInv, Orderly, Process
    PROVE  Orderly'
<1>1. /\ LogOut \/ ClearTag \/ ClearAuth \/ Release \/ Plugged \/ Bind \/ Control \/ Other
      /\ odd' = (IF LoggingOut /\ reader.at # "idle" THEN odd \cup {"overlap"} ELSE odd)
      /\ UNCHANGED <<reader, pending, hmi, cable>>
  BY DEF Process, Odd
<1>2. odd \subseteq odd' /\ ("remote" \notin odd' => "remote" \notin odd) /\ ("noise" \notin odd' => "noise" \notin odd)
  BY <1>1
<1>3. Started(frame)
  BY <1>1 DEF LogOut, ClearTag, ClearAuth, Release, Plugged, Bind, Control, Other, Is
<1>4. ASSUME Done PROVE Stepped' /\ (HeardFrames => HeardFrames')
  BY <1>3, <1>4, FramesDone DEF Done, Stepped
<1>5. ASSUME NEW at, Proceed(at) PROVE step' = at /\ frame' = frame /\ (HeardFrames => HeardFrames')
  BY <1>5, FramesStay DEF Proceed, linkVars
<1>6. "noise" \notin odd' => Heard
  BY <1>2 DEF Orderly
<1>7. ASSUME Stepped', OneEach', tx' = tx, toCims' = toCims, HeardFrames => HeardFrames', "noise" \notin odd' => Sane'
      PROVE  Orderly'
  <2>1. ServerOnly'
    BY <1>2, <1>7 DEF Orderly, ServerOnly
  <2>2. ASSUME "noise" \notin odd' PROVE Heard'
    BY <1>1, <1>6, <1>7, <2>2 DEF Heard, HeardLogins
  <2> QED
    BY <1>7, <2>1, <2>2 DEF Orderly
<1>8. ASSUME userDB' = userDB PROVE OneEach' /\ (isAuth' = isAuth /\ "noise" \notin odd' => Sane')
  BY <1>6, <1>8 DEF Orderly, OneEach, Heard, Sane
<1>9. CASE LogOut
  <2>1. Id(frame) = IdTag /\ isAuth' = Data(frame) /\ Proceed("check") /\ UNCHANGED <<idTag, userDB, tx, toCims>>
    BY <1>9 DEF LogOut, Is
  <2>2. step' = "check" /\ frame' = frame /\ (HeardFrames => HeardFrames')
    BY <1>5, <2>1
  <2>3. Stepped'
    BY <1>3, <2>1, <2>2 DEF Stepped, IsLogout
  <2>4. ASSUME "noise" \notin odd' PROVE Sane'
    <3>1. Heard /\ frame \in BoardFrames
      BY <1>3, <1>6, <2>4, FrameHeard DEF Heard
    <3>2. Data(frame) = 0
      BY <2>1, <3>1, BoardFrameIs DEF IsLogout
    <3> QED
      BY <2>1, <3>1, <3>2 DEF Heard, Sane
  <2> QED
    BY <1>7, <1>8, <2>1, <2>2, <2>3, <2>4
<1>10. CASE ClearTag
  <2>1. Id(frame) = IdTag /\ (Proceed("clear") \/ Done) /\ UNCHANGED <<isAuth, userDB, tx, toCims>>
    BY <1>10 DEF ClearTag, Is
  <2>2. HeardFrames => HeardFrames'
    BY <1>4, <1>5, <2>1
  <2>3. CASE Proceed("clear")
    <3>1. step' = "clear" /\ frame' = frame
      BY <1>5, <2>3
    <3>2. Stepped'
      BY <1>3, <2>1, <3>1 DEF Stepped, IsLogout
    <3> QED
      BY <1>7, <1>8, <2>1, <2>2, <3>2
  <2>4. CASE Done
    <3>1. Stepped'
      BY <1>4, <2>4
    <3> QED
      BY <1>7, <1>8, <2>1, <2>2, <3>1
  <2> QED
    BY <2>1, <2>3, <2>4
<1>11. CASE ClearAuth
  <2>1. Id(frame) = IdTag /\ isAuth' = 0 /\ Proceed("release") /\ UNCHANGED <<idTag, userDB, tx, toCims>>
    BY <1>11 DEF ClearAuth, Is
  <2>2. step' = "release" /\ frame' = frame /\ (HeardFrames => HeardFrames')
    BY <1>5, <2>1
  <2>3. Stepped'
    BY <1>3, <2>1, <2>2 DEF Stepped, IsLogout
  <2>4. "noise" \notin odd' => Sane'
    BY <1>6, <2>1 DEF Heard, Sane
  <2> QED
    BY <1>7, <1>8, <2>1, <2>2, <2>3, <2>4
<1>12. CASE Release
  <2> DEFINE S == OfConnector(Connector(frame))
  <2>1. /\ userDB' = IF MayForget(Connector(frame)) /\ S # {}
                     THEN [userDB EXCEPT ![Least(S)] = [idTag |-> NoTag, connectorID |-> Free]] ELSE userDB
        /\ Done /\ UNCHANGED <<isAuth, idTag, tx, toCims>>
    BY Zenon, <1>12 DEF Release
  <2> HIDE DEF S
  <2>2. Stepped' /\ (HeardFrames => HeardFrames')
    BY <1>4, <2>1
  <2>3. \A j \in Slots : userDB'[j] = userDB[j] \/ userDB'[j] = [idTag |-> NoTag, connectorID |-> Free]
    BY <2>1 DEF Typed
  <2>4. OneEach'
    <3> SUFFICES ASSUME NEW i \in Slots, NEW j \in Slots,
                        userDB'[i].idTag = userDB'[j].idTag, userDB'[i].idTag # NoTag
                 PROVE  i = j
      BY DEF OneEach
    <3>1. userDB'[i] = userDB[i] /\ userDB'[j] = userDB[j]
      BY <2>3
    <3> QED
      BY <3>1 DEF Orderly, OneEach
  <2>5. "noise" \notin odd' => Sane'
    BY <1>6, <2>1, <2>3, ConnectorOrFreeType DEF Heard, Sane
  <2> QED
    BY <1>7, <2>1, <2>2, <2>4, <2>5
<1>13. CASE Plugged
  <2>1. Id(frame) = ConnectorStatus /\ UNCHANGED <<isAuth, idTag, userDB, tx, toCims>>
    BY <1>13 DEF Plugged, Is
  <2>2. CASE Done
    <3>1. Stepped' /\ (HeardFrames => HeardFrames')
      BY <1>4, <2>2
    <3> QED
      BY <1>7, <1>8, <2>1, <3>1
  <2>3. CASE Data(frame) # 0 /\ Proceed("bind")
    <3>1. step' = "bind" /\ frame' = frame /\ (HeardFrames => HeardFrames')
      BY <1>5, <2>3
    <3>2. Stepped'
      BY <1>3, <2>1, <2>3, <3>1 DEF Stepped, IsPlug
    <3> QED
      BY <1>7, <1>8, <2>1, <3>1, <3>2
  <2> QED
    BY <1>13, <2>2, <2>3 DEF Plugged
<1>14. CASE Bind
  <2> DEFINE S == Known(idTag)
  <2>1. /\ step = "bind" /\ Done /\ UNCHANGED <<isAuth, idTag, tx, toCims>>
        /\ userDB' = IF S = {} THEN userDB ELSE [userDB EXCEPT ![Least(S)].connectorID = Connector(frame)]
    BY Zenon, <1>14 DEF Bind, Is
  <2> HIDE DEF S
  <2>2. Stepped' /\ (HeardFrames => HeardFrames')
    BY <1>4, <2>1
  <2>3. \A j \in Slots : /\ userDB'[j].idTag = userDB[j].idTag
                         /\ userDB'[j].connectorID = userDB[j].connectorID \/ userDB'[j].connectorID = Connector(frame)
    BY <2>1 DEF Typed
  <2>4. OneEach'
    BY <2>3 DEF Orderly, OneEach
  <2>5. ASSUME "noise" \notin odd' PROVE Sane'
    <3>1. Heard /\ frame \in BoardFrames
      BY <1>3, <1>6, <2>5, FrameHeard DEF Heard
    <3>2. Connector(frame) \in ConnectorOrFree
      BY <3>1, BoardFrameIs, ConnectorOrFreeType
    <3> QED
      BY <2>1, <2>3, <3>1, <3>2 DEF Heard, Sane
  <2> QED
    BY <1>7, <2>1, <2>2, <2>4, <2>5
<1>15. CASE Control
  <2> DEFINE c == Connector(frame)
  <2>1. /\ Done /\ UNCHANGED <<isAuth, idTag, userDB>>
        /\ End(c) \/ Begin(c, TRUE) \/ Begin(c, FALSE)
    BY <1>15 DEF Control
  <2>2. Stepped' /\ (HeardFrames => HeardFrames')
    BY <1>4, <2>1
  <2>3. c \in Byte
    BY <1>3, FieldsType DEF Typed
  <2>4. idTag \in Tags /\ ServerTag \notin Tags
    BY StationAssumption DEF Typed
  <2> HIDE DEF c
  <2>5. \A ok \in BOOLEAN : Confirmation(c, ok) \in Message /\ ~IsLogin(Confirmation(c, ok))
    BY <2>3, MessagesType DEF Confirmation, IsLogin
  <2>6. toCims' = toCims \/ \E ok \in BOOLEAN : toCims' = Append(toCims, Confirmation(c, ok))
    BY <2>1 DEF End, Begin
  <2>7. \A d \in Connectors : tx'[d] # NoTx => \/ tx[d] # NoTx /\ tx'[d].tag = tx[d].tag
                                               \/ tx'[d].tag = idTag
    <3>1. ASSUME NEW ok \in BOOLEAN, Begin(c, ok)
          PROVE  tx' = tx \/ tx' = [tx EXCEPT ![c] = [tag |-> idTag, active |-> TRUE]]
      BY <3>1 DEF Begin
    <3>2. CASE Begin(c, TRUE) \/ Begin(c, FALSE)
      <4> DEFINE v == [tag |-> idTag, active |-> TRUE]
      <4>1. v.tag = idTag
        OBVIOUS
      <4>2. tx' = tx \/ tx' = [tx EXCEPT ![c] = v]
        BY <3>1, <3>2
      <4> HIDE DEF v
      <4>3. \A d \in Connectors : tx'[d] = tx[d] \/ tx'[d] = v
        BY <4>2 DEF Typed
      <4> QED
        BY <4>1, <4>3
    <3>3. CASE End(c)
      <4>1. tx' = IF Active(c) /\ Matches(idTag) THEN Inactive(c) ELSE tx
        BY <3>3 DEF End
      <4>2. CASE c \in Connectors /\ Active(c) /\ tx' = Inactive(c)
        <5>1. tx[c] # NoTx /\ tx[c] \in [tag : Tags \cup {ServerTag}, active : BOOLEAN]
          BY <4>2 DEF Active, Typed
        <5>2. tx' = [tx EXCEPT ![c] = [@ EXCEPT !.active = FALSE]]
          BY <4>2 DEF Inactive
        <5> QED
          BY <5>1, <5>2 DEF Typed
      <4>3. CASE tx' = tx
        BY <4>3
      <4>4. c \notin Connectors => Inactive(c) = tx
        BY DEF Inactive, Typed
      <4> QED
        BY <4>1, <4>2, <4>3, <4>4
    <3> QED
      BY <2>1, <3>2, <3>3
  <2>8. ServerOnly'
    BY <1>2, <2>4, <2>7 DEF Orderly, ServerOnly
  <2>9. ASSUME "noise" \notin odd' PROVE Heard'
    <3>1. Heard
      BY <1>6, <2>9
    <3>2. HeardLogins'
      <4>1. CASE toCims' = toCims
        BY <3>1, <4>1 DEF Heard, HeardLogins
      <4>2. CASE \E ok \in BOOLEAN : toCims' = Append(toCims, Confirmation(c, ok))
        BY <2>5, <3>1, <4>2, LoginsTold DEF Heard
      <4> QED
        BY <2>6, <4>1, <4>2
    <3> QED
      BY <1>1, <2>1, <2>2, <3>1, <3>2 DEF Heard, Sane
  <2>10. OneEach'
    BY <1>8, <2>1
  <2> QED
    BY <2>2, <2>8, <2>9, <2>10 DEF Orderly
<1>16. CASE Other
  <2>1. Done /\ UNCHANGED <<isAuth, idTag, userDB, tx, toCims>>
    BY <1>16 DEF Other
  <2> QED
    BY <1>4, <1>7, <1>8, <2>1
<1> QED
  BY <1>1, <1>9, <1>10, <1>11, <1>12, <1>13, <1>14, <1>15, <1>16

LEMMA BoardOrderly ==
    ASSUME Typed, LinkInv, Orderly, Board
    PROVE  Orderly'
<1>1. UNCHANGED <<isAuth, idTag, userDB, reader, step, pending, tx>>
  BY DEF Board
<1>2. ASSUME frame' = frame, odd \subseteq odd' PROVE Stepped' /\ OneEach' /\ ServerOnly' /\ (Sane => Sane')
  BY <1>1, <1>2 DEF Orderly, Stepped, OneEach, ServerOnly, Sane
<1>3. ASSUME DisplayHears PROVE Orderly'
  <2>1. /\ toCims # <<>> /\ toCims' = Tail(toCims)
        /\ hmi' = CASE Head(toCims).id = "login" -> [shows |-> TRUE, connector |-> Head(toCims).connector, asks |-> FALSE]
                    [] Head(toCims).id = "confirmation" -> [hmi EXCEPT !.asks = FALSE]
                    [] OTHER -> hmi
        /\ UNCHANGED <<cable, odd, linkVars>>
    BY Zenon, <1>3 DEF DisplayHears
  <2>2. frame' = frame /\ odd \subseteq odd'
    BY <2>1 DEF linkVars
  <2>3. Stepped' /\ OneEach' /\ ServerOnly' /\ (Sane => Sane')
    BY <1>2, <2>2
  <2>4. ASSUME "noise" \notin odd' PROVE Heard'
    <3>1. Heard
      BY <2>1, <2>4 DEF Orderly
    <3>2. HeardFrames'
      BY <2>1, <3>1, FramesStay DEF Heard
    <3>3. HeardLogins' /\ (Head(toCims).id = "login" => Head(toCims).connector \in ConnectorOrFree)
      BY <2>1, <3>1, LoginsHeard DEF Heard, IsLogin
    <3>4. hmi'.connector \in ConnectorOrFree
      BY <2>1, <3>1, <3>3 DEF Heard, Typed
    <3> QED
      BY <2>3, <3>1, <3>2, <3>3, <3>4 DEF Heard
  <2> QED
    BY <2>3, <2>4 DEF Orderly
<1>4. ASSUME NEW id \in Byte, NEW c \in Byte, NEW data \in Byte, SendRequest(Request(id, c, data)),
             "noise" \notin odd => Request(id, c, data) \in BoardFrames,
             odd' = odd \/ odd' = odd \cup {"early"}, toCims' = toCims,
             hmi'.connector = hmi.connector \/ hmi'.connector \in ConnectorOrFree
      PROVE  Orderly'
  <2>1. frame' = frame
    BY <1>4 DEF SendRequest, Send
  <2>2. odd \subseteq odd'
    BY <1>4
  <2>3. Stepped' /\ OneEach' /\ ServerOnly' /\ (Sane => Sane')
    BY <1>2, <2>1, <2>2
  <2>4. ASSUME "noise" \notin odd' PROVE Heard'
    <3>1. Heard /\ "noise" \notin odd
      BY <2>2, <2>4 DEF Orderly
    <3>2. HeardFrames'
      BY <1>4, <3>1, FramesSent DEF Heard
    <3> QED
      BY <1>4, <2>3, <3>1, <3>2 DEF Heard, HeardLogins
  <2> QED
    BY <2>3, <2>4 DEF Orderly
<1>5. ASSUME DisplayLogsOut PROVE Orderly'
  <2>1. /\ SendRequest(Request(IdTag, hmi.connector, 0)) /\ hmi' = [hmi EXCEPT !.shows = FALSE]
        /\ UNCHANGED <<cable, odd, toCims>>
    BY <1>5 DEF DisplayLogsOut
  <2>2. hmi.connector \in Byte /\ hmi'.connector = hmi.connector
    BY <2>1 DEF Typed
  <2>3. "noise" \notin odd => Request(IdTag, hmi.connector, 0) \in BoardFrames
    BY DEF Orderly, Heard, BoardFrames
  <2> QED
    BY <1>4, <2>1, <2>2, <2>3, Bytes
<1>6. ASSUME DisplayAsks PROVE Orderly'
  <2>1. PICK data \in {0, 1} : SendRequest(Request(HmiControlTransaction, hmi.connector, data))
    BY <1>6 DEF DisplayAsks
  <2>2. hmi.connector \in Connectors /\ hmi' = [hmi EXCEPT !.asks = TRUE] /\ UNCHANGED <<cable, odd, toCims>>
    BY <1>6 DEF DisplayAsks
  <2>3. data \in Byte /\ hmi.connector \in Byte /\ hmi'.connector = hmi.connector
    BY <2>2, Bytes DEF Typed
  <2>4. Request(HmiControlTransaction, hmi.connector, data) \in BoardFrames
    BY <2>2 DEF BoardFrames
  <2> QED
    BY <1>4, <2>1, <2>2, <2>3, <2>4, Bytes
<1>7. ASSUME Noisy PROVE Orderly'
  <2>1. Disturb /\ odd' = odd \cup {"noise"}
    BY <1>7 DEF Noisy, Odd
  <2>2. frame' = frame /\ odd \subseteq odd'
    BY <2>1 DEF Disturb
  <2> QED
    BY <1>2, <2>1, <2>2 DEF Orderly
<1>8. ASSUME NEW c \in Connectors, NEW data \in {0, 1} PROVE Request(ConnectorStatus, c, data) \in BoardFrames
  BY DEF BoardFrames
<1>9. ASSUME NEW c \in Connectors, PlugIn(c) PROVE Orderly'
  <2>1. /\ SendRequest(Request(ConnectorStatus, c, 1))
        /\ hmi' = [hmi EXCEPT !.connector = c]
        /\ UNCHANGED <<odd, toCims>>
    BY <1>9 DEF PlugIn
  <2>2. c \in Byte /\ hmi'.connector \in ConnectorOrFree
    BY <2>1, Bytes, ConnectorOrFreeType DEF Typed
  <2>3. 1 \in {0, 1}
    OBVIOUS
  <2> QED
    BY <1>4, <1>8, <2>1, <2>2, <2>3, Bytes
<1>10. ASSUME NEW c \in Connectors, PlugInEarly(c) PROVE Orderly'
  <2>1. /\ SendRequest(Request(ConnectorStatus, c, 1))
        /\ odd' = odd \cup {"early"} /\ UNCHANGED <<hmi, toCims>>
    BY <1>10 DEF PlugInEarly, Odd
  <2>2. c \in Byte /\ hmi'.connector = hmi.connector
    BY <2>1, Bytes
  <2>3. 1 \in {0, 1}
    OBVIOUS
  <2> QED
    BY <1>4, <1>8, <2>1, <2>2, <2>3, Bytes
<1>11. ASSUME NEW c \in Connectors, Unplug(c) PROVE Orderly'
  <2>1. /\ SendRequest(Request(ConnectorStatus, c, 0)) /\ UNCHANGED <<hmi, odd, toCims>>
    BY <1>11 DEF Unplug
  <2>2. c \in Byte /\ hmi'.connector = hmi.connector
    BY <2>1, Bytes
  <2>3. 0 \in {0, 1}
    OBVIOUS
  <2> QED
    BY <1>4, <1>8, <2>1, <2>2, <2>3, Bytes
<1> QED
  BY <1>3, <1>5, <1>6, <1>7, <1>9, <1>10, <1>11 DEF Board

LEMMA NoUserKnown == \A i \in Slots : NoUsers[i].idTag = NoTag /\ NoUsers[i].connectorID = Free
BY DEF NoUsers

LEMMA RestartOrderly ==
    ASSUME Orderly, Restart
    PROVE  Orderly'
<1>1. /\ isAuth' = 0 /\ userDB' = NoUsers /\ step' = "enter" /\ toCims' = <<>>
      /\ LinkLost /\ odd' = odd \cup {"reboot"} /\ UNCHANGED <<tx, hmi>>
  BY DEF Restart, Odd
<1>2. Stepped' /\ ServerOnly'
  BY <1>1 DEF Orderly, Stepped, ServerOnly
<1>3. OneEach'
  BY <1>1, NoUserKnown DEF OneEach
<1>4. ASSUME "noise" \notin odd' PROVE Heard'
  <2>1. Heard
    BY <1>1, <1>4 DEF Orderly
  <2>2. Len(<<>>) = 0
    OBVIOUS
  <2>3. HeardLogins'
    BY <1>1, <2>2 DEF HeardLogins
  <2>4. Sane'
    BY <1>1, NoUserKnown, ConnectorOrFreeType DEF Sane
  <2> QED
    BY <1>1, <2>1, <2>3, <2>4, FramesLost DEF Heard
<1> QED
  BY <1>2, <1>3, <1>4 DEF Orderly

LEMMA OrderlyInit == Init => Orderly
<1> SUFFICES ASSUME Init PROVE Orderly
  OBVIOUS
<1>1. Stepped /\ ServerOnly
  BY DEF Init, Stepped, ServerOnly
<1>2. OneEach
  BY NoUserKnown DEF Init, OneEach
<1>3. HeardFrames
  <2>1. Count = 0
    BY DEF Init, LinkInit, Count, Started
  <2> QED
    BY <2>1 DEF HeardFrames
<1>4. HeardLogins
  <2>1. Len(<<>>) = 0
    OBVIOUS
  <2> QED
    BY <2>1 DEF Init, HeardLogins
<1>5. Sane /\ hmi.connector \in ConnectorOrFree
  BY NoUserKnown, ConnectorOrFreeType DEF Init, Sane
<1> QED
  BY <1>1, <1>2, <1>3, <1>4, <1>5 DEF Orderly, Heard

LEMMA OrderlyNext == Typed /\ LinkInv /\ Orderly /\ [Next]_vars => Orderly'
<1> SUFFICES ASSUME Typed, LinkInv, Orderly, [Next]_vars PROVE Orderly'
  OBVIOUS
<1>1. CASE ReadBytes
  <2>1. /\ frame = <<>>
        /\ UNCHANGED <<isAuth, idTag, userDB, reader, step, pending, tx, toCims, hmi, cable, odd>>
    BY <1>1 DEF ReadBytes, rest, Read
  <2>2. step = "enter"
    BY <2>1 DEF Orderly, Stepped, Started
  <2>3. Stepped' /\ OneEach' /\ ServerOnly'
    BY <2>1, <2>2 DEF Orderly, Stepped, OneEach, ServerOnly
  <2>4. ASSUME "noise" \notin odd' PROVE Heard'
    <3>1. Heard /\ "noise" \notin odd
      BY <2>1, <2>4 DEF Orderly
    <3>2. HeardFrames'
      BY <1>1, <3>1, FramesRead DEF Heard
    <3> QED
      BY <2>1, <3>1, <3>2 DEF Heard, HeardLogins, Sane
  <2> QED
    BY <2>3, <2>4 DEF Orderly
<1>2. CASE Reboot \/ Crash
  BY <1>2, RestartOrderly DEF Reboot, Crash
<1>3. CASE UNCHANGED vars
  BY <1>3, OrderlyStays DEF vars, rest
<1> QED
  BY <1>1, <1>2, <1>3, ReaderOrderly, LibraryOrderly, ProcessOrderly, BoardOrderly DEF Next

\* The state has its types; the parser never holds more than a frame; and without noise the values are
\* those that the board sends.
\* (CIMS_handle, readPICC)
THEOREM TypesHold == Spec => []TypeOK
<1>1. Typed /\ Orderly => TypeOK
  <2> SUFFICES ASSUME Typed, Orderly PROVE TypeOK
    OBVIOUS
  <2>1. ASSUME Calm({"noise"}) PROVE isAuth \in {0, 1} /\ \A i \in Slots : userDB[i].connectorID \in Connectors \cup {Free}
    <3>1. "noise" \notin odd
      BY <2>1 DEF Calm
    <3> QED
      BY <3>1 DEF Orderly, Heard, Sane, ConnectorOrFree
  <2> QED
    BY <2>1 DEF Typed, TypeOK
<1> QED
  BY <1>1, TypedInit, TypedNext, OrderlyInit, OrderlyNext, PTL DEF Spec

-----------------------------------------------------------------------------
(* A session: somebody logs in, plugs a cable in, has the transaction begun and ended, and logs out. *)

NoneFrom(n) == \A i \in n..Count : ~OfSession(Requests[i])
NoLogin == \A i \in 1..Len(toCims) : ~IsLogin(toCims[i])

\* The card that was read, up to the answer of the server.
Reading ==
    /\ reader.at \in {"read", "look"} => ~Full
    /\ reader.at = "read" => reader.card # NoTag
    /\ reader.at \in {"look", "login"} => idTag # NoTag
    /\ reader.at = "login" => userDB[reader.slot].idTag = idTag
    /\ pending # <<>> => reader.at = "idle" /\ Len(pending) = 1 /\ idTag # NoTag /\ userDB[pending[1]].idTag = idTag

\* Nobody is logged in; the one who was logged in is being forgotten.
Out == isAuth = 0 /\ ~hmi.shows /\ NoLogin /\ NoneFrom(1) /\ Reading
Leaving ==
    /\ step \in {"check", "clear", "release"}
    /\ isAuth = 0 /\ ~hmi.shows /\ NoLogin /\ NoneFrom(2) /\ pending = <<>>

\* The station has the user at the connector of the display, or will have once a plug is heard of,
\* and what the display asks for comes after that.
NoPlug == \A i \in 1..Count : ~IsPlug(Requests[i])
Bound ==
    /\ \A i \in 1..Count : IsPlug(Requests[i]) \/ IsAsk(Requests[i]) => Connector(Requests[i]) = hmi.connector
    /\ \A i, j \in 1..Count : IsPlug(Requests[i]) => /\ IsPlug(Requests[j]) => j = i
                                                     /\ IsAsk(Requests[j]) => i < j
    /\ User(idTag, IF NoPlug THEN hmi.connector ELSE Free)

\* Somebody is logged in: the display will hear of it, shows it, or has logged out.
Announced ==
    /\ ~hmi.shows /\ NoneFrom(1)
    /\ \E i \in 1..Len(toCims) : /\ IsLogin(toCims[i]) /\ User(idTag, toCims[i].connector)
                                 /\ \A j \in 1..Len(toCims) : IsLogin(toCims[j]) => j = i
NoLogout == \A i \in 1..Count : ~IsLogout(Requests[i])
LogoutAt(p) == IsLogout(Requests[p]) /\ NoneFrom(p + 1) /\ \A i \in 1..(p - 1) : ~IsLogout(Requests[i])
Present == hmi.shows /\ NoLogin /\ Bound /\ NoLogout
Gone == ~hmi.shows /\ NoLogin /\ Bound /\ \E p \in 1..Count : LogoutAt(p)
In ==
    /\ isAuth = 1 /\ reader.at = "idle" /\ pending = <<>> /\ idTag # NoTag
    /\ step \in {"enter", "bind"}
    /\ Announced \/ Present \/ Gone

Strange == {"overlap", "second card", "noise", "reboot", "misread", "early"}
Kept == \A c \in Connectors : Active(c) /\ tx[c].tag # ServerTag => User(tx[c].tag, c)
Session == (Out \/ Leaving \/ In) /\ Kept
Fine == Typed /\ LinkInv /\ Orderly /\ Calm(Strange)

\* What may become of the requests.
Same == Count' = Count /\ Requests' = Requests
Shifted == /\ Count = Count' + 1 /\ Count' \in Nat
           /\ \A i \in 1..Count' : i + 1 \in 1..Count /\ Requests'[i] = Requests[i + 1]
Extended(f) == /\ Count \in Nat /\ Count' = Count + 1 /\ Requests'[Count + 1] = f
               /\ \A i \in 1..Count : Requests'[i] = Requests[i]

LEMMA FineIs ==
    ASSUME Fine
    PROVE  /\ "noise" \notin odd /\ Heard /\ Stepped /\ OneEach /\ Typed /\ LinkInv /\ Count \in Nat
           /\ \A i \in 1..Count : Requests[i] \in BoardFrames
           /\ Started(frame) => Requests[1] = frame /\ 1 \in 1..Count
           /\ step # "enter" => Started(frame)
BY CountIs DEF Fine, Calm, Strange, Orderly, Heard, HeardFrames, Stepped

\* Without a request of a session the CIMS task is not within a handler.
LEMMA NoneStarted ==
    ASSUME Fine, NoneFrom(1)
    PROVE  step = "enter" /\ (Started(frame) => ~OfSession(frame))
BY FineIs DEF NoneFrom, Stepped, OfSession, Fine, Typed

LEMMA NoneShifts ==
    ASSUME Shifted, NEW n \in Nat, NoneFrom(n + 1), n > 0
    PROVE  NoneFrom(n)'
<1> SUFFICES ASSUME NEW i \in n..Count' PROVE ~OfSession(Requests'[i])
  BY DEF NoneFrom
<1>1. Requests'[i] = Requests[i + 1] /\ i + 1 \in (n + 1)..Count
  <2>1. i \in 1..Count' /\ Count' \in Nat /\ Count = Count' + 1
    BY DEF Shifted
  <2> QED
    BY <2>1 DEF Shifted
<1> QED
  BY <1>1 DEF NoneFrom

LEMMA NoneExtends ==
    ASSUME NEW f, Extended(f), NEW n \in Nat, NoneFrom(n), n > 0, ~OfSession(f)
    PROVE  NoneFrom(n)'
<1> SUFFICES ASSUME NEW i \in n..Count' PROVE ~OfSession(Requests'[i])
  BY DEF NoneFrom
<1>1. (i = Count + 1 /\ Requests'[i] = f) \/ (i \in n..Count /\ i \in 1..Count)
  BY DEF Extended
<1> QED
  BY <1>1 DEF NoneFrom, Extended

LEMMA NoneWeaker ==
    ASSUME Count \in Nat, NEW n \in Nat, NoneFrom(n)
    PROVE  NoneFrom(n + 1)
BY DEF NoneFrom

LEMMA BoundShifts ==
    ASSUME Shifted, Bound, ~IsPlug(Requests[1]), hmi'.connector = hmi.connector, UNCHANGED <<userDB, idTag>>
    PROVE  Bound'
<1>1. Count' \in Nat /\ Count = Count' + 1
  BY DEF Shifted
<1>2. \A i \in 1..Count' : i + 1 \in 1..Count /\ Requests'[i] = Requests[i + 1] /\ i \in Nat
  <2>1. \A i \in 1..Count' : i \in Nat
    BY <1>1
  <2> QED
    BY <2>1, Zenon DEF Shifted
<1>3. \A i \in 1..Count' : IsPlug(Requests'[i]) \/ IsAsk(Requests'[i]) => Connector(Requests'[i]) = hmi'.connector
  BY <1>2 DEF Bound
<1>4. ASSUME NEW i \in 1..Count', NEW j \in 1..Count', IsPlug(Requests'[i])
      PROVE  (IsPlug(Requests'[j]) => j = i) /\ (IsAsk(Requests'[j]) => i < j)
  <2>1. i + 1 \in 1..Count /\ j + 1 \in 1..Count /\ IsPlug(Requests[i + 1]) /\ i \in Nat /\ j \in Nat
    BY <1>2, <1>4
  <2>2. (IsPlug(Requests[j + 1]) => j + 1 = i + 1) /\ (IsAsk(Requests[j + 1]) => i + 1 < j + 1)
    BY <2>1 DEF Bound
  <2>3. Requests'[j] = Requests[j + 1]
    BY <1>2
  <2>4. (j + 1 = i + 1 => j = i) /\ (i + 1 < j + 1 => i < j)
    BY <2>1
  <2> QED
    BY <2>2, <2>3, <2>4
<1>5. NoPlug' <=> NoPlug
  <2>1. \A i \in 1..Count : i = 1 \/ i - 1 \in 1..Count'
    BY <1>1
  <2>2. \A i \in 1..Count : i # 1 => Requests'[i - 1] = Requests[i]
    <3>1. \A i \in 1..Count : (i - 1) + 1 = i
      BY <1>1
    <3> QED
      BY <1>2, <2>1, <3>1
  <2> QED
    BY <1>2, <2>1, <2>2 DEF NoPlug
<1>6. User(idTag, IF NoPlug THEN hmi.connector ELSE Free)'
  BY <1>5 DEF Bound, User
<1> QED
  BY <1>3, <1>4, <1>6 DEF Bound

LEMMA BoundExtends ==
    ASSUME NEW f, Extended(f), Bound, ~IsPlug(f), IsAsk(f) => Connector(f) = hmi.connector,
           hmi'.connector = hmi.connector, UNCHANGED <<userDB, idTag>>
    PROVE  Bound'
<1>1. Count \in Nat /\ Count' = Count + 1 /\ Requests'[Count + 1] = f
  BY DEF Extended
<1>2. \A i \in 1..Count' : (i \in 1..Count /\ Requests'[i] = Requests[i]) \/ (i = Count + 1 /\ Requests'[i] = f)
  BY <1>1 DEF Extended
<1>3. \A i \in 1..Count' : IsPlug(Requests'[i]) \/ IsAsk(Requests'[i]) => Connector(Requests'[i]) = hmi'.connector
  BY <1>2 DEF Bound
<1>4. ASSUME NEW i \in 1..Count', NEW j \in 1..Count', IsPlug(Requests'[i])
      PROVE  (IsPlug(Requests'[j]) => j = i) /\ (IsAsk(Requests'[j]) => i < j)
  <2>1. i \in 1..Count /\ IsPlug(Requests[i])
    BY <1>2, <1>4
  <2>2. CASE j \in 1..Count /\ Requests'[j] = Requests[j]
    BY <2>1, <2>2 DEF Bound
  <2>3. CASE j = Count + 1 /\ Requests'[j] = f
    BY <1>1, <2>1, <2>3
  <2> QED
    BY <1>2, <2>2, <2>3
<1>5. NoPlug' <=> NoPlug
  <2>1. \A i \in 1..Count : i \in 1..Count' /\ Requests'[i] = Requests[i]
    BY <1>1 DEF Extended
  <2> QED
    BY <1>2, <2>1 DEF NoPlug
<1>6. User(idTag, IF NoPlug THEN hmi.connector ELSE Free)'
  BY <1>5 DEF Bound, User
<1> QED
  BY <1>3, <1>4, <1>6 DEF Bound

LEMMA LogoutShifts ==
    ASSUME Shifted, NEW p \in 1..Count, LogoutAt(p), p # 1
    PROVE  \E q \in 1..Count' : LogoutAt(q)'
<1> DEFINE q == p - 1
<1>1. Count' \in Nat /\ Count = Count' + 1
  BY DEF Shifted
<1>2. q \in 1..Count' /\ q + 1 = p /\ q \in Nat /\ q > 0 /\ p = (q + 1)
  <2> DEFINE m == Count'
             n == Count
  <2>1. m \in Nat /\ n = m + 1 /\ p \in 1..n /\ p # 1
    BY <1>1
  <2> HIDE DEF m, n
  <2>2. q \in 1..m /\ q + 1 = p /\ q \in Nat /\ q > 0
    BY <2>1
  <2> QED
    BY <2>2 DEF m
<1> HIDE DEF q
<1>3. NoneFrom((q + 1) + 1)
  BY <1>2 DEF LogoutAt
<1>4. NoneFrom(q + 1)'
  BY <1>2, <1>3, NoneShifts
<1>5. IsLogout(Requests'[q])
  BY <1>2 DEF LogoutAt, Shifted
<1>6. \A i \in 1..(q - 1) : ~IsLogout(Requests'[i])
  <2> SUFFICES ASSUME NEW i \in 1..(q - 1) PROVE ~IsLogout(Requests'[i])
    OBVIOUS
  <2>1. i \in 1..Count' /\ i + 1 \in 1..(p - 1)
    BY <1>1, <1>2
  <2>2. Requests'[i] = Requests[i + 1]
    BY <2>1 DEF Shifted
  <2> QED
    BY <2>1, <2>2 DEF LogoutAt
<1> QED
  BY <1>2, <1>4, <1>5, <1>6 DEF LogoutAt

LEMMA LogoutExtends ==
    ASSUME NEW f, Extended(f), NEW p \in 1..Count, LogoutAt(p), ~OfSession(f)
    PROVE  \E q \in 1..Count' : LogoutAt(q)'
<1>1. Count \in Nat /\ Count' = Count + 1
  BY DEF Extended
<1>2. p \in 1..Count' /\ p + 1 \in Nat /\ p + 1 > 0
  BY <1>1
<1>3. NoneFrom(p + 1)'
  BY <1>2, NoneExtends DEF LogoutAt
<1>4. IsLogout(Requests'[p])
  BY DEF LogoutAt, Extended
<1>5. \A i \in 1..(p - 1) : ~IsLogout(Requests'[i])
  <2>1. \A i \in 1..(p - 1) : i \in 1..Count
    BY <1>1
  <2> QED
    BY <2>1 DEF LogoutAt, Extended
<1> QED
  BY <1>2, <1>3, <1>4, <1>5 DEF LogoutAt

LEMMA SessionStays ==
    ASSUME Out \/ Leaving \/ In, Same, UNCHANGED <<isAuth, idTag, userDB, reader, step, pending, toCims, hmi>>
    PROVE  (Out \/ Leaving \/ In)'
<1>1. Count' = Count /\ Requests' = Requests
  BY DEF Same
<1>2. NoLogin' <=> NoLogin
  BY DEF NoLogin
<1>3. \A n : NoneFrom(n)' <=> NoneFrom(n)
  BY <1>1 DEF NoneFrom
<1>4. Bound => Bound'
  BY <1>1 DEF Bound, NoPlug, User
<1>5. Announced => Announced'
  BY <1>3 DEF Announced, User
<1>6. Present => Present'
  BY <1>1, <1>2, <1>4 DEF Present, NoLogout
<1>7. Gone => Gone'
  <2>1. \A p : LogoutAt(p)' <=> LogoutAt(p)
    BY <1>1, <1>3 DEF LogoutAt
  <2> QED
    BY <1>1, <1>2, <1>4, <2>1 DEF Gone
<1>8. Reading => Reading'
  BY DEF Reading, Full
<1>9. Out => Out'
  BY <1>2, <1>3, <1>8 DEF Out
<1>10. Leaving => Leaving'
  BY <1>2, <1>3 DEF Leaving
<1>11. In => In'
  BY <1>5, <1>6, <1>7 DEF In
<1> QED
  BY <1>9, <1>10, <1>11

LEMMA KeptStays ==
    ASSUME Kept, UNCHANGED userDB,
           \A c \in Connectors : tx'[c] # NoTx /\ tx'[c].active => Active(c) /\ tx[c].tag = tx'[c].tag
    PROVE  Kept'
BY DEF Kept, User, Active

LEMMA LinkSame ==
    ASSUME UNCHANGED linkVars
    PROVE  Same
BY RequestsStay DEF Same

\* A message that is not a login changes nothing of it.
LEMMA OtherTold ==
    ASSUME Typed, NEW m \in Message, ~IsLogin(m), toCims' = Append(toCims, m)
    PROVE  /\ NoLogin => NoLogin'
           /\ Announced /\ UNCHANGED <<idTag, userDB, hmi>> /\ NoneFrom(1)' => Announced'
<1>1. toCims \in Seq(Message)
  BY DEF Typed
<1>2. /\ Len(toCims) \in Nat /\ Len(toCims') = Len(toCims) + 1
      /\ \A i \in 1..Len(toCims') : \/ i \in 1..Len(toCims) /\ toCims'[i] = toCims[i]
                                    \/ i = Len(toCims) + 1 /\ toCims'[i] = m
  BY <1>1, Appended
<1>3. NoLogin => NoLogin'
  BY <1>2 DEF NoLogin
<1>4. ASSUME Announced, UNCHANGED <<idTag, userDB, hmi>>, NoneFrom(1)' PROVE Announced'
  <2>1. PICK i \in 1..Len(toCims) : /\ IsLogin(toCims[i]) /\ User(idTag, toCims[i].connector)
                                    /\ \A j \in 1..Len(toCims) : IsLogin(toCims[j]) => j = i
    BY <1>4 DEF Announced
  <2>2. i \in 1..Len(toCims') /\ toCims'[i] = toCims[i]
    <3> DEFINE n == Len(toCims)
               q == Len(toCims')
    <3>1. n \in Nat /\ q = n + 1 /\ i \in 1..n
      BY <1>2
    <3> HIDE DEF n, q
    <3>2. i \in 1..q /\ i # n + 1
      BY <3>1
    <3> QED
      BY <1>2, <3>2 DEF n, q
  <2>3. \A j \in 1..Len(toCims') : IsLogin(toCims'[j]) => j = i
    BY <1>2, <2>1
  <2>4. User(idTag, toCims[i].connector)'
    BY <1>4, <2>1, <2>2 DEF User
  <2> QED
    BY <1>4, <2>1, <2>2, <2>3, <2>4 DEF Announced
<1> QED
  BY <1>3, <1>4

\* A login that is told, of the user who was read.
LEMMA LoginTold ==
    ASSUME Typed, NoLogin, NEW c \in Byte, toCims' = Append(toCims, Login(c)), User(idTag, c),
           UNCHANGED <<idTag, userDB, hmi>>, ~hmi.shows, NoneFrom(1)'
    PROVE  Announced'
<1> DEFINE m == Login(c)
           n == Len(toCims) + 1
<1>1. toCims \in Seq(Message) /\ m \in Message /\ IsLogin(m) /\ m.connector = c
  BY MessagesType DEF Typed, IsLogin, Login
<1> HIDE DEF m
<1>2. /\ Len(toCims) \in Nat /\ Len(toCims') = n /\ toCims'[n] = m
      /\ \A i \in 1..Len(toCims') : \/ i \in 1..Len(toCims) /\ toCims'[i] = toCims[i]
                                    \/ i = n /\ toCims'[i] = m
  <2>1. toCims' = Append(toCims, m)
    BY DEF m
  <2> QED
    BY <1>1, <2>1, Appended
<1>3. n \in 1..Len(toCims')
  <2> DEFINE l == Len(toCims)
             k == Len(toCims')
  <2>1. l \in Nat /\ k = l + 1
    BY <1>2
  <2> HIDE DEF l, k
  <2>2. l + 1 \in 1..k
    BY <2>1
  <2> QED
    BY <2>2 DEF l, k
<1> HIDE DEF n
<1>4. \A j \in 1..Len(toCims') : IsLogin(toCims'[j]) => j = n
  BY <1>2 DEF NoLogin
<1>5. User(idTag, c)'
  BY DEF User
<1>6. IsLogin(toCims'[n]) /\ \E i \in Slots : userDB'[i] = [idTag |-> idTag', connectorID |-> toCims'[n].connector]
  BY <1>1, <1>2, <1>5 DEF User
<1> QED
  BY <1>3, <1>4, <1>6 DEF Announced, User

LEMMA TapSession ==
    ASSUME Fine, Session, NEW card \in Tags, Tap(card), Calm(Strange)'
    PROVE  Session'
<1>1. /\ isAuth = 0 /\ ~Full /\ reader' = [at |-> "read", card |-> card, slot |-> 0]
      /\ odd' = odd \cup (IF pending # <<>> THEN {"second card"} ELSE {}) \cup (IF card = NoTag THEN {"misread"} ELSE {})
      /\ UNCHANGED <<isAuth, idTag, userDB, step, pending, tx, toCims, hmi, cable, linkVars>>
  BY DEF Tap, Idle
<1>2. pending = <<>> /\ card # NoTag
  BY <1>1 DEF Calm, Strange
<1>3. Kept'
  BY <1>1 DEF Session, Kept, User, Active
<1>4. Same
  BY <1>1, LinkSame
<1>5. NoneFrom(1)' <=> NoneFrom(1)
  BY <1>4 DEF Same, NoneFrom
<1>6. NoneFrom(2)' <=> NoneFrom(2)
  BY <1>4 DEF Same, NoneFrom
<1>7. NoLogin' <=> NoLogin
  BY <1>1 DEF NoLogin
<1>8. ~In
  <2>1. isAuth = 0
    BY <1>1
  <2> QED
    BY <2>1 DEF In
<1>9. Reading'
  BY <1>1, <1>2 DEF Reading, Full
<1>10. Out => Out'
  BY <1>1, <1>5, <1>7, <1>9 DEF Out
<1>11. Leaving => Leaving'
  BY <1>1, <1>6, <1>7 DEF Leaving
<1> QED
  BY <1>3, <1>8, <1>10, <1>11 DEF Session

LEMMA ReadCardSession ==
    ASSUME Fine, Session, ReadCard, Calm(Strange)'
    PROVE  Session'
<1>1. /\ SetTag \/ AskServer \/ AddUser \/ LogIn
      /\ odd' = (IF LoggingOut THEN odd \cup {"overlap"} ELSE odd)
      /\ UNCHANGED <<step, tx, hmi, cable, linkVars>>
  BY DEF ReadCard, Odd
<1>2. ~LoggingOut
  BY <1>1 DEF Calm, Strange
<1>3. /\ Stepped /\ OneEach /\ Typed /\ Heard
  BY FineIs
<1>4. reader.at # "idle"
  BY <1>1 DEF SetTag, AskServer, AddUser, LogIn
<1>5. Out /\ Kept
  <2>1. ~Leaving
    BY <1>2, <1>3 DEF Leaving, Stepped, LoggingOut, IsLogout
  <2>2. ~In
    BY <1>4 DEF In
  <2> QED
    BY <2>1, <2>2 DEF Session
<1>6. isAuth = 0 /\ ~hmi.shows /\ NoLogin /\ NoneFrom(1) /\ Reading /\ pending = <<>>
  BY <1>4, <1>5 DEF Out, Reading
<1>7. Same
  BY <1>1, LinkSame
<1>8. NoneFrom(1)'
  BY <1>6, <1>7 DEF Same, NoneFrom
<1>9. ASSUME UNCHANGED <<isAuth, toCims>>, Reading' PROVE Out'
  BY <1>1, <1>6, <1>8, <1>9 DEF Out, NoLogin
<1>10. ASSUME userDB' = userDB PROVE Kept'
  BY <1>1, <1>5, <1>10 DEF Kept, User, Active
<1>11. CASE SetTag
  <2>1. /\ reader.at = "read" /\ idTag' = reader.card /\ reader' = [reader EXCEPT !.at = "look"]
        /\ UNCHANGED <<isAuth, userDB, pending, toCims>>
    BY <1>11 DEF SetTag
  <2>2. reader'.at = "look"
    BY <1>3, <2>1 DEF Typed
  <2>3. idTag' # NoTag /\ ~Full
    BY <1>6, <2>1 DEF Reading
  <2>4. Reading'
    BY <1>6, <2>1, <2>2, <2>3 DEF Reading, Full
  <2> QED
    BY <1>9, <1>10, <2>1, <2>4 DEF Session
<1>12. CASE AskServer
  <2> DEFINE k == Least(Known(idTag))
  <2>1. /\ reader.at = "look" /\ Known(idTag) # {}
        /\ pending' = Append(pending, k) /\ reader' = Idle
        /\ UNCHANGED <<isAuth, idTag, userDB, toCims>>
    BY <1>12 DEF AskServer
  <2>2. Known(idTag) \in SUBSET Slots
    BY DEF Known
  <2>3. k \in Known(idTag) /\ k \in Slots
    BY <2>1, <2>2, LeastIs
  <2> HIDE DEF k
  <2>4. userDB[k].idTag = idTag
    BY <2>3 DEF Known
  <2>5. Len(pending') = 1 /\ pending'[1] = k
    BY <1>6, <2>1
  <2>6. reader'.at = "idle"
    BY <2>1 DEF Idle
  <2>7. idTag # NoTag
    BY <1>6, <2>1 DEF Reading
  <2>8. Reading'
    BY <2>1, <2>4, <2>5, <2>6, <2>7 DEF Reading
  <2> QED
    BY <1>9, <1>10, <2>1, <2>8 DEF Session
<1>13. CASE AddUser
  <2> DEFINE k == IF userDB[1].connectorID = Free THEN 1 ELSE 2
  <2>1. /\ reader.at = "look" /\ Known(idTag) = {}
        /\ userDB' = [userDB EXCEPT ![k].idTag = idTag] /\ reader' = [reader EXCEPT !.at = "login", !.slot = k]
        /\ UNCHANGED <<isAuth, idTag, pending, toCims>>
    BY Zenon, <1>13 DEF AddUser
  <2>2. k \in Slots /\ userDB[k].connectorID = Free
    BY <1>6, <2>1, Bytes DEF Reading, Full
  <2> HIDE DEF k
  <2>3. userDB'[k].idTag = idTag /\ \A j \in Slots : j # k => userDB'[j] = userDB[j]
    BY <1>3, <2>1, <2>2 DEF Typed
  <2>4. reader'.at = "login" /\ reader'.slot = k
    BY <1>3, <2>1 DEF Typed
  <2>5. Reading'
    BY <1>6, <2>1, <2>3, <2>4 DEF Reading
  <2>6. Kept'
    <3> SUFFICES ASSUME NEW c \in Connectors, tx[c] # NoTx, tx[c].active, tx[c].tag # ServerTag
                 PROVE  User(tx[c].tag, c)'
      BY <1>1 DEF Kept, Active
    <3>1. PICK j \in Slots : userDB[j] = [idTag |-> tx[c].tag, connectorID |-> c]
      BY <1>5 DEF Kept, Active, User
    <3>2. j # k
      BY <2>2, <3>1, ConnectorOrFreeType
    <3> QED
      BY <1>1, <2>3, <3>1, <3>2 DEF User
  <2> QED
    BY <1>9, <2>1, <2>5, <2>6 DEF Session
<1>14. CASE LogIn
  <2>1. /\ reader.at = "login" /\ isAuth' = 1 /\ toCims' = Append(toCims, Login(Shown(reader.slot)))
        /\ reader' = Idle /\ UNCHANGED <<idTag, userDB, pending>>
    BY <1>14 DEF LogIn
  <2>2. reader.slot \in Slots /\ idTag # NoTag /\ userDB[reader.slot].idTag = idTag
    BY <1>3, <1>6, <2>1 DEF Reading, Typed
  <2>3. User(idTag, Shown(reader.slot)) /\ Shown(reader.slot) \in Byte
    <3>1. userDB[reader.slot] \in [idTag : Tags, connectorID : Byte]
      BY <1>3, <2>2 DEF Typed
    <3>2. userDB[reader.slot] = [idTag |-> idTag, connectorID |-> Shown(reader.slot)]
      BY <2>2, <3>1 DEF Shown
    <3> QED
      BY <2>2, <3>1, <3>2 DEF User, Shown
  <2>4. Announced'
    BY <1>1, <1>3, <1>6, <1>8, <2>1, <2>3, LoginTold
  <2>5. reader'.at = "idle"
    BY <2>1 DEF Idle
  <2>6. step = "enter"
    BY <1>6, NoneStarted
  <2>7. In'
    BY <1>1, <1>6, <2>1, <2>2, <2>4, <2>5, <2>6 DEF In
  <2> QED
    BY <1>10, <2>1, <2>7 DEF Session
<1> QED
  BY <1>1, <1>11, <1>12, <1>13, <1>14

LEMMA AuthorizedSession ==
    ASSUME Fine, Session, Authorized, Calm(Strange)'
    PROVE  Session'
<1>1. /\ reader.at = "idle" /\ pending # <<>> /\ pending' = Tail(pending)
      /\ odd' = (IF LoggingOut THEN odd \cup {"overlap"} ELSE odd)
      /\ UNCHANGED <<idTag, userDB, reader, step, tx, hmi, cable, linkVars>>
  BY DEF Authorized, Odd
<1>2. \/ isAuth' = 0 /\ UNCHANGED toCims
      \/ UNCHANGED <<isAuth, toCims>>
      \/ isAuth' = 1 /\ toCims' = Append(toCims, Login(Shown(Head(pending))))
  BY DEF Authorized
<1>3. Out /\ Kept
  BY <1>1 DEF Session, Leaving, In
<1>4. isAuth = 0 /\ ~hmi.shows /\ NoLogin /\ NoneFrom(1) /\ Reading
  BY <1>3 DEF Out
<1>5. /\ Len(pending) = 1 /\ idTag # NoTag /\ userDB[pending[1]].idTag = idTag
  BY <1>1, <1>4 DEF Reading
<1>6. Typed
  BY FineIs
<1>7. pending' = <<>> /\ Head(pending) = pending[1] /\ pending[1] \in Slots
  <2>1. pending \in Seq(Slots)
    BY <1>6 DEF Typed
  <2>2. Head(pending) = pending[1] /\ Head(pending) \in Slots /\ Tail(pending) \in Seq(Slots) /\ Len(Tail(pending)) = Len(pending) - 1
    BY <1>1, <2>1, HeadTailProperties
  <2>3. Len(Tail(pending)) = 0
    BY <1>5, <2>2
  <2>4. Tail(pending) = <<>>
    BY <2>2, <2>3, EmptySeq
  <2> QED
    BY <1>1, <2>2, <2>4
<1>8. Same
  BY <1>1, LinkSame
<1>9. NoneFrom(1)'
  BY <1>4, <1>8 DEF Same, NoneFrom
<1>10. Kept'
  BY <1>1, <1>3 DEF Kept, User, Active
<1>11. ASSUME isAuth' = 0, UNCHANGED toCims PROVE Out'
  <2>1. Reading'
    BY <1>1, <1>7 DEF Reading
  <2> QED
    BY <1>1, <1>4, <1>9, <1>11, <2>1 DEF Out, NoLogin
<1>12. ASSUME isAuth' = 1, toCims' = Append(toCims, Login(Shown(Head(pending)))) PROVE In'
  <2> DEFINE k == pending[1]
  <2>1. k \in Slots /\ userDB[k].idTag = idTag /\ toCims' = Append(toCims, Login(Shown(k)))
    BY <1>5, <1>7, <1>12
  <2> HIDE DEF k
  <2>2. User(idTag, Shown(k)) /\ Shown(k) \in Byte
    <3>1. userDB[k] \in [idTag : Tags, connectorID : Byte]
      BY <1>6, <2>1 DEF Typed
    <3>2. userDB[k] = [idTag |-> idTag, connectorID |-> Shown(k)]
      BY <2>1, <3>1 DEF Shown
    <3> QED
      BY <2>1, <3>1, <3>2 DEF User, Shown
  <2>3. Announced'
    BY <1>1, <1>4, <1>6, <1>9, <2>1, <2>2, LoginTold
  <2>4. step = "enter"
    BY <1>4, NoneStarted
  <2> QED
    BY <1>1, <1>5, <1>7, <1>12, <2>3, <2>4 DEF In
<1> QED
  BY <1>2, <1>4, <1>10, <1>11, <1>12 DEF Session

LEMMA LibrarySession ==
    ASSUME Fine, Session, Library
    PROVE  Session'
<1>1. PICK c \in Connectors : GivesUp(c) \/ Leaves(c)
  BY DEF Library
<1>2. UNCHANGED <<isAuth, idTag, userDB, reader, step, pending, toCims, hmi, cable, odd, linkVars>>
  BY DEF Library
<1>3. Typed
  BY FineIs
<1>4. \A d \in Connectors : tx'[d] # NoTx /\ tx'[d].active => Active(d) /\ tx[d].tag = tx'[d].tag
  <2>1. CASE GivesUp(c)
    <3>1. tx[c] # NoTx /\ tx[c] \in [tag : Tags \cup {ServerTag}, active : BOOLEAN]
      BY <1>3, <2>1 DEF GivesUp, Active, Typed
    <3>2. tx' = [tx EXCEPT ![c] = [@ EXCEPT !.active = FALSE]]
      BY <2>1 DEF GivesUp, Inactive
    <3> QED
      BY <1>3, <3>1, <3>2 DEF Typed, Active
  <2>2. CASE Leaves(c)
    BY <1>3, <2>2 DEF Leaves, Typed, Active
  <2> QED
    BY <1>1, <2>1, <2>2
<1>5. Kept'
  BY <1>2, <1>4, KeptStays DEF Session
<1> QED
  BY <1>2, <1>5, LinkSame, SessionStays DEF Session

LEMMA RemoteSession ==
    ASSUME Fine, Session, NEW c \in Connectors, RemoteControl(c)
    PROVE  Session'
<1>1. /\ \/ tx[c] = NoTx /\ tx' = [tx EXCEPT ![c] = [tag |-> ServerTag, active |-> TRUE]]
            /\ toCims' = Append(toCims, Remote("begin"))
         \/ Active(c) /\ tx' = Inactive(c) /\ toCims' = Append(toCims, Remote("end"))
      /\ UNCHANGED <<isAuth, idTag, userDB, reader, step, pending, hmi, cable, linkVars>>
  BY DEF RemoteControl
<1>2. Typed
  BY FineIs
<1>3. \A d \in Connectors : tx'[d] # NoTx /\ tx'[d].active =>
         tx'[d].tag = ServerTag \/ (Active(d) /\ tx[d].tag = tx'[d].tag)
  <2>1. CASE tx' = [tx EXCEPT ![c] = [tag |-> ServerTag, active |-> TRUE]]
    BY <1>2, <2>1 DEF Typed, Active
  <2>2. CASE Active(c) /\ tx' = Inactive(c)
    <3>1. tx[c] # NoTx /\ tx[c] \in [tag : Tags \cup {ServerTag}, active : BOOLEAN]
      BY <1>2, <2>2 DEF Active, Typed
    <3>2. tx' = [tx EXCEPT ![c] = [@ EXCEPT !.active = FALSE]]
      BY <2>2 DEF Inactive
    <3> QED
      BY <1>2, <3>1, <3>2 DEF Typed, Active
  <2> QED
    BY <1>1, <2>1, <2>2
<1>4. Kept'
  BY <1>1, <1>3 DEF Session, Kept, User, Active
<1>5. PICK m \in Message : ~IsLogin(m) /\ toCims' = Append(toCims, m)
  <2>1. ~IsLogin(Remote("begin")) /\ ~IsLogin(Remote("end"))
    BY DEF IsLogin, Remote
  <2> QED
    BY <1>1, <2>1, MessagesType
<1>6. Same
  BY <1>1, LinkSame
<1>7. \A n : NoneFrom(n)' <=> NoneFrom(n)
  BY <1>6 DEF Same, NoneFrom
<1>8. (NoLogin => NoLogin') /\ (Announced => Announced')
  <2>1. Announced => NoneFrom(1)'
    BY <1>7 DEF Announced
  <2> QED
    BY <1>1, <1>2, <1>5, <2>1, OtherTold
<1>9. Bound => Bound'
  BY <1>1, <1>6 DEF Same, Bound, NoPlug, User
<1>10. Present => Present'
  BY <1>1, <1>6, <1>8, <1>9 DEF Same, Present, NoLogout
<1>11. Gone => Gone'
  <2>1. \A p : LogoutAt(p)' <=> LogoutAt(p)
    BY <1>6, <1>7 DEF Same, LogoutAt
  <2> QED
    BY <1>1, <1>6, <1>8, <1>9, <2>1 DEF Same, Gone
<1>12. Out => Out'
  <2>1. Reading => Reading'
    BY <1>1 DEF Reading, Full
  <2> QED
    BY <1>1, <1>7, <1>8, <2>1 DEF Out
<1>13. Leaving => Leaving'
  BY <1>1, <1>7, <1>8 DEF Leaving
<1>14. In => In'
  BY <1>1, <1>8, <1>10, <1>11 DEF In
<1> QED
  BY <1>4, <1>12, <1>13, <1>14 DEF Session

LEMMA ReadBytesSession ==
    ASSUME Fine, Session, ReadBytes
    PROVE  Session'
<1>1. UNCHANGED <<isAuth, idTag, userDB, reader, step, pending, tx, toCims, hmi, cable, odd>>
  BY DEF ReadBytes, rest
<1>2. Same
  BY FineIs, RequestsRead DEF Same
<1>3. Kept'
  BY <1>1 DEF Session, Kept, User, Active
<1> QED
  BY <1>1, <1>2, <1>3, SessionStays DEF Session

LEMMA StutterSession ==
    ASSUME Session, UNCHANGED vars
    PROVE  Session'
<1>1. UNCHANGED <<isAuth, idTag, userDB, reader, step, pending, tx, toCims, hmi, cable, odd, linkVars>>
  BY DEF vars, rest
<1>2. Kept'
  BY <1>1 DEF Session, Kept, User, Active
<1> QED
  BY <1>1, <1>2, LinkSame, SessionStays DEF Session

\* The CIMS task processes the first of the requests.
LEMMA ProcessIs ==
    ASSUME Fine, Process, Calm(Strange)'
    PROVE  /\ Started(frame) /\ Requests[1] = frame /\ 1 \in 1..Count /\ frame \in BoardFrames
           /\ UNCHANGED <<reader, pending, hmi>>
           /\ IsLogout(frame) => reader.at = "idle"
           /\ Processed => Shifted
<1>1. Started(frame)
  BY Zenon DEF Process, LogOut, ClearTag, ClearAuth, Release, Plugged, Bind, Control, Other, Is
<1>2. Requests[1] = frame /\ 1 \in 1..Count /\ frame \in BoardFrames /\ LinkInv
  BY <1>1, FineIs
<1>3. /\ odd' = (IF LoggingOut /\ reader.at # "idle" THEN odd \cup {"overlap"} ELSE odd)
      /\ UNCHANGED <<reader, pending, hmi>>
  BY DEF Process, Odd
<1>4. ~(LoggingOut /\ reader.at # "idle")
  BY <1>3 DEF Calm, Strange
<1>5. IsLogout(frame) => reader.at = "idle"
  BY <1>1, <1>4 DEF LoggingOut, IsLogout
<1>6. Processed => Shifted
  BY <1>1, <1>2, RequestsDone DEF Shifted
<1> QED
  BY <1>1, <1>2, <1>3, <1>5, <1>6

\* A request of a session is processed while somebody is logged in.
LEMMA OfSessionIn ==
    ASSUME Fine, Session, Started(frame), OfSession(frame), step \in {"enter", "bind"}
    PROVE  In /\ (Present \/ Gone)
<1>1. Requests[1] = frame /\ 1 \in 1..Count
  BY FineIs
<1>2. ~NoneFrom(1)
  BY <1>1 DEF NoneFrom
<1> QED
  BY <1>2 DEF Session, Out, Leaving, In, Announced

\* The logout that is processed is the only one.
LEMMA LogoutFirst ==
    ASSUME Fine, Present \/ Gone, Started(frame), IsLogout(frame)
    PROVE  NoneFrom(2) /\ ~hmi.shows /\ NoLogin
<1>1. Requests[1] = frame /\ 1 \in 1..Count
  BY FineIs
<1>2. ~Present
  BY <1>1 DEF Present, NoLogout
<1>3. PICK p \in 1..Count : LogoutAt(p)
  BY <1>2 DEF Gone
<1>4. p = 1
  <2>1. SUFFICES ASSUME p # 1 PROVE FALSE
    OBVIOUS
  <2>2. 1 \in 1..(p - 1)
    BY <2>1
  <2> QED
    BY <1>1, <1>3, <2>2 DEF LogoutAt
<1>5. p + 1 = 2
  BY <1>4
<1>6. NoneFrom(2)
  BY <1>3, <1>5 DEF LogoutAt
<1> QED
  BY <1>2, <1>6 DEF Gone

LEMMA LogOutSession ==
    ASSUME Fine, Session, Process, Calm(Strange)', LogOut
    PROVE  Session'
<1>1. /\ step = "enter" /\ IsLogout(frame) /\ isAuth' = Data(frame) /\ step' = "check"
      /\ UNCHANGED <<idTag, userDB, tx, toCims, linkVars>>
  BY DEF LogOut, Is, Proceed, IsLogout
<1>2. Started(frame) /\ frame \in BoardFrames /\ UNCHANGED <<reader, pending, hmi>>
  BY ProcessIs
<1>3. In /\ (Present \/ Gone)
  BY <1>1, <1>2, OfSessionIn DEF OfSession
<1>4. NoneFrom(2) /\ ~hmi.shows /\ NoLogin
  BY <1>1, <1>2, <1>3, LogoutFirst
<1>5. isAuth' = 0
  BY <1>1, <1>2, BoardFrameIs
<1>6. NoneFrom(2)'
  <2>1. Same
    BY <1>1, LinkSame
  <2> QED
    BY <1>4, <2>1 DEF Same, NoneFrom
<1>7. pending' = <<>>
  BY <1>2, <1>3 DEF In
<1>8. Leaving'
  BY <1>1, <1>2, <1>4, <1>5, <1>6, <1>7 DEF Leaving, NoLogin
<1>9. Kept'
  BY <1>1 DEF Session, Kept, User, Active
<1> QED
  BY <1>8, <1>9 DEF Session

LEMMA ForgetSession ==
    ASSUME Fine, Session, Process, Calm(Strange)', ClearTag \/ ClearAuth \/ Release
    PROVE  Session'
<1>1. step \in {"check", "clear", "release"} /\ UNCHANGED <<tx, toCims>> /\ IsLogout(frame)
  BY DEF ClearTag, ClearAuth, Release, Is, IsLogout
<1>2. UNCHANGED <<reader, pending, hmi>> /\ reader.at = "idle" /\ (Processed => Shifted)
  BY <1>1, ProcessIs
<1>3. Leaving /\ Kept
  BY <1>1, NoneStarted DEF Session, Out, In
<1>4. isAuth = 0 /\ ~hmi.shows /\ NoLogin /\ NoneFrom(2) /\ pending = <<>>
  BY <1>3 DEF Leaving
<1>5. ASSUME step' \in {"clear", "release"}, isAuth' = 0, UNCHANGED <<userDB, linkVars>> PROVE Session'
  <2>1. Same
    BY <1>5, LinkSame
  <2>2. NoneFrom(2)'
    BY <1>4, <2>1 DEF Same, NoneFrom
  <2>3. Leaving'
    BY <1>1, <1>2, <1>4, <1>5, <2>2 DEF Leaving, NoLogin
  <2>4. Kept'
    BY <1>1, <1>3, <1>5 DEF Kept, User, Active
  <2> QED
    BY <2>3, <2>4 DEF Session
<1>6. CASE ClearTag
  <2>1. step' = "clear" /\ UNCHANGED <<isAuth, userDB, linkVars>>
    BY <1>4, <1>6 DEF ClearTag, Proceed
  <2> QED
    BY <1>4, <1>5, <2>1
<1>7. CASE ClearAuth
  BY <1>5, <1>7 DEF ClearAuth, Proceed
<1>8. CASE Release
  <2> DEFINE C == Connector(frame)
             k == Least(OfConnector(C))
  <2>1. /\ step' = "enter" /\ Processed /\ UNCHANGED <<isAuth, idTag>>
        /\ userDB' = IF MayForget(C) /\ OfConnector(C) # {}
                     THEN [userDB EXCEPT ![k] = [idTag |-> NoTag, connectorID |-> Free]] ELSE userDB
    BY <1>8 DEF Release, Done
  <2>2. NoneFrom(1)'
    <3>1. Shifted
      BY <1>2, <2>1
    <3>2. NoneFrom(1 + 1)
      BY <1>4
    <3> QED
      BY <3>1, <3>2, NoneShifts
  <2>3. Reading'
    BY <1>2, <1>4 DEF Reading
  <2>4. Out'
    BY <1>1, <1>2, <1>4, <2>1, <2>2, <2>3 DEF Out, NoLogin
  <2>5. Kept'
    <3> SUFFICES ASSUME NEW c \in Connectors, tx[c] # NoTx, tx[c].active, tx[c].tag # ServerTag
                 PROVE  User(tx[c].tag, c)'
      BY <1>1 DEF Kept, Active
    <3>1. PICK j \in Slots : userDB[j] = [idTag |-> tx[c].tag, connectorID |-> c]
      BY <1>3 DEF Kept, Active, User
    <3>2. CASE MayForget(C) /\ OfConnector(C) # {}
      <4>1. OfConnector(C) \in SUBSET Slots
        BY DEF OfConnector
      <4>2. k \in OfConnector(C)
        BY <3>2, <4>1, LeastIs
      <4> HIDE DEF k
      <4>3. userDB[k].connectorID = C
        BY <4>2 DEF OfConnector
      <4>4. j # k
        BY <3>1, <3>2, <4>3 DEF MayForget
      <4>5. userDB'[j] = userDB[j]
        BY <2>1, <3>2, <4>4, FineIs DEF Typed
      <4> QED
        BY <1>1, <3>1, <4>5 DEF User
    <3>3. CASE ~(MayForget(C) /\ OfConnector(C) # {})
      BY <1>1, <2>1, <3>1, <3>3 DEF User
    <3> QED
      BY <3>2, <3>3
  <2> QED
    BY <2>4, <2>5 DEF Session
<1> QED
  BY <1>6, <1>7, <1>8

\* A request that neither binds nor ends the session is done with.
LEMMA PresentShifts ==
    ASSUME Shifted, Present \/ Gone, ~IsPlug(Requests[1]), ~IsLogout(Requests[1]),
           UNCHANGED <<idTag, userDB, hmi>>, NoLogin'
    PROVE  (Present \/ Gone)'
<1>1. Bound'
  BY BoundShifts DEF Present, Gone
<1>2. Present => Present'
  <2>1. NoLogout => NoLogout'
    BY DEF Shifted, NoLogout
  <2> QED
    BY <1>1, <2>1 DEF Present
<1>3. Gone => Gone'
  <2>1. SUFFICES ASSUME Gone PROVE Gone'
    OBVIOUS
  <2>2. PICK p \in 1..Count : LogoutAt(p)
    BY <2>1 DEF Gone
  <2>3. p # 1
    BY <2>2 DEF LogoutAt
  <2>4. \E q \in 1..Count' : LogoutAt(q)'
    BY <2>2, <2>3, LogoutShifts
  <2> QED
    BY <1>1, <2>1, <2>4 DEF Gone
<1> QED
  BY <1>2, <1>3

\* A frame that is not of a session.
LEMMA NeutralSession ==
    ASSUME Fine, Session, Started(frame), ~OfSession(frame), Shifted, step' = "enter",
           UNCHANGED <<isAuth, idTag, userDB, reader, pending, tx, toCims, hmi>>
    PROVE  Session'
<1>1. Requests[1] = frame
  BY FineIs
<1>2. ~IsPlug(Requests[1]) /\ ~IsLogout(Requests[1])
  BY <1>1 DEF OfSession
<1>3. NoLogin' <=> NoLogin
  BY DEF NoLogin
<1>4. NoneFrom(1) => NoneFrom(1)'
  <2>1. NoneFrom(1) => NoneFrom(1 + 1)
    BY FineIs, NoneWeaker
  <2> QED
    BY <2>1, NoneShifts
<1>5. ~Leaving
  BY <1>1, <1>2, FineIs DEF Leaving, Stepped
<1>6. Out => Out'
  BY <1>3, <1>4 DEF Out, Reading, Full
<1>7. Announced => Announced'
  BY <1>4 DEF Announced, User
<1>8. Present \/ Gone => (Present \/ Gone)'
  <2>1. Present \/ Gone => NoLogin'
    BY <1>3 DEF Present, Gone
  <2> QED
    BY <1>2, <2>1, PresentShifts
<1>9. In => In'
  BY <1>7, <1>8 DEF In
<1>10. Kept'
  BY DEF Session, Kept, User, Active
<1> QED
  BY <1>5, <1>6, <1>9, <1>10 DEF Session

LEMMA PluggedSession ==
    ASSUME Fine, Session, Process, Calm(Strange)', Plugged
    PROVE  Session'
<1>1. /\ step = "enter" /\ Id(frame) = ConnectorStatus
      /\ UNCHANGED <<isAuth, idTag, userDB, tx, toCims>>
  BY DEF Plugged, Is
<1>2. Started(frame) /\ frame \in BoardFrames /\ UNCHANGED <<reader, pending, hmi>> /\ (Processed => Shifted)
  BY ProcessIs
<1>3. CASE Data(frame) # 0
  <2>1. step' = "bind" /\ UNCHANGED linkVars
    BY <1>3 DEF Plugged, Proceed
  <2>2. In /\ (Present \/ Gone)
    BY <1>1, <1>2, <1>3, OfSessionIn DEF OfSession, IsPlug
  <2>3. Same
    BY <2>1, LinkSame
  <2>4. Bound' /\ NoLogin'
    BY <1>1, <1>2, <2>2, <2>3 DEF Same, Present, Gone, Bound, NoPlug, User, NoLogin
  <2>5. Present => Present'
    BY <1>2, <2>3, <2>4 DEF Same, Present, NoLogout
  <2>6. Gone => Gone'
    <3>1. \A p : LogoutAt(p)' <=> LogoutAt(p)
      BY <2>3 DEF Same, LogoutAt, NoneFrom
    <3> QED
      BY <1>2, <2>3, <2>4, <3>1 DEF Same, Gone
  <2>7. In'
    BY <1>1, <1>2, <2>1, <2>2, <2>5, <2>6 DEF In
  <2>8. Kept'
    BY <1>1 DEF Session, Kept, User, Active
  <2> QED
    BY <2>7, <2>8 DEF Session
<1>4. CASE Data(frame) = 0
  <2>1. step' = "enter" /\ Processed
    BY <1>4 DEF Plugged, Done
  <2>2. ~OfSession(frame)
    <3>1. IdTag # ConnectorStatus /\ HmiControlTransaction # ConnectorStatus
      BY DEF IdTag, ConnectorStatus, HmiControlTransaction
    <3> QED
      BY <1>1, <1>4, <3>1 DEF OfSession, IsLogout, IsPlug, IsAsk
  <2> QED
    BY <1>1, <1>2, <2>1, <2>2, NeutralSession
<1> QED
  BY <1>3, <1>4

LEMMA OtherSession ==
    ASSUME Fine, Session, Process, Calm(Strange)', Other
    PROVE  Session'
<1>1. /\ step' = "enter" /\ Processed /\ UNCHANGED <<isAuth, idTag, userDB, tx, toCims>>
      /\ Id(frame) \notin {IdTag, ConnectorStatus, HmiControlTransaction}
  BY DEF Other, Done
<1>2. Started(frame) /\ UNCHANGED <<reader, pending, hmi>> /\ Shifted
  BY <1>1, ProcessIs
<1>3. ~OfSession(frame)
  BY <1>1 DEF OfSession, IsLogout, IsPlug, IsAsk
<1> QED
  BY <1>1, <1>2, <1>3, NeutralSession

\* The first request is the plug: the user who is logged in has no connector yet.
LEMMA PlugFirst ==
    ASSUME Fine, Bound, Started(frame), IsPlug(frame)
    PROVE  /\ Connector(frame) = hmi.connector /\ User(idTag, Free)
           /\ \A i \in 1..Count : IsPlug(Requests[i]) => i = 1
<1>1. Requests[1] = frame /\ 1 \in 1..Count
  BY FineIs
<1>2. ~NoPlug
  BY <1>1 DEF NoPlug
<1>3. Connector(frame) = hmi.connector /\ \A i \in 1..Count : IsPlug(Requests[i]) => i = 1
  BY <1>1 DEF Bound
<1>4. User(idTag, Free)
  BY <1>2 DEF Bound
<1> QED
  BY <1>3, <1>4

LEMMA BindSession ==
    ASSUME Fine, Session, Process, Calm(Strange)', Bind
    PROVE  Session'
<1> DEFINE k == Least(Known(idTag))
           C == Connector(frame)
<1>1. /\ step = "bind" /\ step' = "enter" /\ Processed /\ UNCHANGED <<isAuth, idTag, tx, toCims>>
      /\ userDB' = IF Known(idTag) = {} THEN userDB ELSE [userDB EXCEPT ![k].connectorID = C]
  BY DEF Bind, Is, Done
<1>2. /\ Started(frame) /\ frame \in BoardFrames /\ UNCHANGED <<reader, pending, hmi>> /\ Shifted
      /\ Requests[1] = frame /\ 1 \in 1..Count
  BY <1>1, ProcessIs
<1>3. IsPlug(frame) /\ OneEach /\ Typed
  BY <1>1, FineIs DEF Stepped
<1>4. In /\ (Present \/ Gone)
  BY <1>1, <1>2, <1>3, OfSessionIn DEF OfSession
<1>5. Bound /\ NoLogin /\ idTag # NoTag
  BY <1>4 DEF Present, Gone, In
<1>6. /\ C = hmi.connector /\ User(idTag, Free)
      /\ \A i \in 1..Count : IsPlug(Requests[i]) => i = 1
  BY <1>2, <1>3, <1>5, PlugFirst
<1>7. PICK j \in Slots : userDB[j] = [idTag |-> idTag, connectorID |-> Free]
  BY <1>6 DEF User
<1>8. k = j
  <2>1. j \in Known(idTag)
    BY <1>7 DEF Known
  <2>2. Known(idTag) \in SUBSET Slots /\ Known(idTag) # {}
    BY <2>1 DEF Known
  <2>3. k \in Known(idTag)
    BY <2>2, LeastIs
  <2> HIDE DEF k
  <2>4. k \in Slots /\ userDB[k].idTag = idTag
    BY <2>3 DEF Known
  <2>5. userDB[j].idTag = idTag
    BY <1>7
  <2> QED
    BY <1>3, <1>5, <1>7, <2>4, <2>5 DEF OneEach
<1>9. userDB' = [userDB EXCEPT ![j].connectorID = C]
  <2>1. Known(idTag) # {}
    BY <1>7 DEF Known
  <2> QED
    BY <1>1, <1>8, <2>1
<1> HIDE DEF k, C
<1>10. userDB'[j] = [idTag |-> idTag, connectorID |-> C] /\ \A i \in Slots : i # j => userDB'[i] = userDB[i]
  <2>1. userDB'[j] = [userDB[j] EXCEPT !.connectorID = C] /\ \A i \in Slots : i # j => userDB'[i] = userDB[i]
    BY <1>3, <1>7, <1>9 DEF Typed
  <2> QED
    BY <1>7, <2>1
<1>11. \A i \in 1..Count' : i + 1 \in 1..Count /\ i + 1 # 1 /\ Requests'[i] = Requests[i + 1]
  <2>1. Count' \in Nat /\ \A i \in 1..Count' : i + 1 \in 1..Count /\ Requests'[i] = Requests[i + 1]
    BY <1>2 DEF Shifted
  <2>2. \A i \in 1..Count' : i + 1 # 1
    BY <2>1
  <2> QED
    BY <2>1, <2>2
<1>12. NoPlug'
  BY <1>6, <1>11 DEF NoPlug
<1>13. Bound'
  <2>1. \A i \in 1..Count' : IsPlug(Requests'[i]) \/ IsAsk(Requests'[i]) => Connector(Requests'[i]) = hmi'.connector
    BY <1>2, <1>5, <1>11 DEF Bound
  <2>2. User(idTag, hmi.connector)'
    BY <1>1, <1>2, <1>6, <1>7, <1>10 DEF User
  <2> QED
    BY <1>12, <2>1, <2>2 DEF Bound, NoPlug
<1>14. ~IsLogout(Requests[1])
  <2>1. IdTag # ConnectorStatus
    BY DEF IdTag, ConnectorStatus
  <2> QED
    BY <1>2, <1>3, <2>1 DEF IsPlug, IsLogout
<1>15. NoLogin'
  BY <1>1, <1>5 DEF NoLogin
<1>16. Present => Present'
  <2>1. NoLogout => NoLogout'
    BY <1>11 DEF NoLogout
  <2> QED
    BY <1>2, <1>13, <1>15, <2>1 DEF Present
<1>17. Gone => Gone'
  <2>1. SUFFICES ASSUME Gone PROVE Gone'
    OBVIOUS
  <2>2. PICK p \in 1..Count : LogoutAt(p)
    BY <2>1 DEF Gone
  <2>3. p # 1
    BY <1>14, <2>2 DEF LogoutAt
  <2>4. \E q \in 1..Count' : LogoutAt(q)'
    BY <1>2, <2>2, <2>3, LogoutShifts
  <2> QED
    BY <1>2, <1>13, <1>15, <2>1, <2>4 DEF Gone
<1>18. In'
  BY <1>1, <1>2, <1>4, <1>16, <1>17 DEF In
<1>19. Kept'
  <2> SUFFICES ASSUME NEW c \in Connectors, tx[c] # NoTx, tx[c].active, tx[c].tag # ServerTag
               PROVE  User(tx[c].tag, c)'
    BY <1>1 DEF Kept, Active
  <2>1. PICK i \in Slots : userDB[i] = [idTag |-> tx[c].tag, connectorID |-> c]
    BY DEF Session, Kept, Active, User
  <2>2. i # j
    BY <1>7, <2>1, ConnectorOrFreeType
  <2> QED
    BY <1>1, <1>10, <2>1, <2>2 DEF User
<1> QED
  BY <1>18, <1>19 DEF Session

\* What the display asks for is processed with its user bound to its connector.
LEMMA AskFirst ==
    ASSUME Fine, Session, Started(frame), IsAsk(frame), step = "enter"
    PROVE  /\ In /\ (Present \/ Gone)
           /\ Connector(frame) = hmi.connector /\ Connector(frame) \in Connectors
           /\ User(idTag, Connector(frame))
           /\ ~IsPlug(frame) /\ ~IsLogout(frame)
<1>1. Requests[1] = frame /\ 1 \in 1..Count /\ frame \in BoardFrames
  BY FineIs
<1>2. In /\ (Present \/ Gone)
  BY OfSessionIn DEF OfSession
<1>3. Bound
  BY <1>2 DEF Present, Gone
<1>4. Connector(frame) = hmi.connector
  BY <1>1, <1>3 DEF Bound
<1>5. Connector(frame) \in Connectors /\ ~IsPlug(frame) /\ ~IsLogout(frame)
  BY <1>1, BoardFrameIs
<1>6. NoPlug
  <2>1. \A i \in 1..Count : ~(i < 1)
    OBVIOUS
  <2> QED
    BY <1>1, <1>3, <2>1 DEF Bound, NoPlug
<1>7. User(idTag, hmi.connector)
  BY <1>3, <1>6 DEF Bound
<1> QED
  BY <1>2, <1>4, <1>5, <1>7

LEMMA ConfirmationType ==
    ASSUME NEW c \in Byte, NEW done \in BOOLEAN
    PROVE  Confirmation(c, done) \in Message /\ ~IsLogin(Confirmation(c, done))
<1>1. ~IsLogin(Confirmation(c, done))
  BY DEF IsLogin, Confirmation
<1> QED
  BY <1>1, MessagesType

LEMMA ControlSession ==
    ASSUME Fine, Session, Process, Calm(Strange)', Control
    PROVE  Session'
<1> DEFINE c == Connector(frame)
<1>1. /\ step = "enter" /\ IsAsk(frame) /\ step' = "enter" /\ Processed /\ UNCHANGED <<isAuth, idTag, userDB>>
      /\ (~NothingToCompare(c) /\ End(c)) \/ \E ok \in BOOLEAN : Begin(c, ok)
  BY Zenon DEF Control, Is, Done, IsAsk
<1>2. Started(frame) /\ UNCHANGED <<reader, pending, hmi>> /\ Shifted /\ Requests[1] = frame
  BY <1>1, ProcessIs
<1>3. /\ In /\ (Present \/ Gone) /\ c \in Connectors /\ User(idTag, c)
      /\ ~IsPlug(Requests[1]) /\ ~IsLogout(Requests[1])
  BY <1>1, <1>2, AskFirst
<1> HIDE DEF c
<1>4. Typed
  BY FineIs
<1>5. toCims' = toCims \/ \E done \in BOOLEAN : toCims' = Append(toCims, Confirmation(c, done))
  <2>1. (tx[c] # NoTx) \in BOOLEAN
    OBVIOUS
  <2> QED
    BY <1>1, <2>1, Zenon DEF End, Begin
<1>6. NoLogin'
  <2>1. NoLogin
    BY <1>3 DEF Present, Gone
  <2>2. CASE toCims' = toCims
    BY <2>1, <2>2 DEF NoLogin
  <2>3. CASE \E done \in BOOLEAN : toCims' = Append(toCims, Confirmation(c, done))
    <3>1. PICK m \in Message : ~IsLogin(m) /\ toCims' = Append(toCims, m)
      BY <1>3, <2>3, Bytes, ConfirmationType
    <3> QED
      BY <1>4, <2>1, <3>1, OtherTold
  <2> QED
    BY <1>5, <2>2, <2>3
<1>7. (Present \/ Gone)'
  BY <1>1, <1>2, <1>3, <1>6, PresentShifts
<1>8. In'
  BY <1>1, <1>2, <1>3, <1>7 DEF In
<1>9. \A d \in Connectors : tx'[d] # NoTx /\ tx'[d].active =>
         \/ Active(d) /\ tx[d].tag = tx'[d].tag
         \/ d = c /\ tx'[d].tag = idTag
  <2>1. CASE tx' = tx
    BY <2>1 DEF Active
  <2>2. CASE tx' = [tx EXCEPT ![c] = [tag |-> idTag, active |-> TRUE]]
    BY <1>3, <1>4, <2>2 DEF Typed, Active
  <2>3. CASE Active(c) /\ tx' = Inactive(c)
    <3>1. tx[c] # NoTx /\ tx[c] \in [tag : Tags \cup {ServerTag}, active : BOOLEAN]
      BY <1>3, <1>4, <2>3 DEF Active, Typed
    <3>2. tx' = [tx EXCEPT ![c] = [@ EXCEPT !.active = FALSE]]
      BY <2>3 DEF Inactive
    <3> QED
      BY <1>3, <1>4, <3>1, <3>2 DEF Typed, Active
  <2> QED
    BY <1>1, <2>1, <2>2, <2>3, Zenon DEF End, Begin
<1>10. Kept'
  BY <1>1, <1>3, <1>9 DEF Session, Kept, User, Active
<1> QED
  BY <1>8, <1>10 DEF Session

LEMMA ProcessSession ==
    ASSUME Fine, Session, Process, Calm(Strange)'
    PROVE  Session'
<1>1. LogOut \/ (ClearTag \/ ClearAuth \/ Release) \/ Plugged \/ Bind \/ Control \/ Other
  BY DEF Process
<1> QED
  BY <1>1, LogOutSession, ForgetSession, PluggedSession, BindSession, ControlSession, OtherSession

\* A message that the display hears.
LEMMA HearsSession ==
    ASSUME Fine, Session, DisplayHears, UNCHANGED <<isAuth, idTag, userDB, reader, step, pending, tx>>
    PROVE  Session'
<1> DEFINE m == Head(toCims)
<1>1. /\ toCims # <<>> /\ toCims' = Tail(toCims) /\ UNCHANGED linkVars
      /\ hmi' = CASE m.id = "login" -> [shows |-> TRUE, connector |-> m.connector, asks |-> FALSE]
                  [] m.id = "confirmation" -> [hmi EXCEPT !.asks = FALSE]
                  [] OTHER -> hmi
  BY Zenon DEF DisplayHears
<1>2. Typed /\ toCims \in Seq(Message)
  BY FineIs DEF Typed
<1>3. /\ m = toCims[1] /\ 1 \in 1..Len(toCims)
      /\ \A i \in 1..Len(toCims') : i + 1 \in 1..Len(toCims) /\ toCims'[i] = toCims[i + 1]
  BY <1>1, <1>2, Tailed
<1> HIDE DEF m
<1>4. IsLogin(m) => hmi' = [shows |-> TRUE, connector |-> m.connector, asks |-> FALSE]
  BY <1>1 DEF IsLogin
<1>5. ~IsLogin(m) => hmi'.shows = hmi.shows /\ hmi'.connector = hmi.connector
  <2>1. ~IsLogin(m) => hmi' = hmi \/ hmi' = [hmi EXCEPT !.asks = FALSE]
    <3>1. CASE m.id = "confirmation"
      <4>1. "confirmation" # "login"
        OBVIOUS
      <4>2. hmi' = [hmi EXCEPT !.asks = FALSE]
        BY <1>1, <3>1, <4>1
      <4> QED
        BY <4>2
    <3>2. CASE m.id # "confirmation"
      BY <1>1, <3>2 DEF IsLogin
    <3> QED
      BY <3>1, <3>2
  <2> QED
    BY <1>2, <2>1 DEF Typed
<1>6. Same
  BY <1>1, LinkSame
<1>7. \A n : NoneFrom(n)' <=> NoneFrom(n)
  BY <1>6 DEF Same, NoneFrom
<1>8. Kept'
  BY DEF Session, Kept, User, Active
<1>9. ASSUME NoLogin PROVE ~IsLogin(m) /\ NoLogin'
  BY <1>3, <1>9 DEF NoLogin
<1>10. ASSUME ~IsLogin(m) PROVE Bound => Bound'
  BY <1>5, <1>6, <1>10 DEF Same, Bound, NoPlug, User
<1>11. Out => Out'
  <2>1. Reading => Reading'
    BY DEF Reading, Full
  <2> QED
    BY <1>5, <1>7, <1>9, <2>1 DEF Out
<1>12. Leaving => Leaving'
  BY <1>5, <1>7, <1>9 DEF Leaving
<1>13. Present => Present'
  BY <1>5, <1>6, <1>9, <1>10 DEF Same, Present, NoLogout
<1>14. Gone => Gone'
  <2>1. \A p : LogoutAt(p)' <=> LogoutAt(p)
    BY <1>6, <1>7 DEF Same, LogoutAt
  <2> QED
    BY <1>5, <1>6, <1>9, <1>10, <2>1 DEF Same, Gone
<1>15. ASSUME Announced PROVE (Announced \/ Present)'
  <2>1. PICK i \in 1..Len(toCims) : /\ IsLogin(toCims[i]) /\ User(idTag, toCims[i].connector)
                                    /\ \A j \in 1..Len(toCims) : IsLogin(toCims[j]) => j = i
    BY <1>15 DEF Announced
  <2>2. NoneFrom(1)' /\ NoneFrom(1)
    BY <1>7, <1>15 DEF Announced
  <2>3. CASE i = 1
    <3>1. IsLogin(m) /\ User(idTag, m.connector)
      BY <1>3, <2>1, <2>3
    <3>2. hmi'.shows /\ hmi'.connector = m.connector
      BY <1>4, <3>1
    <3>3. \A j \in 1..Len(toCims') : j + 1 # 1
      <4>1. \A j \in 1..Len(toCims') : j \in Int /\ j >= 1
        OBVIOUS
      <4> QED
        BY <4>1
    <3>4. NoLogin'
      BY <1>3, <2>1, <2>3, <3>3 DEF NoLogin
    <3>5. NoPlug' /\ NoLogout' /\ \A j \in 1..Count' : ~IsAsk(Requests'[j]) /\ ~IsPlug(Requests'[j])
      BY <2>2 DEF NoneFrom, OfSession, NoPlug, NoLogout
    <3>6. Bound'
      BY <3>1, <3>2, <3>5 DEF Bound, User
    <3> QED
      BY <3>2, <3>4, <3>5, <3>6 DEF Present
  <2>4. CASE i # 1
    <3>1. ~IsLogin(m)
      BY <1>3, <2>1, <2>4
    <3> DEFINE k == i - 1
    <3>2. k \in 1..Len(toCims') /\ k + 1 = i /\ \A j \in Nat : j + 1 = i => j = k
      <4>1. Len(Tail(toCims)) = Len(toCims) - 1 /\ Len(toCims) \in Nat
        BY <1>1, <1>2, Tailed
      <4> DEFINE n == Len(toCims)
                 q == Len(toCims')
      <4>2. n \in Nat /\ q = n - 1 /\ i \in 1..n /\ i # 1
        BY <1>1, <2>4, <4>1
      <4> HIDE DEF n, q
      <4>3. k \in 1..q /\ k + 1 = i /\ \A j \in Nat : j + 1 = i => j = k
        BY <4>2
      <4> QED
        BY <4>3 DEF q
    <3> HIDE DEF k
    <3>3. toCims'[k] = toCims[i]
      BY <1>3, <3>2
    <3>4. \A j \in 1..Len(toCims') : IsLogin(toCims'[j]) => j = k
      <4>1. \A j \in 1..Len(toCims') : j \in Nat
        OBVIOUS
      <4> QED
        BY <1>3, <2>1, <3>2, <4>1
    <3>5. ~hmi'.shows
      BY <1>5, <1>15, <3>1 DEF Announced
    <3>6. IsLogin(toCims'[k]) /\ \E j \in Slots : userDB'[j] = [idTag |-> idTag', connectorID |-> toCims'[k].connector]
      BY <2>1, <3>3 DEF User
    <3> QED
      BY <2>2, <3>2, <3>4, <3>5, <3>6 DEF Announced, User
  <2> QED
    BY <2>3, <2>4
<1>16. In => In'
  BY <1>13, <1>14, <1>15 DEF In
<1> QED
  BY <1>8, <1>11, <1>12, <1>16 DEF Session

\* A request that the board sends.
LEMMA SendExtends ==
    ASSUME Fine, NEW id \in Byte, NEW c \in Byte, NEW data \in Byte, SendRequest(Request(id, c, data)), odd' = odd
    PROVE  /\ Extended(Request(id, c, data)) /\ Id(Request(id, c, data)) = id
           /\ Connector(Request(id, c, data)) = c /\ Data(Request(id, c, data)) = data
<1> DEFINE f == Request(id, c, data)
<1>1. Id(f) = id /\ Connector(f) = c /\ Data(f) = data
  BY RequestIs
<1>2. "noise" \notin odd /\ Typed /\ LinkInv /\ Count \in Nat
  BY FineIs
<1>3. Count' = Count + 1 /\ Requests'[Count + 1] = f /\ \A i \in 1..Count : Requests'[i] = Requests[i]
  BY <1>2, RequestsSent
<1> QED
  BY <1>1, <1>2, <1>3 DEF Extended

\* Only a login that the display shows has it send requests of a session.
LEMMA ShowsPresent ==
    ASSUME Session, hmi.shows
    PROVE  In /\ Present
BY DEF Session, Out, Leaving, In, Announced, Gone

LEMMA LogsOutSession ==
    ASSUME Fine, Session, DisplayLogsOut, UNCHANGED <<isAuth, idTag, userDB, reader, step, pending, tx>>
    PROVE  Session'
<1> DEFINE f == Request(IdTag, hmi.connector, 0)
<1>1. /\ hmi.shows /\ SendRequest(f) /\ hmi' = [hmi EXCEPT !.shows = FALSE]
      /\ UNCHANGED <<cable, odd, toCims>>
  BY DEF DisplayLogsOut
<1>2. In /\ Present
  BY <1>1, ShowsPresent
<1>3. Typed /\ hmi.connector \in Byte
  BY FineIs DEF Typed
<1>4. Extended(f) /\ Id(f) = IdTag
  BY <1>1, <1>3, Bytes, SendExtends
<1> HIDE DEF f
<1>5. IsLogout(f) /\ ~IsPlug(f) /\ ~IsAsk(f)
  <2>1. IdTag # ConnectorStatus /\ IdTag # HmiControlTransaction
    BY DEF IdTag, ConnectorStatus, HmiControlTransaction
  <2> QED
    BY <1>4, <2>1 DEF IsLogout, IsPlug, IsAsk
<1>6. ~hmi'.shows /\ hmi'.connector = hmi.connector
  BY <1>1, <1>3 DEF Typed
<1>7. Bound' /\ NoLogin'
  BY <1>1, <1>2, <1>4, <1>5, <1>6, BoundExtends DEF Present, NoLogin
<1>8. LogoutAt(Count)' /\ Count' \in 1..Count'
  <2>1. Count \in Nat /\ Count' = Count + 1 /\ Requests'[Count + 1] = f
    BY <1>4 DEF Extended
  <2>2. \A i \in 1..(Count' - 1) : ~IsLogout(Requests'[i])
    <3>1. Count' - 1 = Count
      BY <2>1
    <3> QED
      BY <1>2, <1>4, <3>1 DEF Extended, Present, NoLogout
  <2>3. IsLogout(Requests'[Count'])
    BY <1>5, <2>1
  <2>4. \A i \in (Count' + 1)..Count' : FALSE
    BY <2>1
  <2>5. NoneFrom(Count + 1)'
    BY <2>4 DEF NoneFrom
  <2>6. Count' \in 1..Count'
    BY <2>1
  <2> QED
    BY <2>2, <2>3, <2>5, <2>6 DEF LogoutAt
<1>9. Gone'
  <2>1. \E p \in 1..Count' : LogoutAt(p)'
    BY <1>8
  <2> QED
    BY <1>6, <1>7, <2>1 DEF Gone
<1>10. In'
  BY <1>2, <1>9 DEF In
<1>11. Kept'
  BY DEF Session, Kept, User, Active
<1> QED
  BY <1>10, <1>11 DEF Session

LEMMA AsksSession ==
    ASSUME Fine, Session, DisplayAsks, UNCHANGED <<isAuth, idTag, userDB, reader, step, pending, tx>>
    PROVE  Session'
<1>1. /\ hmi.shows /\ hmi.connector \in Connectors /\ hmi' = [hmi EXCEPT !.asks = TRUE]
      /\ UNCHANGED <<cable, odd, toCims>>
      /\ \E data \in {0, 1} : SendRequest(Request(HmiControlTransaction, hmi.connector, data))
  BY DEF DisplayAsks
<1>2. PICK data \in {0, 1} : SendRequest(Request(HmiControlTransaction, hmi.connector, data))
  BY <1>1
<1> DEFINE f == Request(HmiControlTransaction, hmi.connector, data)
<1>3. In /\ Present
  BY <1>1, ShowsPresent
<1>4. Typed
  BY FineIs
<1>5. Extended(f) /\ Id(f) = HmiControlTransaction /\ Connector(f) = hmi.connector
  BY <1>1, <1>2, Bytes, SendExtends
<1> HIDE DEF f
<1>6. ~IsLogout(f) /\ ~IsPlug(f)
  <2>1. IdTag # HmiControlTransaction /\ HmiControlTransaction # ConnectorStatus
    BY DEF IdTag, ConnectorStatus, HmiControlTransaction
  <2> QED
    BY <1>5, <2>1 DEF IsLogout, IsPlug
<1>7. hmi'.shows /\ hmi'.connector = hmi.connector
  BY <1>1, <1>4 DEF Typed
<1>8. Bound' /\ NoLogin'
  BY <1>1, <1>3, <1>5, <1>6, <1>7, BoundExtends DEF Present, NoLogin
<1>9. NoLogout'
  BY <1>3, <1>5, <1>6 DEF Present, NoLogout, Extended
<1>10. In'
  BY <1>3, <1>7, <1>8, <1>9 DEF In, Present
<1>11. Kept'
  BY DEF Session, Kept, User, Active
<1> QED
  BY <1>10, <1>11 DEF Session

\* A user without a connector plugs a cable in: no other request for a connector is under way.
LEMMA PlugInSession ==
    ASSUME Fine, Session, NEW c \in Connectors, PlugIn(c),
           UNCHANGED <<isAuth, idTag, userDB, reader, step, pending, tx>>
    PROVE  Session'
<1> DEFINE f == Request(ConnectorStatus, c, 1)
<1>1. /\ hmi.shows /\ hmi.connector = Free /\ SendRequest(f) /\ hmi' = [hmi EXCEPT !.connector = c]
      /\ UNCHANGED <<odd, toCims>>
  BY DEF PlugIn
<1>2. In /\ Present
  BY <1>1, ShowsPresent
<1>3. Typed
  BY FineIs
<1>4. Extended(f) /\ Id(f) = ConnectorStatus /\ Connector(f) = c /\ Data(f) = 1
  BY <1>1, Bytes, SendExtends
<1> HIDE DEF f
<1>5. IsPlug(f) /\ ~IsLogout(f) /\ ~IsAsk(f)
  <2>1. IdTag # ConnectorStatus /\ ConnectorStatus # HmiControlTransaction
    BY DEF IdTag, ConnectorStatus, HmiControlTransaction
  <2> QED
    BY <1>4, <2>1 DEF IsLogout, IsPlug, IsAsk
<1>6. hmi'.shows /\ hmi'.connector = c
  BY <1>1, <1>3 DEF Typed
<1>7. \A i \in 1..Count : ~IsPlug(Requests[i]) /\ ~IsAsk(Requests[i])
  <2> SUFFICES ASSUME NEW i \in 1..Count, IsPlug(Requests[i]) \/ IsAsk(Requests[i]) PROVE FALSE
    OBVIOUS
  <2>1. Connector(Requests[i]) = Free
    BY <1>1, <1>2 DEF Present, Bound
  <2>2. Requests[i] \in BoardFrames
    BY FineIs
  <2>3. Connector(Requests[i]) \in Connectors
    BY <2>2, BoardFrameIs DEF IsPlug
  <2> QED
    BY <2>1, <2>3, ConnectorOrFreeType
<1>8. /\ Count + 1 \in 1..Count' /\ Requests'[Count + 1] = f
      /\ \A i \in 1..Count' : (i = Count + 1 /\ Requests'[i] = f) \/ (i \in 1..Count /\ Requests'[i] = Requests[i])
  <2>1. Count \in Nat /\ Count' = Count + 1 /\ Requests'[Count + 1] = f
    BY <1>4 DEF Extended
  <2> QED
    BY <1>4, <2>1 DEF Extended
<1>9. User(idTag, Free)
  BY <1>1, <1>2, <1>7 DEF Present, Bound, NoPlug
<1>10. Bound'
  <2>1. ~NoPlug'
    BY <1>5, <1>8 DEF NoPlug
  <2>2. User(idTag, Free)'
    BY <1>9 DEF User
  <2>3. \A i \in 1..Count' : IsPlug(Requests'[i]) \/ IsAsk(Requests'[i]) => i = Count + 1 /\ Requests'[i] = f
    BY <1>7, <1>8
  <2> QED
    BY <1>4, <1>5, <1>6, <2>1, <2>2, <2>3 DEF Bound
<1>11. NoLogout' /\ NoLogin'
  BY <1>1, <1>2, <1>5, <1>8 DEF Present, NoLogout, NoLogin
<1>12. In'
  BY <1>2, <1>6, <1>10, <1>11 DEF In, Present
<1>13. Kept'
  BY DEF Session, Kept, User, Active
<1> QED
  BY <1>12, <1>13 DEF Session

\* A cable is unplugged: what is sent is not of a session.
LEMMA UnplugSession ==
    ASSUME Fine, Session, NEW c \in Connectors, Unplug(c),
           UNCHANGED <<isAuth, idTag, userDB, reader, step, pending, tx>>
    PROVE  Session'
<1> DEFINE f == Request(ConnectorStatus, c, 0)
<1>1. SendRequest(f) /\ UNCHANGED <<hmi, odd, toCims>>
  BY DEF Unplug
<1>2. Extended(f) /\ Id(f) = ConnectorStatus /\ Data(f) = 0
  BY <1>1, Bytes, SendExtends
<1> HIDE DEF f
<1>3. ~OfSession(f)
  <2>1. IdTag # ConnectorStatus /\ ConnectorStatus # HmiControlTransaction
    BY DEF IdTag, ConnectorStatus, HmiControlTransaction
  <2> QED
    BY <1>2, <2>1 DEF OfSession, IsLogout, IsPlug, IsAsk
<1>4. ~IsPlug(f) /\ ~IsAsk(f) /\ ~IsLogout(f)
  BY <1>3 DEF OfSession
<1>5. NoneFrom(1) => NoneFrom(1)'
  BY <1>2, <1>3, NoneExtends
<1>6. NoneFrom(2) => NoneFrom(2)'
  BY <1>2, <1>3, NoneExtends
<1>7. NoLogin' <=> NoLogin
  BY <1>1 DEF NoLogin
<1>8. Bound => Bound'
  BY <1>1, <1>2, <1>4, BoundExtends
<1>9. NoLogout => NoLogout'
  BY <1>2, <1>4 DEF NoLogout, Extended
<1>10. Out => Out'
  BY <1>1, <1>5, <1>7 DEF Out, Reading, Full
<1>11. Leaving => Leaving'
  BY <1>1, <1>6, <1>7 DEF Leaving
<1>12. Announced => Announced'
  BY <1>1, <1>5 DEF Announced, User
<1>13. Present => Present'
  BY <1>1, <1>7, <1>8, <1>9 DEF Present
<1>14. Gone => Gone'
  <2>1. (\E p \in 1..Count : LogoutAt(p)) => \E q \in 1..Count' : LogoutAt(q)'
    BY <1>2, <1>3, LogoutExtends
  <2> QED
    BY <1>1, <1>7, <1>8, <2>1 DEF Gone
<1>15. In => In'
  BY <1>12, <1>13, <1>14 DEF In
<1>16. Kept'
  BY DEF Session, Kept, User, Active
<1> QED
  BY <1>10, <1>11, <1>15, <1>16 DEF Session

LEMMA BoardSession ==
    ASSUME Fine, Session, Board, Calm(Strange)'
    PROVE  Session'
<1>1. UNCHANGED <<isAuth, idTag, userDB, reader, step, pending, tx>>
  BY DEF Board
<1>2. ~Noisy
  BY DEF Noisy, Odd, Calm, Strange
<1>3. \A c \in Connectors : ~PlugInEarly(c)
  BY DEF PlugInEarly, Odd, Calm, Strange
<1>4. DisplayHears \/ DisplayLogsOut \/ DisplayAsks \/ \E c \in Connectors : PlugIn(c) \/ Unplug(c)
  BY <1>2, <1>3 DEF Board
<1> QED
  BY <1>1, <1>4, HearsSession, LogsOutSession, AsksSession, PlugInSession, UnplugSession

LEMMA OddGrows ==
    ASSUME [Next]_vars
    PROVE  odd \subseteq odd'
<1>1. CASE \E card \in Tags : Tap(card)
  BY <1>1 DEF Tap
<1>2. CASE ReadCard \/ Authorized \/ Library \/ \E c \in Connectors : RemoteControl(c)
  BY <1>2 DEF ReadCard, Authorized, Library, RemoteControl, Odd
<1>3. CASE ReadBytes \/ Process \/ UNCHANGED vars
  BY <1>3 DEF ReadBytes, Process, Odd, vars, rest
<1>4. CASE Board
  BY <1>4 DEF Board, DisplayHears, DisplayLogsOut, DisplayAsks, PlugIn, PlugInEarly, Unplug, Noisy, Odd
<1>5. CASE Reboot \/ Crash
  BY <1>5 DEF Reboot, Crash, Restart, Odd
<1> QED
  BY <1>1, <1>2, <1>3, <1>4, <1>5 DEF Next

LEMMA SessionInit == Init => Session
<1> SUFFICES ASSUME Init PROVE Session
  OBVIOUS
<1>1. /\ isAuth = 0 /\ reader = Idle /\ pending = <<>> /\ toCims = <<>> /\ hmi.shows = FALSE
      /\ tx = [c \in Connectors |-> NoTx] /\ LinkInit
  BY DEF Init
<1>2. Count = 0
  BY <1>1 DEF LinkInit, Count, Started
<1>3. NoneFrom(1) /\ NoLogin
  BY <1>1, <1>2 DEF NoneFrom, NoLogin
<1>4. reader.at = "idle"
  BY <1>1 DEF Idle
<1>5. Reading
  BY <1>1, <1>4 DEF Reading
<1>6. Kept
  BY <1>1 DEF Kept, Active
<1> QED
  BY <1>1, <1>3, <1>5, <1>6 DEF Session, Out

LEMMA SessionNext ==
    Typed /\ LinkInv /\ Orderly /\ (Calm(Strange) => Session) /\ [Next]_vars => (Calm(Strange) => Session)'
<1> SUFFICES ASSUME Typed, LinkInv, Orderly, Calm(Strange) => Session, [Next]_vars, Calm(Strange)'
             PROVE  Session'
  OBVIOUS
<1>1. Calm(Strange)
  BY OddGrows DEF Calm
<1>2. Fine /\ Session
  BY <1>1 DEF Fine
<1>3. CASE \E card \in Tags : Tap(card)
  BY <1>2, <1>3, TapSession
<1>4. CASE ReadCard \/ Authorized \/ Library
  BY <1>2, <1>4, ReadCardSession, AuthorizedSession, LibrarySession
<1>5. CASE \E c \in Connectors : RemoteControl(c)
  BY <1>2, <1>5, RemoteSession
<1>6. CASE ReadBytes \/ Process \/ Board
  BY <1>2, <1>6, ReadBytesSession, ProcessSession, BoardSession
<1>7. CASE UNCHANGED vars
  BY <1>2, <1>7, StutterSession
<1>8. ~(Reboot \/ Crash)
  BY DEF Reboot, Crash, Restart, Odd, Calm, Strange
<1> QED
  BY <1>3, <1>4, <1>5, <1>6, <1>7, <1>8 DEF Next

SessionInv == Typed /\ LinkInv /\ Orderly /\ (Calm(Strange) => Session)

LEMMA SessionAlways == Spec => []SessionInv
<1>1. Init => SessionInv
  BY TypedInit, OrderlyInit, SessionInit DEF SessionInv
<1>2. SessionInv /\ [Next]_vars => SessionInv'
  <2> SUFFICES ASSUME SessionInv, [Next]_vars PROVE SessionInv'
    OBVIOUS
  <2>1. Typed' /\ LinkInv' /\ Orderly'
    BY TypedNext, OrderlyNext DEF SessionInv
  <2>2. (Calm(Strange) => Session)'
    BY SessionNext DEF SessionInv
  <2> QED
    BY <2>1, <2>2 DEF SessionInv
<1> QED
  BY <1>1, <1>2, PTL DEF Spec

\* When nothing is under way, the display shows a login if and only if the station has one, with the
\* connector that the station keeps for the tag it has read: but for the six incidents that Agreed
\* names, among them a card that is read while a logout is processed or an answer is due.
\* (readPICC, process: ID_TAG, CONNECTOR_STATUS)
THEOREM AgreedHolds == Spec => []Agreed
<1>1. SessionInv => Agreed
  <2> SUFFICES ASSUME SessionInv, Quiet, Calm(Strange)
               PROVE  (hmi.shows <=> isAuth = 1) /\ (hmi.shows => User(idTag, hmi.connector))
    BY DEF Agreed, Strange
  <2>1. Fine /\ Session
    BY DEF SessionInv, Fine
  <2>2. ahead = 0
    <3>1. ahead \in Nat /\ Aligned
      BY <2>1, FineIs DEF LinkInv
    <3>2. Len(<<>>) = 0
      OBVIOUS
    <3>3. Len(wire) = 0
      BY <3>2 DEF Quiet
    <3>4. 0 + 8 * ahead = 0
      BY <3>1, <3>3 DEF Aligned, Framed
    <3> QED
      BY <3>1, <3>4
  <2>3. Count = 0 /\ ~Started(frame)
    BY <2>2 DEF Quiet, Count, Started
  <2>4. step = "enter"
    BY <2>1, <2>3, FineIs
  <2>5. ~Announced /\ ~Gone
    <3>1. Len(toCims) = 0
      BY DEF Quiet
    <3> QED
      BY <2>3, <3>1 DEF Announced, Gone
  <2>6. Out \/ (In /\ Present)
    BY <2>1, <2>4, <2>5 DEF Session, Leaving, In
  <2>7. CASE Out
    <3>1. isAuth = 0 /\ ~hmi.shows
      BY <2>7 DEF Out
    <3> QED
      BY <3>1
  <2>8. CASE In /\ Present
    <3>1. isAuth = 1 /\ hmi.shows /\ Bound
      BY <2>8 DEF In, Present
    <3>2. NoPlug
      BY <2>3 DEF NoPlug
    <3> QED
      BY <3>1, <3>2 DEF Bound
  <2> QED
    BY <2>6, <2>7, <2>8
<1> QED
  BY <1>1, SessionAlways, PTL

\* As long as a transaction that a user began is active, the station keeps him with its connector, over
\* logouts, other users, remote stops and what the library gives up: his card is known when he comes
\* back.  The six incidents that Agreed names are exempt, logouts during which a card is read among them.
\* (process: ID_TAG, readPICC)
THEOREM KeepsUserHolds == Spec => []KeepsUser
<1>1. SessionInv => KeepsUser
  BY DEF SessionInv, Session, Kept, KeepsUser, Strange
<1> QED
  BY <1>1, SessionAlways, PTL

\* A message is told at the end.
LEMMA ToldLast ==
    ASSUME Typed, NEW m \in Message, toCims' = Append(toCims, m)
    PROVE  Len(toCims') = Len(toCims) + 1 /\ toCims'[Len(toCims) + 1] = m /\ Len(toCims) \in Nat
<1>1. toCims \in Seq(Message)
  BY DEF Typed
<1> QED
  BY <1>1, Appended

\* Who is told that it was carried out had a transaction ...
LEMMA ToldDone ==
    ASSUME Typed, End(1), toCims' = Append(toCims, Confirmation(1, TRUE))
    PROVE  tx[1] # NoTx
<1> DEFINE done == tx[1] # NoTx
           m == Confirmation(1, TRUE)
           k == Confirmation(1, done)
<1>1. done \in BOOLEAN /\ toCims' = Append(toCims, k) /\ toCims' = Append(toCims, m)
  BY DEF End
<1>2. m \in Message /\ k \in Message
  BY <1>1, Bytes, ConfirmationType
<1>3. m.done = TRUE /\ k.done = done
  BY DEF Confirmation
<1> HIDE DEF done, m, k
<1>4. toCims'[Len(toCims) + 1] = m
  BY <1>1, <1>2, Zenon, ToldLast
<1>5. toCims'[Len(toCims) + 1] = k
  BY <1>1, <1>2, Zenon, ToldLast
<1>6. done
  BY <1>1, <1>3, <1>4, <1>5, Zenon
<1> QED
  BY <1>6 DEF done

\* ... which ends if the connector has one user.
LEMMA EndsOwn ==
    ASSUME Fine, Session, "remote" \notin odd, User(idTag, 1), \A i, j \in OfConnector(1) : i = j,
           tx[1] # NoTx, tx' = IF Active(1) /\ Matches(idTag) THEN Inactive(1) ELSE tx
    PROVE  ~tx'[1].active
<1>1. Typed /\ 1 \in Connectors
  BY FineIs, Bytes
<1>2. CASE ~tx[1].active
  BY <1>2 DEF Active
<1>3. CASE tx[1].active
  <2>1. Active(1) /\ tx[1].tag # ServerTag
    BY <1>1, <1>3 DEF Active, Fine, Orderly, ServerOnly
  <2>2. User(tx[1].tag, 1)
    BY <1>1, <2>1 DEF Session, Kept
  <2>3. tx[1].tag = idTag
    <3> DEFINE t == tx[1].tag
    <3>1. PICK i \in Slots : userDB[i] = [idTag |-> t, connectorID |-> 1]
      BY <2>2 DEF User
    <3>2. PICK j \in Slots : userDB[j] = [idTag |-> idTag, connectorID |-> 1]
      BY DEF User
    <3> HIDE DEF t
    <3>3. userDB[i].idTag = t /\ userDB[i].connectorID = 1
      BY <3>1
    <3>4. userDB[j].idTag = idTag /\ userDB[j].connectorID = 1
      BY <3>2
    <3>5. i = j
      BY <3>3, <3>4 DEF OfConnector
    <3> QED
      BY <3>3, <3>4, <3>5 DEF t
  <2>4. tx' = Inactive(1)
    BY <2>1, <2>3 DEF Matches
  <2>5. tx[1] \in [tag : Tags \cup {ServerTag}, active : BOOLEAN]
    BY <1>1 DEF Typed
  <2> DEFINE v == [tx[1] EXCEPT !.active = FALSE]
  <2>6. ~v.active
    BY <2>5
  <2>7. tx'[1] = v
    BY <1>1, <2>4 DEF Inactive, Typed
  <2> QED
    BY <2>6, <2>7
<1> QED
  BY <1>2, <1>3

\* What the display is told in a step, by whom.
LEMMA ToldByControl ==
    ASSUME Fine, Session, [Next]_vars, Started(frame), IsAsk(frame), step = "enter",
           toCims' = Append(toCims, Confirmation(1, TRUE))
    PROVE  Control
<1>1. In
  BY AskFirst
<1>2. Typed /\ toCims \in Seq(Message) /\ Confirmation(1, TRUE) \in Message
  BY FineIs, Bytes, ConfirmationType DEF Typed
<1>3. Len(toCims') = Len(toCims) + 1 /\ toCims'[Len(toCims) + 1] = Confirmation(1, TRUE) /\ Len(toCims) \in Nat
  BY <1>2, Zenon, ToldLast
<1>4. toCims' # toCims /\ toCims' # <<>>
  <2> DEFINE n == Len(toCims)
  <2>1. Len(<<>>) = 0
    OBVIOUS
  <2>2. Len(toCims') = n + 1 /\ n \in Nat
    BY <1>3
  <2>3. ASSUME toCims' = toCims PROVE FALSE
    <3>1. Len(toCims') = n
      BY <2>3
    <3> HIDE DEF n
    <3> QED
      BY <2>2, <3>1
  <2> HIDE DEF n
  <2>4. ASSUME toCims' = <<>> PROVE FALSE
    <3>1. Len(toCims') = 0
      BY <2>1, <2>4
    <3> QED
      BY <2>2, <3>1
  <2> QED
    BY <2>3, <2>4
<1>5. CASE \E card \in Tags : Tap(card)
  BY <1>4, <1>5 DEF Tap
<1>6. ~ReadCard
  BY <1>1 DEF In, ReadCard, SetTag, AskServer, AddUser, LogIn
<1>7. ~Authorized
  BY <1>1 DEF In, Authorized
<1>8. CASE Library
  BY <1>4, <1>8 DEF Library
<1>9. CASE \E c \in Connectors : RemoteControl(c)
  <2>1. PICK m \in {Remote("begin"), Remote("end")} : toCims' = Append(toCims, m)
    BY <1>9 DEF RemoteControl
  <2>2. m \in Message /\ m.id # "confirmation"
    <3>1. Remote("begin").id # "confirmation" /\ Remote("end").id # "confirmation"
      BY DEF Remote
    <3> QED
      BY <3>1, MessagesType
  <2>3. toCims'[Len(toCims) + 1] = m
    BY <1>2, <2>1, <2>2, Appended
  <2>4. Confirmation(1, TRUE).id = "confirmation"
    BY DEF Confirmation
  <2> QED
    BY <1>3, <2>2, <2>3, <2>4
<1>10. CASE ReadBytes
  BY <1>4, <1>10 DEF ReadBytes, rest
<1>11. CASE Process
  <2>1. Id(frame) = HmiControlTransaction /\ IdTag # HmiControlTransaction /\ ConnectorStatus # HmiControlTransaction
    BY DEF IsAsk, IdTag, ConnectorStatus, HmiControlTransaction
  <2> QED
    BY <1>11, <2>1 DEF Process, LogOut, ClearTag, ClearAuth, Release, Plugged, Bind, Other, Is
<1>12. CASE Board
  <2>1. toCims' # Tail(toCims) \/ toCims = <<>>
    <3>1. SUFFICES ASSUME toCims # <<>>, toCims' = Tail(toCims) PROVE FALSE
      OBVIOUS
    <3> DEFINE n == Len(toCims)
    <3>2. Len(Tail(toCims)) = n - 1
      BY <1>2, <3>1, Tailed
    <3>3. n - 1 = n + 1 /\ n \in Nat
      BY <1>3, <3>1, <3>2
    <3> HIDE DEF n
    <3> QED
      BY <3>3
  <2> QED
    BY <1>4, <1>12, <2>1 DEF Board, DisplayHears, DisplayLogsOut, DisplayAsks, PlugIn, PlugInEarly, Unplug, Noisy
<1>13. CASE Reboot \/ Crash
  BY <1>4, <1>13 DEF Reboot, Crash, Restart
<1>14. CASE UNCHANGED vars
  BY <1>4, <1>14 DEF vars, rest
<1> QED
  BY <1>5, <1>6, <1>7, <1>8, <1>9, <1>10, <1>11, <1>12, <1>13, <1>14 DEF Next

\* When the display is told that its request to end was carried out, the transaction ends: at
\* connector 1, with its only user.
\* (hmiTranControl, endTransaction)
THEOREM ConfirmedHolds == Spec => Confirmed
<1>1. SessionInv /\ [Next]_vars =>
        [ /\ Is(HmiControlTransaction, "enter") /\ Data(frame) = 0 /\ Connector(frame) = 1
          /\ \A i, j \in OfConnector(1) : i = j
          /\ Calm({"overlap", "second card", "noise", "reboot", "misread", "early", "remote"})
          /\ toCims' = Append(toCims, Confirmation(1, TRUE))
          => ~tx'[1].active ]_vars
  <2> SUFFICES ASSUME SessionInv, [Next]_vars, Is(HmiControlTransaction, "enter"), Data(frame) = 0,
                      Connector(frame) = 1, \A i, j \in OfConnector(1) : i = j,
                      Calm({"overlap", "second card", "noise", "reboot", "misread", "early", "remote"}),
                      toCims' = Append(toCims, Confirmation(1, TRUE))
               PROVE  ~tx'[1].active
    OBVIOUS
  <2>1. Calm(Strange) /\ "remote" \notin odd
    BY DEF Calm, Strange
  <2>2. Fine /\ Session /\ Orderly
    BY <2>1 DEF SessionInv, Fine
  <2>3. Started(frame) /\ IsAsk(frame) /\ step = "enter"
    BY DEF Is, IsAsk
  <2>4. User(idTag, 1)
    BY <2>2, <2>3, AskFirst
  <2>5. Control
    BY <2>2, <2>3, ToldByControl
  <2>6. End(1)
    BY <2>5 DEF Control
  <2>7. tx[1] # NoTx
    BY <2>2, <2>6, FineIs, Zenon, ToldDone
  <2>8. tx' = IF Active(1) /\ Matches(idTag) THEN Inactive(1) ELSE tx
    BY <2>6 DEF End
  <2> QED
    BY <2>1, <2>2, <2>4, <2>7, <2>8, EndsOwn
<1> QED
  BY <1>1, SessionAlways, PTL DEF Spec, Confirmed

=============================================================================
