---------------------------- MODULE StorageProofs ----------------------------
(***************************************************************************)
(* What is proved of the configuration, of the local authorization list    *)
(* and of the storage as a whole, for every set of keys, containers,       *)
(* stored files, tags, updates and budgets.                                *)
(*                                                                         *)
(* The configuration: a value that the server was told is accepted is told *)
(* and recalled until it is changed again.  The hard part is that a        *)
(* container is written only if the revisions of its entries add up to     *)
(* something else than at the last write, modulo 2^16.  The invariant      *)
(* Synced says how far the sum may have moved since then: by one at most   *)
(* for each entry.                                                         *)
(*                                                                         *)
(* The list: as long as its updates are plain, it is in step with the      *)
(* server.  The hard part is what the code does to it: the bisection finds *)
(* a tag if the list is sorted, sorting keeps what is there, and the two   *)
(* passes of an update, over a list in which places are marked and used    *)
(* again, amount to what the update says.                                  *)
(*                                                                         *)
(* The storage: all of it has its types; those of the meter records come   *)
(* from the invariant of MeterProofs.                                      *)
(***************************************************************************)
EXTENDS MeterProofs, FunctionTheorems

FileOf(k) == file[Declared[k].file]
Total(f, c) == Cardinality(Revised(f, c))
Present(f, c) == {k \in In(c) : f[k] # NoEntry}

\* A value of this type, and one that an entry of this type can have.
Suits(type, v) ==
    /\ type = "int" => v \in Int
    /\ type = "bool" => v \in BOOLEAN
    /\ type = "string" => v \in Texts
FitVal(type, v) == Suits(type, v) /\ (type = "string" => v.size <= MaxText)

IsConf(e) ==
    /\ e = [type |-> e.type, rev |-> e.rev, val |-> e.val]
    /\ e.type \in Types /\ e.rev \in 0..(Revisions - 1) /\ FitVal(e.type, e.val)
Fits(f) ==
    /\ f = [k \in Keys |-> f[k]]
    /\ \A k \in Keys : f[k] # NoEntry => IsConf(f[k])

DocOf(c, doc) ==
    /\ DOMAIN doc \subseteq In(c)
    /\ \A k \in DOMAIN doc : doc[k].type \in Types /\ FitVal(doc[k].type, doc[k].val)

FilesFit ==
    /\ DOMAIN file = Containers /\ DOMAIN stale = Containers /\ DOMAIN promise = Keys
    /\ \A c \in Containers : file[c] \in Lost \/ DocOf(c, file[c])

\* An entry that its declarer holds is of the declared type.
HeldTyped == declared \subseteq Keys /\ \A k \in declared \ orphan : Typed(k)

\* A boot loads every key of a file that it can read.
Absent ==
    /\ up => \A k \in Keys : conf[k] = NoEntry => ~(Loads(FileOf(k)) /\ k \in DOMAIN FileOf(k))
    /\ ~up => \A k \in Keys : conf[k] = NoEntry

\* A container that is not stale: its entries are recalled from flash as they are, and what has
\* been declared since its sum was taken adds at most one revision each.
Same(c) == \A k \in In(c) : conf[k] # NoEntry => Recalled(k) = conf[k].val
Near(c) ==
    \E base \in Nat :
        /\ base % Revisions = sum[c]
        /\ base <= Total(conf, c) /\ Total(conf, c) <= base + Cardinality(Present(conf, c))
Synced == up => \A c \in Containers : ~stale[c] => Same(c) /\ Near(c)

SettingsInv == Fits(conf) /\ FilesFit /\ HeldTyped /\ Absent /\ Synced /\ Kept

-----------------------------------------------------------------------------
(* Revisions *)

LEMMA Sizes ==
    /\ Revisions \in Nat /\ MaxText \in Nat /\ IsFiniteSet(Keys)
    /\ \A c \in Containers : Cardinality(In(c)) \in Nat /\ Cardinality(In(c)) + 1 < Revisions
    /\ \A k \in Keys : Declared[k].file \in Containers /\ k \in In(Declared[k].file)
<1>1. \A c \in Containers : Cardinality(In(c)) \in Nat
  <2> TAKE c \in Containers
  <2>1. In(c) \in SUBSET Keys /\ IsFiniteSet(Keys)
    BY SettingsAssumption DEF In
  <2> QED
    BY <2>1, FS_Subset, FS_CardinalityType
<1> QED
  BY <1>1, SettingsAssumption DEF In

\* A revision that goes up wraps around to 0.
LEMMA UpIs ==
    ASSUME Revisions > 1, NEW n \in 0..(Revisions - 1)
    PROVE  Up(n) = IF n = Revisions - 1 THEN 0 ELSE n + 1
<1>1. Revisions \in Nat
  BY Sizes
<1>2. CASE n = Revisions - 1
  <2>1. n + 1 = Revisions
    BY <1>1, <1>2
  <2>2. Revisions % Revisions = 0
    BY <1>1
  <2> QED
    BY <1>2, <2>1, <2>2 DEF Up
<1>3. CASE n # Revisions - 1
  <2>1. n + 1 \in 0..(Revisions - 1)
    BY <1>1, <1>3
  <2>2. \A m \in 0..(Revisions - 1) : m % Revisions = m
    BY <1>1
  <2> QED
    BY <1>3, <2>1, <2>2 DEF Up
<1> QED
  BY <1>2, <1>3

\* Two numbers that lie less than Revisions apart have different remainders.
LEMMA RevisionsApart ==
    ASSUME NEW a \in Nat, NEW b \in Nat, a < b, b < a + Revisions
    PROVE  a % Revisions # b % Revisions
<1> DEFINE R == Revisions
<1>1. R \in Nat /\ R > 0
  BY Sizes
<1> HIDE DEF R
<1>2. a = R * (a \div R) + (a % R) /\ b = R * (b \div R) + (b % R)
  BY <1>1
<1>3. a \div R \in Int /\ b \div R \in Int /\ a % R \in 0..(R - 1) /\ b % R \in 0..(R - 1)
  BY <1>1
<1> SUFFICES ASSUME a % R = b % R PROVE FALSE
  BY DEF R
<1> DEFINE d == (b \div R) - (a \div R)
<1>4. d \in Int /\ b - a = R * d
  BY <1>1, <1>2, <1>3
<1>5. b - a > 0 /\ b - a < R
  BY <1>1 DEF R
<1> HIDE DEF d
<1>6. CASE d <= 0
  BY <1>1, <1>4, <1>5, <1>6
<1>7. CASE d >= 1
  BY <1>1, <1>4, <1>5, <1>7
<1> QED
  BY <1>4, <1>6, <1>7

\* The revisions of an entry, as pairs.
Of(f, k) == {p \in {k} \X (1..(Revisions - 1)) : f[k] # NoEntry /\ p[2] <= f[k].rev}
RevOf(f, k) == IF f[k] = NoEntry THEN 0 ELSE f[k].rev

LEMMA SumFinite ==
    ASSUME NEW f, NEW c \in Containers
    PROVE  /\ IsFiniteSet(Revised(f, c)) /\ Total(f, c) \in Nat
           /\ IsFiniteSet(Present(f, c)) /\ Cardinality(Present(f, c)) \in Nat
           /\ Cardinality(Present(f, c)) <= Cardinality(In(c))
<1>1. IsFiniteSet(In(c))
  <2>1. In(c) \in SUBSET Keys
    BY DEF In
  <2> QED
    BY <2>1, Sizes, FS_Subset
<1>2. IsFiniteSet(1..(Revisions - 1))
  BY Sizes, FS_Interval
<1>3. Revised(f, c) \in SUBSET (In(c) \X (1..(Revisions - 1)))
  BY DEF Revised
<1>4. IsFiniteSet(Revised(f, c))
  BY <1>1, <1>2, <1>3, FS_Product, FS_Subset
<1>5. Present(f, c) \in SUBSET In(c)
  BY DEF Present
<1> QED
  BY <1>1, <1>4, <1>5, FS_Subset, FS_CardinalityType DEF Total

LEMMA OfSize ==
    ASSUME NEW f, NEW k, f[k] # NoEntry => f[k].rev \in 0..(Revisions - 1)
    PROVE  IsFiniteSet(Of(f, k)) /\ Cardinality(Of(f, k)) = RevOf(f, k)
<1>1. CASE f[k] = NoEntry
  <2>1. Of(f, k) = {}
    BY <1>1 DEF Of
  <2> QED
    BY <1>1, <2>1, FS_EmptySet DEF RevOf
<1>2. CASE f[k] # NoEntry
  <2> DEFINE r == f[k].rev
             pair == [n \in 1..r |-> <<k, n>>]
  <2>1. r \in Nat /\ r <= Revisions - 1 /\ Revisions \in Nat
    BY <1>2, Sizes
  <2>2. Of(f, k) = {<<k, n>> : n \in 1..r}
    BY <1>2, <2>1 DEF Of
  <2>3. pair \in Bijection(1..r, Of(f, k))
    <3>1. pair \in [1..r -> Of(f, k)]
      BY <2>2
    <3>2. \A m, n \in 1..r : pair[m] = pair[n] => m = n
      OBVIOUS
    <3>3. \A t \in Of(f, k) : \E n \in 1..r : pair[n] = t
      BY <2>2
    <3> QED
      BY <3>1, <3>2, <3>3 DEF Bijection, Injection, Surjection, IsInjective
  <2>4. IsFiniteSet(1..r) /\ Cardinality(1..r) = r
    <3>1. ASSUME NEW n \in Nat
          PROVE  IsFiniteSet(1..n) /\ Cardinality(1..n) = n
      <4>1. IsFiniteSet(1..n) /\ Cardinality(1..n) = IF 1 > n THEN 0 ELSE n - 1 + 1
        BY FS_Interval
      <4> QED
        BY <4>1
    <3> QED
      BY <2>1, <3>1
  <2>5. ExistsBijection(1..r, Of(f, k))
    BY <2>3 DEF ExistsBijection
  <2>6. IsFiniteSet(Of(f, k)) /\ Cardinality(Of(f, k)) = r
    BY <2>4, <2>5, FS_Bijection
  <2> QED
    BY <1>2, <2>6 DEF RevOf
<1> QED
  BY <1>1, <1>2

\* The sum depends on the container's own entries only.
LEMMA SumAlike ==
    ASSUME NEW f, NEW g, NEW c \in Containers, \A k \in In(c) : f[k] = g[k]
    PROVE  Revised(f, c) = Revised(g, c) /\ Present(f, c) = Present(g, c)
BY DEF Revised, Present

\* When one entry changes, the sum changes by what its revision changes.
LEMMA SumMoves ==
    ASSUME NEW f, NEW g, NEW c \in Containers, NEW k \in In(c),
           \A j \in In(c) : j # k => f[j] = g[j],
           f[k] # NoEntry => f[k].rev \in 0..(Revisions - 1),
           g[k] # NoEntry => g[k].rev \in 0..(Revisions - 1)
    PROVE  Total(g, c) + RevOf(f, k) = Total(f, c) + RevOf(g, k)
<1> DEFINE rest == {p \in Revised(f, c) : p[1] # k}
<1>1. rest = {p \in Revised(g, c) : p[1] # k}
  BY DEF Revised
<1>2. /\ Revised(f, c) = rest \cup Of(f, k) /\ rest \cap Of(f, k) = {}
      /\ Revised(g, c) = rest \cup Of(g, k) /\ rest \cap Of(g, k) = {}
  BY <1>1 DEF Revised, Of
<1>3. IsFiniteSet(rest)
  BY SumFinite, FS_Subset
<1> HIDE DEF rest
<1>4. /\ Total(f, c) = Cardinality(rest) + RevOf(f, k)
      /\ Total(g, c) = Cardinality(rest) + RevOf(g, k)
  <2>1. Cardinality({}) = 0 /\ Cardinality(rest) \in Nat
    BY <1>3, FS_EmptySet, FS_CardinalityType
  <2>2. RevOf(f, k) \in Nat /\ RevOf(g, k) \in Nat
    BY Sizes DEF RevOf
  <2>3. /\ Cardinality(rest \cup Of(f, k)) = Cardinality(rest) + RevOf(f, k) - Cardinality({})
        /\ Cardinality(rest \cup Of(g, k)) = Cardinality(rest) + RevOf(g, k) - Cardinality({})
    BY <1>2, <1>3, OfSize, FS_Union
  <2> QED
    BY <1>2, <2>1, <2>2, <2>3 DEF Total
<1>5. RevOf(f, k) \in Nat /\ RevOf(g, k) \in Nat /\ Cardinality(rest) \in Nat
  BY <1>3, FS_CardinalityType, Sizes DEF RevOf
<1> QED
  BY <1>4, <1>5

\* Entries that have been set at most once add up to at most their number.
LEMMA SumSmall ==
    ASSUME NEW f, NEW c \in Containers, \A k \in In(c) : f[k] # NoEntry => f[k].rev \in {0, 1}
    PROVE  Total(f, c) <= Cardinality(Present(f, c))
<1> DEFINE key == [p \in Revised(f, c) |-> p[1]]
<1>1. \A p \in Revised(f, c) : p = <<p[1], 1>> /\ p[1] \in Present(f, c)
  BY Sizes DEF Revised, Present
<1>2. key \in Injection(Revised(f, c), Present(f, c))
  <2>1. key \in [Revised(f, c) -> Present(f, c)]
    BY <1>1
  <2>2. \A p, q \in Revised(f, c) : key[p] = key[q] => p = q
    BY <1>1
  <2> QED
    BY <2>1, <2>2 DEF Injection, IsInjective
<1> QED
  BY <1>2, SumFinite, FS_Injection DEF Total

-----------------------------------------------------------------------------
(* Entries *)

\* setInt, setBool, setString: only a text can be refused, and every other value is a new revision.
LEMMA SetIs ==
    ASSUME NEW e, IsConf(e), NEW v, Suits(e.type, v)
    PROVE  /\ IsConf(Set(e, v)) /\ Set(e, v).type = e.type
           /\ Set(e, v) = e \/ (Set(e, v).val = v /\ Set(e, v).rev = Up(e.rev))
           /\ FitVal(e.type, v) => Set(e, v).val = v
           /\ e.type # "string" => Set(e, v).val = v
<1> DEFINE n == [e EXCEPT !.val = v, !.rev = Up(@)]
<1>1. n = [type |-> e.type, rev |-> Up(e.rev), val |-> v]
  <2>1. DOMAIN n = {"type", "rev", "val"} /\ n = [i \in DOMAIN n |-> n[i]]
    BY DEF IsConf
  <2>2. n.type = e.type /\ n.rev = Up(e.rev) /\ n.val = v
    BY DEF IsConf
  <2> HIDE DEF n
  <2> QED
    BY <2>1, <2>2
<1>2. Up(e.rev) \in 0..(Revisions - 1)
  BY Sizes DEF IsConf, Up
<1>3. FitVal(e.type, v) => IsConf(n)
  BY <1>1, <1>2 DEF IsConf
<1> HIDE DEF n
<1>4. CASE e.type = "string" /\ v = e.val
  BY <1>4 DEF Set
<1>5. CASE e.type = "string" /\ v # e.val /\ v.size > MaxText
  <2>1. v.size \in Nat
    BY <1>5, SettingsAssumption DEF Suits, AnyText
  <2> QED
    BY <1>5, <2>1, Sizes DEF Set, FitVal
<1>6. CASE ~(e.type = "string" /\ (v = e.val \/ v.size > MaxText))
  <2>1. FitVal(e.type, v)
    <3>1. e.type = "string" => v.size \in Nat
      BY SettingsAssumption DEF Suits, AnyText
    <3> QED
      BY <1>6, <3>1, Sizes DEF FitVal
  <2>2. Set(e, v) = n
    BY <1>6 DEF Set, n
  <2> QED
    BY <1>1, <1>3, <2>1, <2>2
<1> QED
  BY <1>4, <1>5, <1>6

\* A new entry has been set at most once.
LEMMA NewIs ==
    ASSUME Revisions > 1, NEW type \in Types, NEW v, FitVal(type, v)
    PROVE  /\ IsConf(New(type, v)) /\ New(type, v).type = type /\ New(type, v).rev \in {0, 1}
           /\ New(type, v).val = v
<1> DEFINE blank == CASE type = "int" -> 0 [] type = "bool" -> FALSE [] type = "string" -> NoText
           n == [type |-> type, rev |-> 1, val |-> v]
<1>1. Up(0) = 1
  BY UpIs, Sizes
<1>2. Blank(type) = [type |-> type, rev |-> 0, val |-> blank]
  BY DEF Blank
<1> HIDE DEF blank
<1>3. CASE type = "string" /\ v = blank
  <2>1. New(type, v) = Blank(type)
    BY <1>2, <1>3 DEF New, Set
  <2> QED
    BY <1>2, <1>3, <2>1, Sizes DEF IsConf
<1>4. CASE ~(type = "string" /\ v = blank)
  <2>1. type = "string" => ~(v.size > MaxText)
    <3>1. type = "string" => v.size \in Nat /\ v.size <= MaxText
      BY SettingsAssumption DEF FitVal, Suits, AnyText
    <3> QED
      BY <3>1, Sizes
  <2>2. New(type, v) = [Blank(type) EXCEPT !.val = v, !.rev = Up(@)]
    BY <1>2, <1>4, <2>1 DEF New, Set
  <2>3. New(type, v) = n
    <3> DEFINE b == [type |-> type, rev |-> 0, val |-> blank]
               m == [b EXCEPT !.val = v, !.rev = Up(@)]
    <3>1. DOMAIN m = {"type", "rev", "val"} /\ m = [i \in DOMAIN m |-> m[i]]
      OBVIOUS
    <3>2. m.type = type /\ m.rev = 1 /\ m.val = v
      BY <1>1
    <3>3. New(type, v) = m
      BY <1>2, <2>2
    <3> HIDE DEF m
    <3> QED
      BY <3>1, <3>2, <3>3
  <2>4. n = [type |-> n.type, rev |-> n.rev, val |-> n.val] /\ n.type = type /\ n.rev = 1 /\ n.val = v
    OBVIOUS
  <2>5. 1 \in 0..(Revisions - 1)
    BY Sizes
  <2> HIDE DEF n
  <2> QED
    BY <2>3, <2>4, <2>5 DEF IsConf
<1> QED
  BY <1>3, <1>4

\* Entries are none of the marks.
LEMMA Unmarked ==
    /\ \A e : IsConf(e) => e # NoEntry
    /\ \A f, c : Fits(f) => Document(f, c) \notin Lost
<1>1. \A type, v : type \in Types /\ FitVal(type, v) => v \in AnyValue
  BY SettingsAssumption DEF Types, FitVal, Suits, AnyValue
<1>2. ASSUME NEW e, IsConf(e) PROVE e # NoEntry
  <2>1. e \in Entries
    BY <1>1, <1>2 DEF IsConf, Entries
  <2> QED
    BY <2>1, SettingsAssumption
<1>3. ASSUME NEW f, NEW c, Fits(f) PROVE Document(f, c) \notin Lost
  <2> DEFINE K == {j \in In(c) : f[j] # NoEntry}
  <2>1. K \in SUBSET Keys
    BY DEF In
  <2>2. \A k \in K : f[k].type \in Types /\ f[k].val \in AnyValue
    BY <1>1, <1>3, <2>1 DEF Fits, IsConf
  <2>3. Document(f, c) \in Documents(K)
    BY <2>2 DEF Document, Documents
  <2> QED
    BY <2>1, <2>3, SettingsAssumption
<1> QED
  BY <1>2, <1>3

\* What is written of a container: the entries it has, as they are.
LEMMA DocumentIs ==
    ASSUME NEW f, Fits(f), NEW c \in Containers
    PROVE  /\ Document(f, c) \notin Lost /\ DocOf(c, Document(f, c))
           /\ \A k \in In(c) : /\ k \in DOMAIN Document(f, c) <=> f[k] # NoEntry
                               /\ f[k] # NoEntry => Document(f, c)[k].val = f[k].val
<1>1. \A k \in In(c) : k \in Keys
  BY DEF In
<1> QED
  BY <1>1, Unmarked DEF Document, DocOf, Fits, IsConf

\* A declared default can be set.
LEMMA DefaultFits ==
    ASSUME NEW k \in Keys
    PROVE  Declared[k].type \in Types /\ FitVal(Declared[k].type, Declared[k].default)
<1>1. IsEntry([type |-> Declared[k].type, val |-> Declared[k].default]) /\ Texts \subseteq AnyText
  BY SettingsAssumption
<1>2. \A t \in Types : /\ t = "int" => Values(t) = Int
                       /\ t = "bool" => Values(t) = BOOLEAN
                       /\ t = "string" => Values(t) = Texts
  BY DEF Types, Values
<1> HIDE DEF Values
<1> QED
  BY <1>1, <1>2 DEF IsEntry, FitVal, Suits, Types

-----------------------------------------------------------------------------
(* ChangeConfiguration and changes by services *)

\* f is the configuration after a change of the value of entry k.
Edited(f, k) ==
    /\ Fits(f) /\ conf[k] # NoEntry /\ f[k] # NoEntry /\ f[k].type = conf[k].type
    /\ \A j \in Keys : j # k => f[j] = conf[j]
    /\ f[k] = conf[k] \/ f[k].rev = Up(conf[k].rev)

LEMMA Edits ==
    ASSUME Fits(conf), NEW k \in Keys, conf[k] # NoEntry, NEW v, Suits(conf[k].type, v)
    PROVE  Edited([conf EXCEPT ![k] = Set(@, v)], k)
<1> DEFINE f == [conf EXCEPT ![k] = Set(@, v)]
<1>1. conf = [j \in Keys |-> conf[j]] /\ IsConf(conf[k])
  BY DEF Fits
<1>2. f = [j \in Keys |-> f[j]] /\ f[k] = Set(conf[k], v) /\ \A j \in Keys : j # k => f[j] = conf[j]
  BY <1>1
<1>3. /\ IsConf(Set(conf[k], v)) /\ Set(conf[k], v).type = conf[k].type
      /\ Set(conf[k], v) = conf[k] \/ Set(conf[k], v).rev = Up(conf[k].rev)
  BY <1>1, SetIs
<1>4. f[k] # NoEntry
  BY <1>2, <1>3, Unmarked
<1> HIDE DEF f
<1>5. Fits(f)
  BY <1>2, <1>3 DEF Fits
<1>6. Edited(f, k)
  BY <1>2, <1>3, <1>4, <1>5 DEF Edited
<1> QED
  BY <1>6 DEF f

LEMMA ChangingEdits ==
    ASSUME Fits(conf), NEW k \in Keys, NEW t \in Texts, Accepts(k, t)
    PROVE  Edited(Changing(k, t), k)
<1> DEFINE e == conf[k]
           v == Parsed(e.type, t)
<1>1. e # NoEntry /\ e.type \in Types /\ Converts(e.type, t) /\ t \in AnyText
  BY SettingsAssumption DEF Accepts, Fits, IsConf
<1>2. Suits(e.type, v)
  <2>1. CASE e.type = "int"
    <3>1. t.number \in Int
      BY <1>1 DEF AnyText
    <3> QED
      BY <2>1, <3>1 DEF Suits, Parsed
  <2>2. CASE e.type = "bool"
    <3>1. v = (t.word = "true" \/ (t.word = "other" /\ t.number # 0))
      BY <2>2 DEF Parsed
    <3>2. v \in BOOLEAN
      BY <3>1
    <3> QED
      BY <2>2, <3>2 DEF Suits
  <2>3. CASE e.type = "string"
    BY <1>1, <2>3 DEF Suits, Parsed
  <2> QED
    BY <1>1, <2>1, <2>2, <2>3 DEF Types
<1> QED
  BY <1>1, <1>2, Edits DEF Changing

LEMMA SettingEdits ==
    ASSUME Fits(conf), HeldTyped, NEW k \in Keys, NEW v \in BOOLEAN, Own(k)
    PROVE  Edited(Setting(k, v), k)
<1>1. conf[k] # NoEntry /\ conf[k].type = "bool"
  BY DEF Own, HeldTyped, Typed
<1>2. Suits(conf[k].type, v)
  BY <1>1 DEF Suits
<1> QED
  BY <1>1, <1>2, Edits DEF Setting

\* A change of a container that is not stale changes the sum of its revisions: since the sum was
\* taken, it has moved by less than Revisions.
LEMMA Unsaved ==
    ASSUME SettingsInv, up, NEW k \in Keys, NEW f, Edited(f, k), ~stale[Declared[k].file],
           ~Changed(f, Declared[k].file)
    PROVE  f[k] = conf[k]
<1> DEFINE c == Declared[k].file
           n == Cardinality(Present(conf, c))
           r == conf[k].rev
<1> SUFFICES ASSUME f[k].rev = Up(r) PROVE FALSE
  BY DEF Edited
<1>1. c \in Containers /\ k \in In(c)
  BY Sizes
<1>2. PICK base \in Nat : /\ base % Revisions = sum[c]
                          /\ base <= Total(conf, c) /\ Total(conf, c) <= base + n
  BY <1>1 DEF SettingsInv, Synced, Near
<1>3. Total(f, c) % Revisions = base % Revisions
  BY <1>2 DEF Changed, RevisionSum, Total
<1>4. /\ Total(conf, c) \in Nat /\ Total(f, c) \in Nat /\ n \in Nat /\ Revisions \in Nat
      /\ n + 1 < Revisions
  BY <1>1, SumFinite, Sizes
<1>5. r \in 0..(Revisions - 1) /\ f[k].rev \in 0..(Revisions - 1)
  BY DEF SettingsInv, Edited, Fits, IsConf
<1>6. Total(f, c) + r = Total(conf, c) + Up(r)
  <2>1. \A j \in In(c) : j # k => conf[j] = f[j]
    BY DEF Edited, In
  <2>2. RevOf(conf, k) = r /\ RevOf(f, k) = Up(r)
    BY DEF RevOf, Edited
  <2> QED
    BY <1>1, <1>5, <2>1, <2>2, SumMoves
<1>7. Up(r) = IF r = Revisions - 1 THEN 0 ELSE r + 1
  BY <1>4, <1>5, UpIs
<1> HIDE DEF c, n, r
<1>8. CASE r = Revisions - 1
  <2>1. Total(f, c) < base /\ base < Total(f, c) + Revisions
    BY <1>2, <1>4, <1>5, <1>6, <1>7, <1>8
  <2> QED
    BY <1>2, <1>3, <1>4, <2>1, RevisionsApart
<1>9. CASE r # Revisions - 1
  <2>1. base < Total(f, c) /\ Total(f, c) < base + Revisions
    BY <1>2, <1>4, <1>5, <1>6, <1>7, <1>9
  <2> QED
    BY <1>2, <1>3, <1>4, <2>1, RevisionsApart
<1> QED
  BY <1>8, <1>9

\* What a save leaves of a container, whatever the outcome.
LEMMA SaveFile ==
    ASSUME SettingsInv, up, NEW k \in Keys, NEW f, Edited(f, k), NEW outcome \in Outcomes,
           Save(f, outcome), up' = up, NEW c \in Containers
    PROVE  /\ Changed(f, c) /\ outcome = "ok" =>
                /\ file'[c] = Document(f, c) /\ file'[c] \notin Lost /\ DocOf(c, file'[c])
                /\ \A j \in In(c) : /\ j \in DOMAIN file'[c] <=> f[j] # NoEntry
                                    /\ f[j] # NoEntry => Recalled(j)' = f[j].val
                                    /\ f[j] = NoEntry => Recalled(j)' = Declared[j].default
           /\ Changed(f, c) /\ outcome = "unwritten" => file'[c] = Missing
           /\ ~Changed(f, c) \/ outcome = "unopened" =>
                file'[c] = file[c] /\ \A j \in In(c) : Recalled(j)' = Recalled(j)
<1>1. file'[c] = IF Changed(f, c) THEN Stored(outcome, file[c], Document(f, c)) ELSE file[c]
  BY DEF Save
<1>2. \A j \in In(c) : Declared[j].file = c
  BY DEF In
<1>3. CASE Changed(f, c) /\ outcome = "ok"
  <2>1. file'[c] = Document(f, c)
    BY <1>1, <1>3 DEF Stored
  <2>2. /\ Document(f, c) \notin Lost /\ DocOf(c, Document(f, c))
        /\ \A j \in In(c) : /\ j \in DOMAIN Document(f, c) <=> f[j] # NoEntry
                            /\ f[j] # NoEntry => Document(f, c)[j].val = f[j].val
    BY DocumentIs DEF Edited
  <2> HIDE DEF Document
  <2> QED
    BY <1>2, <1>3, <2>1, <2>2 DEF Recalled, Loads, Outcomes
<1>4. CASE ~Changed(f, c) \/ outcome # "ok"
  <2>1. Changed(f, c) /\ outcome = "unwritten" => file'[c] = Missing
    BY <1>1 DEF Stored
  <2>2. ~Changed(f, c) \/ outcome = "unopened" => file'[c] = file[c]
    BY <1>1 DEF Stored
  <2> QED
    BY <1>2, <1>4, <2>1, <2>2 DEF Recalled
<1> QED
  BY <1>3, <1>4

\* A change is saved and answered.
LEMMA AnswerKeeps ==
    ASSUME SettingsInv, up, NEW k \in Keys, NEW f, Edited(f, k), NEW outcome \in Outcomes, NEW v,
           Answered(f, k, v, outcome), up' = up, UNCHANGED <<declared, orphan>>
    PROVE  SettingsInv'
<1>1. /\ conf' = f /\ Save(f, outcome)
      /\ \A c \in Containers :
            /\ sum'[c] = Total(f, c) % Revisions
            /\ stale'[c] = IF Changed(f, c) THEN outcome # "ok" ELSE stale[c]
      /\ DOMAIN file' = Containers /\ DOMAIN stale' = Containers
  BY DEF Answered, Save, Sums, RevisionSum, Total
<1>2. \A c \in Containers : \A j \in In(c) : j \in Keys /\ Declared[j].file = c
  BY DEF In
<1>3. \A j \in Keys : Declared[j].file \in Containers /\ j \in In(Declared[j].file)
  BY Sizes
<1>4. Fits(f) /\ Fits(conf)'
  BY <1>1 DEF Edited
<1>5. \A j \in Keys : f[j] = NoEntry <=> conf[j] = NoEntry
  BY DEF Edited
<1>6. \A j \in Keys : conf[j] # NoEntry => f[j].type = conf[j].type
  BY DEF Edited
<1>7. FilesFit'
  <2>1. DOMAIN promise' = Keys
    BY DEF Answered, Standing
  <2>2. ASSUME NEW c \in Containers PROVE file'[c] \in Lost \/ DocOf(c, file'[c])
    <3>1. CASE Changed(f, c) /\ outcome = "ok"
      BY <1>1, <3>1, SaveFile
    <3>2. CASE Changed(f, c) /\ outcome = "unwritten"
      <4>1. file'[c] = Missing
        BY <1>1, <3>2, SaveFile
      <4> QED
        BY <4>1 DEF Lost
    <3>3. CASE ~Changed(f, c) \/ outcome = "unopened"
      <4>1. file'[c] = file[c]
        BY <1>1, <3>3, SaveFile
      <4> QED
        BY <4>1 DEF SettingsInv, FilesFit
    <3> QED
      BY <3>1, <3>2, <3>3 DEF Outcomes
  <2> QED
    BY <1>1, <2>1, <2>2 DEF FilesFit
<1>8. HeldTyped'
  BY <1>1, <1>5, <1>6 DEF SettingsInv, HeldTyped, Typed
<1>9. Absent'
  <2> SUFFICES ASSUME NEW j \in Keys, f[j] = NoEntry
               PROVE  ~(Loads(file'[Declared[j].file]) /\ j \in DOMAIN file'[Declared[j].file])
    BY <1>1 DEF Absent, FileOf
  <2> DEFINE c == Declared[j].file
  <2>1. c \in Containers /\ j \in In(c) /\ conf[j] = NoEntry
    BY <1>3, <1>5
  <2>2. CASE Changed(f, c) /\ outcome = "ok"
    BY <1>1, <2>1, <2>2, SaveFile
  <2>3. CASE Changed(f, c) /\ outcome = "unwritten"
    <3>1. file'[c] = Missing
      BY <1>1, <2>1, <2>3, SaveFile
    <3> QED
      BY <3>1 DEF Loads, Lost
  <2>4. CASE ~Changed(f, c) \/ outcome = "unopened"
    <3>1. file'[c] = file[c]
      BY <1>1, <2>1, <2>4, SaveFile
    <3> QED
      BY <2>1, <3>1 DEF SettingsInv, Absent, FileOf
  <2> QED
    BY <2>2, <2>3, <2>4 DEF Outcomes
<1>10. ASSUME NEW c \in Containers, ~Changed(f, c), ~stale[c]
       PROVE  \A j \in In(c) : f[j] = conf[j]
  <2>1. \A j \in In(c) : j = k => f[j] = conf[j]
    BY <1>2, <1>10, Unsaved
  <2> QED
    BY <1>2, <2>1 DEF Edited
<1>11. Synced'
  <2> SUFFICES ASSUME NEW c \in Containers, ~stale'[c]
               PROVE  /\ \A j \in In(c) : f[j] # NoEntry => Recalled(j)' = f[j].val
                      /\ Near(c)'
    BY <1>1 DEF Synced, Same
  <2>1. Near(c)'
    <3>1. Total(f, c) \in Nat /\ Cardinality(Present(f, c)) \in Nat
      BY SumFinite
    <3>2. Total(conf, c)' = Total(f, c) /\ Present(conf, c)' = Present(f, c)
      BY <1>1 DEF Total, Revised, Present, In
    <3>3. Total(f, c) <= Total(f, c) + Cardinality(Present(f, c))
      BY <3>1
    <3> QED
      BY <1>1, <3>1, <3>2, <3>3 DEF Near
  <2>2. CASE Changed(f, c)
    <3>1. outcome = "ok"
      BY <1>1, <2>2
    <3> QED
      BY <1>1, <2>1, <2>2, <3>1, SaveFile
  <2>3. CASE ~Changed(f, c)
    <3>1. ~stale[c]
      BY <1>1, <2>3
    <3>2. \A j \in In(c) : conf[j] # NoEntry => Recalled(j) = conf[j].val
      BY <3>1 DEF SettingsInv, Synced, Same
    <3>3. \A j \in In(c) : Recalled(j)' = Recalled(j)
      BY <1>1, <2>3, SaveFile
    <3> QED
      BY <1>10, <2>1, <2>3, <3>1, <3>2, <3>3
  <2> QED
    BY <2>2, <2>3
<1>12. Kept'
  <2> SUFFICES ASSUME NEW j \in Keys, NEW w \in promise'[j]
               PROVE  Recalled(j)' = w /\ (f[j] # NoEntry => f[j].val = w)
    BY <1>1 DEF Kept, Told
  <2> DEFINE c == Declared[j].file
  <2>1. c \in Containers /\ j \in In(c)
    BY <1>3
  <2>2. CASE j = k
    <3>1. Saved(f, outcome) /\ Stores(f, k, v) /\ w = v
      BY <2>2 DEF Answered, Standing, NoPromise
    <3>2. f[k] # NoEntry /\ f[k].val = w
      BY <3>1 DEF Stores, Edited
    <3>3. CASE Changed(f, c)
      <4>1. outcome = "ok"
        BY <2>1, <3>1, <3>3 DEF Saved
      <4> QED
        BY <1>1, <2>1, <2>2, <3>2, <3>3, <4>1, SaveFile
    <3>4. CASE ~Changed(f, c)
      <4>1. ~stale[c]
        BY <2>2, <3>1, <3>4 DEF Stores
      <4>2. f[k] = conf[k] /\ conf[k] # NoEntry
        BY <1>10, <2>1, <2>2, <3>2, <3>4, <4>1
      <4>3. Recalled(k) = conf[k].val
        BY <2>1, <2>2, <4>1, <4>2 DEF SettingsInv, Synced, Same
      <4>4. Recalled(k)' = Recalled(k)
        BY <1>1, <2>1, <2>2, <3>4, SaveFile
      <4> QED
        BY <2>2, <3>2, <4>2, <4>3, <4>4
    <3> QED
      BY <3>3, <3>4
  <2>3. CASE j # k
    <3>1. w \in promise[j] /\ ~(Changed(f, c) /\ outcome = "unwritten") /\ f[j] = conf[j]
      BY <2>3 DEF Answered, Standing, NoPromise, Edited
    <3>2. Recalled(j) = w /\ (f[j] # NoEntry => f[j].val = w)
      BY <3>1 DEF SettingsInv, Kept, Told
    <3>3. CASE Changed(f, c) /\ outcome = "ok"
      <4>1. CASE f[j] # NoEntry
        BY <1>1, <2>1, <3>2, <3>3, <4>1, SaveFile
      <4>2. CASE f[j] = NoEntry
        <5>1. Recalled(j) = Declared[j].default
          BY <3>1, <4>2 DEF SettingsInv, Absent, FileOf, Recalled
        <5>2. Recalled(j)' = Declared[j].default
          BY <1>1, <2>1, <3>3, <4>2, SaveFile
        <5> QED
          BY <3>2, <4>2, <5>1, <5>2
      <4> QED
        BY <4>1, <4>2
    <3>4. CASE ~Changed(f, c) \/ outcome = "unopened"
      <4>1. Recalled(j)' = Recalled(j)
        BY <1>1, <2>1, <3>4, SaveFile
      <4> QED
        BY <3>2, <4>1
    <3> QED
      BY <3>1, <3>3, <3>4 DEF Outcomes
  <2> QED
    BY <2>2, <2>3
<1> QED
  BY <1>4, <1>7, <1>8, <1>9, <1>11, <1>12 DEF SettingsInv

-----------------------------------------------------------------------------
(* Boot, declarations, power cuts *)

LEMMA InitSettings == Init => SettingsInv
<1> SUFFICES ASSUME Init PROVE SettingsInv
  OBVIOUS
<1>1. /\ ~up /\ conf = [k \in Keys |-> NoEntry] /\ declared = {}
      /\ stale = [c \in Containers |-> FALSE] /\ promise = [k \in Keys |-> NoPromise]
      /\ file \in StoredBefore
  BY StorageAssumption DEF Init
<1>2. Fits(conf) /\ HeldTyped /\ Absent /\ Synced /\ Kept
  BY <1>1 DEF Fits, HeldTyped, Absent, Synced, Kept, NoPromise
<1>3. FilesFit
  <2>1. /\ DOMAIN file = Containers
        /\ \A c \in Containers :
            \/ file[c] \in Lost
            \/ DOMAIN file[c] \subseteq In(c) /\ \A k \in DOMAIN file[c] : IsEntry(file[c][k])
    BY <1>1, SettingsAssumption
  <2>2. \A e : IsEntry(e) => e.type \in Types /\ FitVal(e.type, e.val)
    <3>1. Texts \subseteq AnyText
      BY SettingsAssumption
    <3>2. \A t \in Types : /\ t = "int" => Values(t) = Int
                           /\ t = "bool" => Values(t) = BOOLEAN
                           /\ t = "string" => Values(t) = Texts
      BY DEF Types, Values
    <3> HIDE DEF Values
    <3> QED
      BY <3>1, <3>2 DEF IsEntry, FitVal, Suits, Types
  <2> QED
    BY <1>1, <2>1, <2>2 DEF FilesFit, DocOf
<1> QED
  BY <1>2, <1>3 DEF SettingsInv

\* RAM is lost, and the files hold whole documents or none.
LEMMA LostKeeps ==
    ASSUME SettingsInv, SettingsLost, ~up', NEW files, file' = files,
           DOMAIN files = Containers, DOMAIN promise' = Keys,
           \A c \in Containers : files[c] \in Lost \/ DocOf(c, files[c]),
           \A k \in Keys : \A v \in promise'[k] : Recalled(k)' = v
    PROVE  SettingsInv'
<1>1. /\ conf' = [k \in Keys |-> NoEntry] /\ declared' = {}
      /\ stale' = [c \in Containers |-> FALSE]
  BY DEF SettingsLost
<1>2. Fits(conf)' /\ HeldTyped' /\ Absent' /\ Synced' /\ Kept'
  BY <1>1 DEF Fits, HeldTyped, Absent, Synced, Kept
<1>3. FilesFit'
  BY <1>1 DEF FilesFit
<1> QED
  BY <1>2, <1>3 DEF SettingsInv

LEMMA SettingsCutKeeps ==
    ASSUME SettingsInv, SettingsCut, ~up'
    PROVE  SettingsInv'
<1>1. SettingsLost /\ file' = file /\ promise' = promise
  BY DEF SettingsCut
<1>2. \A k \in Keys : Recalled(k)' = Recalled(k)
  BY <1>1 DEF Recalled
<1> QED
  BY <1>1, <1>2, LostKeeps DEF SettingsInv, FilesFit, Kept

\* The power is cut while a container is written.
LEMMA CutInSaveKeeps ==
    ASSUME SettingsInv, up, ~up', NEW k \in Keys, NEW f, Edited(f, k), NEW c \in Containers,
           CutInSave(f, k, c)
    PROVE  SettingsInv'
<1>1. PICK doc \in {Empty, Torn, Document(f, c)} :
        /\ file' = [file EXCEPT ![c] = doc]
        /\ promise' = [j \in Keys |-> IF j = k \/ (j \in In(c) /\ doc \in Lost)
                                        THEN NoPromise ELSE promise[j]]
  BY DEF CutInSave
<1>2. SettingsLost
  BY DEF CutInSave
<1>3. /\ Document(f, c) \notin Lost /\ DocOf(c, Document(f, c))
      /\ \A j \in In(c) : /\ j \in DOMAIN Document(f, c) <=> f[j] # NoEntry
                          /\ f[j] # NoEntry => Document(f, c)[j].val = f[j].val
  BY DocumentIs DEF Edited
<1>4. /\ DOMAIN file = Containers /\ file'[c] = doc
      /\ \A d \in Containers : d # c => file'[d] = file[d]
  BY <1>1 DEF SettingsInv, FilesFit
<1>5. doc \in Lost \/ doc = Document(f, c)
  BY <1>1 DEF Lost
<1> HIDE DEF Document
<1>6. \A d \in Containers : file'[d] \in Lost \/ DocOf(d, file'[d])
  BY <1>3, <1>4, <1>5 DEF SettingsInv, FilesFit
<1>7. ASSUME NEW j \in Keys, NEW v \in promise'[j] PROVE Recalled(j)' = v
  <2>1. j # k /\ v \in promise[j] /\ ~(j \in In(c) /\ doc \in Lost)
    BY <1>1, <1>7 DEF NoPromise
  <2>2. Recalled(j) = v /\ (conf[j] # NoEntry => conf[j].val = v) /\ f[j] = conf[j]
    BY <2>1 DEF SettingsInv, Kept, Told, Edited
  <2>3. Declared[j].file \in Containers
    BY Sizes
  <2>4. CASE Declared[j].file # c
    BY <1>4, <2>2, <2>3, <2>4 DEF Recalled
  <2>5. CASE Declared[j].file = c
    <3>1. j \in In(c) /\ doc = Document(f, c) /\ file'[c] = Document(f, c)
      BY <1>4, <1>5, <2>1, <2>5 DEF In
    <3>2. CASE conf[j] # NoEntry
      BY <1>3, <2>2, <2>5, <3>1, <3>2 DEF Recalled, Loads
    <3>3. CASE conf[j] = NoEntry
      <4>1. Recalled(j) = Declared[j].default
        BY <3>3 DEF SettingsInv, Absent, FileOf, Recalled
      <4>2. Recalled(j)' = Declared[j].default
        BY <1>3, <2>2, <2>5, <3>1, <3>3 DEF Recalled
      <4> QED
        BY <2>2, <4>1, <4>2
    <3> QED
      BY <3>2, <3>3
  <2> QED
    BY <2>4, <2>5
<1>8. DOMAIN file' = Containers /\ DOMAIN promise' = Keys
  BY <1>1, <1>4
<1> QED
  BY <1>2, <1>6, <1>7, <1>8, LostKeeps

\* A key is declared after the boot, or once more.
LEMMA DeclareKeeps ==
    ASSUME SettingsInv, NEW k \in Keys, Declare(k), up' = up
    PROVE  SettingsInv'
<1>1. /\ up /\ declared' = declared \cup {k} /\ file' = file /\ sum' = sum /\ orphan' = orphan
      /\ DOMAIN conf = Keys
  <2>1. conf = [j \in Keys |-> conf[j]]
    BY DEF SettingsInv, Fits
  <2> QED
    BY <2>1 DEF Declare
<1>2. \A j \in Keys : Recalled(j)' = Recalled(j)
  BY <1>1 DEF Recalled
<1>3. CASE Typed(k)
  <2>1. conf' = conf /\ promise' = promise /\ stale' = stale
    BY <1>3 DEF Declare
  <2>2. Fits(conf)' /\ FilesFit' /\ Absent' /\ Kept'
    BY <1>1, <1>2, <2>1 DEF SettingsInv, Fits, FilesFit, Absent, FileOf, Kept, Told
  <2>3. HeldTyped'
    BY <1>1, <1>3, <2>1 DEF SettingsInv, HeldTyped, Typed
  <2>4. Synced'
    <3>1. \A c \in Containers : Same(c)' <=> Same(c)
      BY <1>2, <2>1 DEF Same, In
    <3>2. \A c \in Containers : Near(c)' <=> Near(c)
      BY <1>1, <2>1 DEF Near, Total, Revised, Present, In
    <3> QED
      BY <1>1, <2>1, <3>1, <3>2 DEF SettingsInv, Synced
  <2> QED
    BY <2>2, <2>3, <2>4 DEF SettingsInv
<1>4. CASE ~Typed(k)
  <2> DEFINE e == New(Declared[k].type, Declared[k].default)
             c == Declared[k].file
  <2>1. c \in Containers /\ k \in In(c) /\ Revisions > 1
    BY Sizes
  <2>2. IsConf(e) /\ e.type = Declared[k].type /\ e.rev \in {0, 1} /\ e.val = Declared[k].default
    BY <2>1, NewIs, DefaultFits DEF FitVal
  <2>3. e # NoEntry
    BY <2>2, Unmarked
  <2>4. /\ conf' = [conf EXCEPT ![k] = e]
        /\ promise' = [promise EXCEPT ![k] = NoPromise]
        /\ stale' = IF conf[k] = NoEntry THEN stale ELSE [stale EXCEPT ![c] = TRUE]
    BY <1>4 DEF Declare
  <2> HIDE DEF e
  <2>5. conf'[k] = e /\ \A j \in Keys : j # k => conf'[j] = conf[j]
    BY <1>1, <2>4
  <2>6. Fits(conf)'
    <3>1. conf' = [j \in Keys |-> conf'[j]]
      BY <1>1, <2>4
    <3> QED
      BY <2>2, <2>5, <3>1 DEF SettingsInv, Fits
  <2>7. FilesFit'
    BY <1>1, <2>4 DEF SettingsInv, FilesFit
  <2>8. HeldTyped'
    BY <1>1, <2>2, <2>3, <2>5 DEF SettingsInv, HeldTyped, Typed
  <2>9. Absent'
    BY <1>1, <2>3, <2>5 DEF SettingsInv, Absent, FileOf
  <2>10. Kept'
    <3>1. DOMAIN promise = Keys
      BY DEF SettingsInv, FilesFit
    <3>2. promise'[k] = {} /\ \A j \in Keys : j # k => promise'[j] = promise[j]
      BY <2>4, <3>1 DEF NoPromise
    <3> QED
      BY <1>1, <1>2, <2>5, <3>2 DEF SettingsInv, Kept, Told
  <2>11. Synced'
    <3> SUFFICES ASSUME NEW d \in Containers, ~stale'[d] PROVE Same(d)' /\ Near(d)'
      BY DEF Synced
    <3>1. ~stale[d] /\ (d = c => conf[k] = NoEntry)
      <4>1. DOMAIN stale = Containers
        BY DEF SettingsInv, FilesFit
      <4> QED
        BY <2>4, <4>1
    <3>2. Same(d) /\ Near(d)
      BY <1>1, <3>1 DEF SettingsInv, Synced
    <3>3. CASE d # c
      <4>1. \A j \in In(d) : j \in Keys /\ conf'[j] = conf[j]
        BY <2>5, <3>3 DEF In
      <4>2. Same(d)'
        BY <1>2, <3>2, <4>1 DEF Same, In
      <4>3. Near(d)'
        <5>1. Total(conf', d) = Total(conf, d) /\ Present(conf', d) = Present(conf, d)
          BY <4>1, SumAlike DEF Total
        <5>2. Total(conf, d)' = Total(conf', d) /\ Present(conf, d)' = Present(conf', d)
          BY DEF Total, Revised, Present, In
        <5> QED
          BY <1>1, <3>2, <5>1, <5>2 DEF Near
      <4> QED
        BY <4>2, <4>3
    <3>4. CASE d = c
      <4>1. conf[k] = NoEntry
        BY <3>1, <3>4
      <4>2. Same(d)'
        <5>1. Recalled(k) = Declared[k].default
          BY <1>1, <4>1 DEF SettingsInv, Absent, FileOf, Recalled
        <5>2. \A j \in In(d) : j \in Keys
          BY DEF In
        <5> QED
          BY <1>2, <2>2, <2>5, <3>2, <5>1, <5>2 DEF Same, In
      <4>3. Near(d)'
        <5>1. Total(conf, d)' = Total(conf', d) /\ Present(conf, d)' = Present(conf', d)
          BY DEF Total, Revised, Present, In
        <5>2. Total(conf', d) + 0 = Total(conf, d) + e.rev
          <6>1. \A j \in In(d) : j # k => conf[j] = conf'[j]
            BY <2>5 DEF In
          <6>2. conf'[k].rev \in 0..(Revisions - 1) /\ RevOf(conf', k) = e.rev /\ RevOf(conf, k) = 0
            BY <2>2, <2>3, <2>5, <4>1 DEF RevOf, IsConf
          <6> QED
            BY <2>1, <3>4, <4>1, <6>1, <6>2, SumMoves
        <5>3. Cardinality(Present(conf', d)) = Cardinality(Present(conf, d)) + 1
          <6>1. Present(conf', d) = Present(conf, d) \cup {k} /\ k \notin Present(conf, d)
            BY <2>1, <2>3, <2>5, <3>4, <4>1 DEF Present, In
          <6> QED
            BY <6>1, SumFinite, FS_AddElement
        <5>4. /\ Total(conf, d) \in Nat /\ Total(conf', d) \in Nat
              /\ Cardinality(Present(conf, d)) \in Nat
          BY SumFinite
        <5>5. PICK base \in Nat : /\ base % Revisions = sum[d] /\ base <= Total(conf, d)
                                  /\ Total(conf, d) <= base + Cardinality(Present(conf, d))
          BY <3>2 DEF Near
        <5>6. /\ base <= Total(conf', d)
              /\ Total(conf', d) <= base + Cardinality(Present(conf', d))
          BY <2>2, <5>2, <5>3, <5>4, <5>5
        <5> QED
          BY <1>1, <5>1, <5>5, <5>6 DEF Near
      <4> QED
        BY <4>2, <4>3
    <3> QED
      BY <3>3, <3>4
  <2> QED
    BY <2>6, <2>7, <2>8, <2>9, <2>10, <2>11 DEF SettingsInv
<1> QED
  BY <1>3, <1>4

\* The factory defaults: what is declared early has its default, the rest does not exist yet.
LEMMA DefaultsFit ==
    ASSUME NEW k \in Keys
    PROVE  /\ k \in Early => /\ IsConf(Defaults[k]) /\ Defaults[k].type = Declared[k].type
                             /\ Defaults[k].rev \in {0, 1} /\ Defaults[k].val = Declared[k].default
           /\ k \notin Early => Defaults[k] = NoEntry
<1>1. Revisions > 1
  BY Sizes
<1> DEFINE e == New(Declared[k].type, Declared[k].default)
<1>2. IsConf(e) /\ e.type = Declared[k].type /\ e.rev \in {0, 1} /\ e.val = Declared[k].default
  BY <1>1, NewIs, DefaultFits DEF FitVal
<1>3. Defaults[k] = IF k \in Early THEN e ELSE NoEntry
  BY DEF Defaults
<1> QED
  BY <1>2, <1>3

\* A key that a file has is loaded with the value that the file has.
LEMMA MergedIs ==
    ASSUME NEW k \in Keys, NEW c, NEW doc, DocOf(c, doc)
    PROVE  /\ k \in DOMAIN doc => /\ IsConf(Merged(Defaults, doc)[k])
                                  /\ Merged(Defaults, doc)[k].val = doc[k].val
           /\ k \notin DOMAIN doc => Merged(Defaults, doc)[k] = Defaults[k]
<1> DEFINE m == Merged(Defaults, doc)[k]
           t == doc[k].type
           v == doc[k].val
<1>1. m = IF k \notin DOMAIN doc THEN Defaults[k]
          ELSE IF Defaults[k] = NoEntry \/ Defaults[k].type # t THEN New(t, v)
          ELSE Set(Defaults[k], v)
  BY DEF Merged
<1> HIDE DEF m
<1>2. CASE k \in DOMAIN doc
  <2>1. t \in Types /\ FitVal(t, v) /\ Suits(t, v) /\ Revisions > 1
    BY <1>2, Sizes DEF DocOf, FitVal
  <2>2. CASE Defaults[k] = NoEntry \/ Defaults[k].type # t
    BY <1>1, <1>2, <2>1, <2>2, NewIs DEF m
  <2>3. CASE Defaults[k] # NoEntry /\ Defaults[k].type = t
    <3>1. IsConf(Defaults[k])
      BY <2>3, DefaultsFit
    <3>2. IsConf(Set(Defaults[k], v)) /\ Set(Defaults[k], v).val = v
      BY <2>1, <2>3, <3>1, SetIs
    <3>3. m = Set(Defaults[k], v)
      BY <1>1, <1>2, <2>3
    <3> QED
      BY <1>2, <3>2, <3>3 DEF m
  <2> QED
    BY <2>2, <2>3
<1>3. CASE k \notin DOMAIN doc
  BY <1>1, <1>3 DEF m
<1> QED
  BY <1>2, <1>3

LEMMA ConfigureKeeps ==
    ASSUME SettingsInv, Configure, up'
    PROVE  SettingsInv'
<1> DEFINE created == {c \in Containers : file[c] \in {Missing, Empty}}
           read == {c \in Containers : file[c] \notin Lost}
           f == [k \in Keys |-> IF Declared[k].file \in read
                                THEN Merged(Defaults, file[Declared[k].file])[k] ELSE Defaults[k]]
<1>1. /\ conf' = f /\ declared' = Early /\ promise' = promise
      /\ orphan' = {k \in Early : f[k].type # Declared[k].type}
      /\ sum' = [c \in Containers |-> IF c \in created \cup read THEN RevisionSum(f, c) ELSE 0]
      /\ file' = [c \in Containers |-> IF c \in created /\ RevisionSum(f, c) # 0
                                        THEN Document(f, c) ELSE file[c]]
      /\ stale' = [c \in Containers |-> FALSE]
  BY Zenon DEF Configure
<1>2. \A k \in Keys : Declared[k].file \in Containers /\ k \in In(Declared[k].file)
  BY Sizes
<1>3. \A c \in Containers : \A k \in In(c) : k \in Keys /\ Declared[k].file = c
  BY DEF In
<1> DEFINE loaded(k) == Declared[k].file \in read /\ k \in DOMAIN file[Declared[k].file]
<1>4. ASSUME NEW k \in Keys
      PROVE  /\ loaded(k) => IsConf(f[k]) /\ f[k].val = file[Declared[k].file][k].val
             /\ ~loaded(k) => f[k] = Defaults[k]
  <2> DEFINE c == Declared[k].file
  <2>1. CASE c \in read
    <3>1. DocOf(c, file[c])
      BY <1>2, <2>1 DEF SettingsInv, FilesFit
    <3>2. f[k] = Merged(Defaults, file[c])[k]
      BY <2>1
    <3> HIDE DEF f
    <3> QED
      BY <2>1, <3>1, <3>2, MergedIs
  <2>2. CASE c \notin read
    BY <2>2
  <2> QED
    BY <2>1, <2>2
<1>5. f = [k \in Keys |-> f[k]]
  OBVIOUS
<1> HIDE DEF f
<1>6. \A k \in Keys : /\ f[k] # NoEntry => IsConf(f[k])
                      /\ IsConf(f[k]) => f[k] # NoEntry
                      /\ k \in Early => f[k] # NoEntry
  BY <1>4, DefaultsFit, Unmarked
<1>7. Fits(f)
  BY <1>5, <1>6 DEF Fits
<1>8. \A c \in Containers : file'[c] = IF c \in created /\ RevisionSum(f, c) # 0
                                       THEN Document(f, c) ELSE file[c]
  BY <1>1
<1>9. ASSUME NEW k \in Keys
      PROVE  /\ Recalled(k)' = Recalled(k)
             /\ f[k] # NoEntry => Recalled(k)' = f[k].val
             /\ f[k] = NoEntry => ~(Loads(file'[Declared[k].file]) /\ k \in DOMAIN file'[Declared[k].file])
  <2> DEFINE c == Declared[k].file
  <2>1. c \in Containers /\ k \in In(c)
    BY <1>2
  <2>2. CASE loaded(k)
    <3>1. c \notin created
      BY <2>2 DEF Lost
    <3>2. file'[c] = file[c]
      BY <1>8, <2>1, <3>1
    <3>3. f[k] # NoEntry /\ f[k].val = file[c][k].val
      BY <1>4, <1>6, <2>2
    <3> QED
      BY <2>2, <3>2, <3>3 DEF Recalled, Loads
  <2>3. CASE ~loaded(k)
    <3>1. Recalled(k) = Declared[k].default
      BY <2>1, <2>3 DEF Recalled, Loads
    <3>2. f[k] # NoEntry => f[k].val = Declared[k].default
      BY <1>4, <2>3, DefaultsFit
    <3>3. CASE file'[c] = file[c]
      BY <2>1, <2>3, <3>1, <3>2, <3>3 DEF Recalled, Loads
    <3>4. CASE file'[c] = Document(f, c)
      <4>1. /\ k \in DOMAIN Document(f, c) <=> f[k] # NoEntry
            /\ f[k] # NoEntry => Document(f, c)[k].val = f[k].val
        BY <1>7, <2>1, DocumentIs
      <4> HIDE DEF Document
      <4> QED
        BY <3>1, <3>2, <3>4, <4>1 DEF Recalled
    <3> QED
      BY <1>8, <2>1, <3>3, <3>4
  <2> QED
    BY <2>2, <2>3
<1>10. FilesFit'
  <2>1. DOMAIN file' = Containers /\ DOMAIN stale' = Containers /\ DOMAIN promise' = Keys
    BY <1>1 DEF SettingsInv, FilesFit
  <2>2. ASSUME NEW c \in Containers PROVE file'[c] \in Lost \/ DocOf(c, file'[c])
    <3>1. DocOf(c, Document(f, c))
      BY <1>7, DocumentIs
    <3> QED
      BY <1>8, <3>1 DEF SettingsInv, FilesFit
  <2> QED
    BY <2>1, <2>2 DEF FilesFit
<1>11. HeldTyped'
  <2>1. Early \subseteq Keys
    BY DEF Early
  <2> QED
    BY <1>1, <1>6, <2>1 DEF HeldTyped, Typed
<1>12. Fits(conf)' /\ Absent' /\ Kept'
  BY <1>1, <1>7, <1>9 DEF Absent, FileOf, SettingsInv, Kept, Told, Fits
<1>13. Synced'
  <2> SUFFICES ASSUME NEW c \in Containers PROVE Same(c)' /\ Near(c)'
    BY DEF Synced
  <2>1. Same(c)'
    BY <1>1, <1>3, <1>9 DEF Same, In
  <2>2. Total(conf, c)' = Total(f, c) /\ Present(conf, c)' = Present(f, c)
    BY <1>1 DEF Total, Revised, Present, In
  <2>3. Total(f, c) \in Nat /\ Cardinality(Present(f, c)) \in Nat
    BY SumFinite
  <2>4. CASE c \in created \cup read
    <3>1. sum'[c] = Total(f, c) % Revisions
      BY <1>1, <2>4 DEF RevisionSum, Total
    <3>2. Total(f, c) <= Total(f, c) + Cardinality(Present(f, c))
      BY <2>3
    <3> QED
      BY <2>1, <2>2, <2>3, <3>1, <3>2 DEF Near
  <2>5. CASE c \notin created \cup read
    <3>1. sum'[c] = 0
      BY <1>1, <2>5
    <3>2. \A k \in In(c) : f[k] = Defaults[k] /\ k \in Keys
      BY <1>3, <1>4, <2>5
    <3>3. Total(f, c) <= Cardinality(Present(f, c))
      <4>1. \A k \in In(c) : f[k] # NoEntry => f[k].rev \in {0, 1}
        BY <3>2, DefaultsFit
      <4> QED
        BY <4>1, SumSmall
    <3>4. 0 % Revisions = 0 /\ 0 <= Total(f, c) /\ Total(f, c) <= 0 + Cardinality(Present(f, c))
      BY <2>3, <3>3, Sizes
    <3> QED
      BY <2>1, <2>2, <3>1, <3>4 DEF Near
  <2> QED
    BY <2>4, <2>5
<1> QED
  BY <1>10, <1>11, <1>12, <1>13 DEF SettingsInv

-----------------------------------------------------------------------------
(* Every step *)

\* The local list and the meter records leave the configuration alone, unless they reset the
\* charge point.
LEMMA OthersKeep ==
    ASSUME SettingsInv, UNCHANGED settingsVars, up' = up
    PROVE  SettingsInv'
<1>1. /\ file' = file /\ conf' = conf /\ declared' = declared /\ orphan' = orphan /\ sum' = sum
      /\ stale' = stale /\ promise' = promise
  BY DEF settingsVars
<1>2. Fits(conf)' /\ FilesFit' /\ HeldTyped' /\ Absent' /\ Kept'
  BY <1>1 DEF SettingsInv, Fits, FilesFit, HeldTyped, Typed, Absent, FileOf, Kept, Told, Recalled
<1>3. Synced'
  BY <1>1 DEF SettingsInv, Synced, Same, Near, Recalled, Total, Revised, Present, In
<1> QED
  BY <1>2, <1>3 DEF SettingsInv

LEMMA StepSettings == SettingsInv /\ [Next]_vars => SettingsInv'
<1> SUFFICES ASSUME SettingsInv, [Next]_vars PROVE SettingsInv'
  OBVIOUS
<1>1. CASE Boot
  BY <1>1, ConfigureKeeps DEF Boot
<1>2. CASE PowerCut
  <2>1. up /\ ~up'
    BY <1>2 DEF PowerCut
  <2>2. CASE SettingsCut
    BY <2>1, <2>2, SettingsCutKeeps
  <2>3. CASE ChangeIsCut
    <3>1. Fits(conf) /\ HeldTyped
      BY DEF SettingsInv
    <3>2. PICK k \in Keys, c \in Containers :
            \/ \E t \in Texts : Accepts(k, t) /\ CutInSave(Changing(k, t), k, c)
            \/ Own(k) /\ \E v \in BOOLEAN : CutInSave(Setting(k, v), k, c)
      BY <2>3 DEF ChangeIsCut
    <3>3. CASE \E t \in Texts : Accepts(k, t) /\ CutInSave(Changing(k, t), k, c)
      <4>1. PICK t \in Texts : Accepts(k, t) /\ CutInSave(Changing(k, t), k, c)
        BY <3>3
      <4> QED
        BY <2>1, <3>1, <4>1, ChangingEdits, CutInSaveKeeps
    <3>4. CASE Own(k) /\ \E v \in BOOLEAN : CutInSave(Setting(k, v), k, c)
      <4>1. PICK v \in BOOLEAN : Own(k) /\ CutInSave(Setting(k, v), k, c)
        BY <3>4
      <4> QED
        BY <2>1, <3>1, <4>1, SettingEdits, CutInSaveKeeps
    <3> QED
      BY <3>2, <3>3, <3>4
  <2> QED
    BY <1>2, <2>2, <2>3 DEF PowerCut
<1>3. CASE SettingsSteps /\ UNCHANGED <<listVars, meterVars, up>>
  <2>1. Fits(conf) /\ HeldTyped /\ up' = up
    BY <1>3 DEF SettingsInv
  <2>2. ASSUME NEW k \in Keys, Declare(k) PROVE SettingsInv'
    BY <2>1, <2>2, DeclareKeeps
  <2>3. ASSUME NEW k \in Keys, NEW outcome \in Outcomes, NEW t \in Texts,
               ChangeConfiguration(k, t, outcome)
        PROVE  SettingsInv'
    <3>1. /\ up /\ Accepts(k, t) /\ UNCHANGED <<declared, orphan>>
          /\ Answered(Changing(k, t), k, Parsed(conf[k].type, t), outcome)
      BY <2>3 DEF ChangeConfiguration
    <3> QED
      BY <2>1, <3>1, ChangingEdits, AnswerKeeps
  <2>4. ASSUME NEW k \in Keys, NEW outcome \in Outcomes, NEW v \in BOOLEAN,
               LocalChange(k, v, outcome)
        PROVE  SettingsInv'
    <3>1. /\ up /\ Own(k) /\ UNCHANGED <<declared, orphan>>
          /\ Answered(Setting(k, v), k, v, outcome)
      BY <2>4 DEF LocalChange
    <3> QED
      BY <2>1, <3>1, SettingEdits, AnswerKeeps
  <2> QED
    BY <1>3, <2>2, <2>3, <2>4 DEF SettingsSteps
<1>4. CASE ListSteps /\ UNCHANGED <<settingsVars, meterVars, up>>
  BY <1>4, OthersKeep
<1>5. CASE MeterSteps /\ IF up' THEN UNCHANGED <<settingsVars, listVars>> ELSE SettingsCut /\ ListCut
  <2>1. CASE up' = up
    <3>1. CASE up'
      BY <1>5, <2>1, <3>1, OthersKeep
    <3>2. CASE ~up'
      BY <1>5, <3>2, SettingsCutKeeps
    <3> QED
      BY <3>1, <3>2
  <2>2. CASE ~up'
    BY <1>5, <2>2, SettingsCutKeeps
  <2>3. up' = up \/ ~up'
    BY <1>5 DEF MeterSteps, StartConf, StartLost, StopRestored, StopConf
  <2> QED
    BY <2>1, <2>2, <2>3
<1>6. CASE UNCHANGED vars
  BY <1>6, OthersKeep DEF vars
<1> QED
  BY <1>1, <1>2, <1>3, <1>4, <1>5, <1>6 DEF Next

\* The invariant behind Kept: entries and files fit, a boot loads every key of a file, and what
\* is not stale is recalled and has moved its sum by one revision for each new entry at most.
\* (ConfigurationContainerFlash::load, configurationsUpdated and save)
THEOREM SettingsInvariant == Spec => []SettingsInv
<1>1. Init => SettingsInv
  BY InitSettings
<1>2. SettingsInv /\ [Next]_vars => SettingsInv'
  BY StepSettings
<1> QED
  BY <1>1, <1>2, PTL DEF Spec

\* The value that the server was last told to be accepted is the one it is told and the one that
\* the next boot brings back, over power cuts, failing writes and boots.
\* (ChangeConfiguration::processReq, ConfigurationContainerFlash::load and save)
THEOREM AcceptedIsKept == Spec => []Kept
<1>1. SettingsInv => Kept
  BY DEF SettingsInv
<1> QED
  BY <1>1, SettingsInvariant, PTL

-----------------------------------------------------------------------------
(* The local authorization list: bisection *)

\* What is in the list, and the entries of an update.
Line == [tag : Tags \cup {0}, info : Granted]

\* What is assumed of the tags, 0 being none of them.
LEMMA TagsAre == Tags \subseteq Nat \ {0} /\ Removed \notin Granted /\ Versions \subseteq Nat \ {0} /\ MaxList \in Nat
BY ListAssumption

\* The entries of a list and their tags, which are 0 where they are marked.
LEMMA LinesAre ==
    ASSUME NEW l \in Seq(Line)
    PROVE  /\ Len(l) \in Nat /\ DOMAIN l = 1..Len(l)
           /\ \A i \in 1..Len(l) : l[i] \in Line /\ l[i].tag \in Nat /\ l[i].tag \in Tags \cup {0} /\ l[i].info \in Granted
<1>1. \A i \in 1..Len(l) : l[i] \in Line
  OBVIOUS
<1>2. \A x \in Line : x.tag \in Tags \cup {0} /\ x.info \in Granted
  BY DEF Line
<1>3. \A t \in Tags \cup {0} : t \in Nat
  BY TagsAre
<1>4. \A i \in 1..Len(l) : l[i].tag \in Nat
  BY <1>1, <1>2, <1>3
<1> QED
  BY <1>1, <1>2, <1>4

\* One look of the bisection.
Probe(l, tag, F, w) ==
    LET m == (w[1] + w[2]) \div 2
    IN  IF w[1] > w[2] THEN 0
        ELSE IF l[m + 1].tag < tag THEN F[<<m + 1, w[2]>>]
        ELSE IF l[m + 1].tag > tag THEN F[<<w[1], m - 1>>]
        ELSE m + 1
\* The width of a window, and its middle.
Width(w) == IF w[1] > w[2] THEN 0 ELSE w[2] - w[1] + 1
Middle(w) == (w[1] + w[2]) \div 2

\* The halves of a window are smaller windows.
LEMMA Halves ==
    ASSUME NEW l, Len(l) \in Nat, NEW w \in Windows(l)
    PROVE  /\ Width(w) \in 0..Len(l) /\ w[1] \in 0..Len(l) /\ w[2] \in -1..(Len(l) - 1)
           /\ w[1] <= w[2] =>
                /\ Middle(w) \in w[1]..w[2] /\ Middle(w) + 1 \in 1..Len(l)
                /\ <<Middle(w) + 1, w[2]>> \in Windows(l) /\ <<w[1], Middle(w) - 1>> \in Windows(l)
                /\ Width(<<Middle(w) + 1, w[2]>>) < Width(w) /\ Width(<<w[1], Middle(w) - 1>>) < Width(w)
<1> DEFINE a == w[1]
           b == w[2]
           m == Middle(w)
<1>1. a \in 0..Len(l) /\ b \in -1..(Len(l) - 1)
  BY DEF Windows
<1>2. a <= b => m \in a..b
  BY <1>1 DEF Middle
<1>3. Width(w) \in 0..Len(l)
  BY <1>1 DEF Width
<1> HIDE DEF m
<1>4. ASSUME a <= b
      PROVE  /\ m + 1 \in 1..Len(l) /\ m + 1 \in 0..Len(l) /\ m - 1 \in -1..(Len(l) - 1)
             /\ Width(<<m + 1, b>>) < Width(w) /\ Width(<<a, m - 1>>) < Width(w)
  BY <1>1, <1>2, <1>4 DEF Width
<1>5. a <= b => <<m + 1, b>> \in Windows(l) /\ <<a, m - 1>> \in Windows(l)
  BY <1>1, <1>4 DEF Windows
<1> QED
  BY <1>1, <1>2, <1>3, <1>4, <1>5 DEF m

\* The bisection of the code, as a function.
Bisects(F, l, tag) == F = [w \in Windows(l) |-> Probe(l, tag, F, w)]

\* A look depends on what the search finds in smaller windows only.
LEMMA ProbeIs ==
    ASSUME NEW l, Len(l) \in Nat, NEW tag, NEW w \in Windows(l), NEW F, NEW G,
           \A v \in Windows(l) : Width(v) < Width(w) => F[v] = G[v]
    PROVE  Probe(l, tag, F, w) = Probe(l, tag, G, w)
<1>1. CASE w[1] > w[2]
  BY <1>1 DEF Probe
<1>2. CASE w[1] <= w[2]
  <2>1. F[<<Middle(w) + 1, w[2]>>] = G[<<Middle(w) + 1, w[2]>>] /\ F[<<w[1], Middle(w) - 1>>] = G[<<w[1], Middle(w) - 1>>]
    BY <1>2, Halves
  <2> QED
    BY <2>1 DEF Probe, Middle
<1>3. w[1] > w[2] \/ w[1] <= w[2]
  <2>1. w[1] \in 0..Len(l) /\ w[2] \in -1..(Len(l) - 1)
    BY DEF Windows
  <2> QED
    BY <2>1
<1> QED
  BY <1>1, <1>2, <1>3

\* It exists, as every look is at a smaller window than the one before.
LEMMA BisectionExists ==
    ASSUME NEW l, Len(l) \in Nat, NEW tag
    PROVE  \E F : Bisects(F, l, tag)
<1> DEFINE n == Len(l)
           D == Windows(l)
           Upto(F, k) == \A w \in D : Width(w) < k => F[w] = Probe(l, tag, F, w)
           Has(k) == \E F : F = [w \in D |-> F[w]] /\ Upto(F, k)
           S == {k \in 0..(n + 1) : Has(k)}
<1>0. n \in Nat /\ \A w \in D : Width(w) \in 0..n
  BY Halves
<1>1. Has(0)
  <2> DEFINE Z == [w \in D |-> 0]
  <2>1. Upto(Z, 0)
    BY <1>0
  <2>2. Z = [w \in D |-> Z[w]]
    OBVIOUS
  <2> HIDE DEF Z, Upto
  <2> QED
    BY <2>1, <2>2
<1>2. ASSUME NEW k \in 1..(n + 1), Has(k - 1) PROVE Has(k)
  <2>1. PICK F : F = [w \in D |-> F[w]] /\ Upto(F, k - 1)
    BY <1>2
  <2> DEFINE G == [w \in D |-> Probe(l, tag, F, w)]
  <2>2. \A w \in D : G[w] = Probe(l, tag, F, w)
    OBVIOUS
  <2>3. \A w \in D : Width(w) < k - 1 => G[w] = F[w]
    BY <2>1, <2>2
  <2> HIDE DEF G
  <2>4. ASSUME NEW w \in D, Width(w) < k PROVE G[w] = Probe(l, tag, G, w)
    <3>1. \A v \in D : Width(v) < Width(w) => F[v] = G[v]
      <4> SUFFICES ASSUME NEW v \in D, Width(v) < Width(w) PROVE F[v] = G[v]
        OBVIOUS
      <4>1. Width(v) < k - 1
        BY <1>0, <2>4
      <4> QED
        BY <2>3, <4>1
    <3>2. Probe(l, tag, F, w) = Probe(l, tag, G, w)
      BY <1>0, <3>1, ProbeIs
    <3> QED
      BY <2>2, <3>2
  <2>5. G = [w \in D |-> G[w]]
    BY DEF G
  <2> QED
    BY <2>4, <2>5
<1> HIDE DEF Has
<1>3. \A k \in 0..(n + 1) : k \in S
  <2>1. 0 \in S
    BY <1>0, <1>1
  <2>2. \A k \in 1..(n + 1) : k - 1 \in S => k \in S
    BY <1>0, <1>2
  <2>3. n + 1 \in Nat
    BY <1>0
  <2> HIDE DEF S, n
  <2> QED
    BY <2>1, <2>2, <2>3, Climb, Zenon
<1>4. Has(n + 1)
  <2>1. n + 1 \in 0..(n + 1)
    BY <1>0
  <2> QED
    BY <1>3, <2>1
<1>5. PICK F : F = [w \in D |-> F[w]] /\ Upto(F, n + 1)
  BY <1>4 DEF Has
<1>6. \A w \in D : F[w] = Probe(l, tag, F, w)
  BY <1>0, <1>5
<1>7. [w \in D |-> F[w]] = [w \in D |-> Probe(l, tag, F, w)]
  BY <1>6, Zenon
<1> QED
  BY <1>5, <1>7, Zenon DEF Bisects

\* get is that function, for the whole list.
LEMMA GetBisects ==
    ASSUME NEW l, Len(l) \in Nat, NEW tag
    PROVE  \E F : Bisects(F, l, tag) /\ Get(l, tag) = F[<<0, Len(l) - 1>>]
<1> DEFINE S == CHOOSE F : Bisects(F, l, tag)
<1>1. Bisects(S, l, tag)
  BY BisectionExists, Zenon
<1>2. Get(l, tag) = S[<<0, Len(l) - 1>>]
  BY DEF Get, Probe, Bisects
<1> HIDE DEF S
<1> QED
  BY <1>1, <1>2, Zenon

\* The tags go up, from place to place.
Strict(l) ==
    /\ \A i \in DOMAIN l : l[i].tag # 0
    /\ \A i, j \in DOMAIN l : i < j => l[i].tag < l[j].tag

\* What the bisection says of a window.
Finds(l, tag, w, i) ==
    /\ i \in 0..Len(l)
    /\ i > 0 => l[i].tag = tag
    /\ i = 0 /\ Strict(l) => \A j \in (w[1] + 1)..(w[2] + 1) : l[j].tag # tag

\* If the search is right in smaller windows, a look is right.
LEMMA ProbeFinds ==
    ASSUME NEW l \in Seq(Line), NEW tag \in Tags, NEW F, NEW w \in Windows(l),
           \A v \in Windows(l) : Width(v) < Width(w) => Finds(l, tag, v, F[v])
    PROVE  Finds(l, tag, w, Probe(l, tag, F, w))
<1> DEFINE n == Len(l)
           a == w[1]
           b == w[2]
           m == Middle(w)
           lo == <<a, m - 1>>
           hi == <<m + 1, b>>
<1>0. n \in Nat /\ DOMAIN l = 1..n /\ tag \in Nat /\ \A i \in 1..n : l[i].tag \in Nat
  BY LinesAre, TagsAre
<1>1. a \in 0..n /\ b \in -1..(n - 1)
  BY <1>0, Halves
<1>2. CASE a > b
  BY <1>0, <1>1, <1>2 DEF Probe, Finds
<1>3. CASE a <= b
  <2>1. /\ m \in a..b /\ m + 1 \in 1..n
        /\ hi \in Windows(l) /\ lo \in Windows(l) /\ Width(hi) < Width(w) /\ Width(lo) < Width(w)
    BY <1>0, <1>3, Halves
  <2>2. Finds(l, tag, hi, F[hi]) /\ Finds(l, tag, lo, F[lo])
    BY <2>1
  <2> DEFINE P == Probe(l, tag, F, w)
  <2>3. P = IF l[m + 1].tag < tag THEN F[hi] ELSE IF l[m + 1].tag > tag THEN F[lo] ELSE m + 1
    BY <1>1, <1>3 DEF Probe, Middle
  <2>4. hi[1] = m + 1 /\ hi[2] = b /\ lo[1] = a /\ lo[2] = m - 1
    OBVIOUS
  <2> HIDE DEF P, m, hi, lo
  <2>5. CASE l[m + 1].tag < tag
    <3>1. P = F[hi]
      BY <2>3, <2>5
    <3>2. Strict(l) => \A j \in (a + 1)..(m + 1) : l[j].tag # tag
      <4> SUFFICES ASSUME Strict(l), NEW j \in (a + 1)..(m + 1) PROVE l[j].tag # tag
        OBVIOUS
      <4>1. j \in 1..n /\ j <= m + 1
        BY <1>1, <2>1
      <4>2. l[j].tag <= l[m + 1].tag
        BY <1>0, <2>1, <4>1 DEF Strict
      <4> QED
        BY <1>0, <2>1, <2>5, <4>1, <4>2
    <3>3. \A j \in (a + 1)..(b + 1) : j \in (a + 1)..(m + 1) \/ j \in (m + 2)..(b + 1)
      BY <1>1, <2>1
    <3>4. (hi[1] + 1)..(hi[2] + 1) = (m + 2)..(b + 1)
      BY <1>1, <2>1, <2>4
    <3>5. Finds(l, tag, hi, P)
      BY <2>2, <3>1
    <3> HIDE DEF a, b
    <3>6. P = 0 /\ Strict(l) => \A j \in (a + 1)..(b + 1) : l[j].tag # tag
      BY <3>2, <3>3, <3>4, <3>5 DEF Finds
    <3> QED
      BY <3>5, <3>6 DEF Finds, a, b, P
  <2>6. CASE l[m + 1].tag > tag
    <3>1. P = F[lo]
      BY <1>0, <2>1, <2>3, <2>6
    <3>2. Strict(l) => \A j \in (m + 1)..(b + 1) : l[j].tag # tag
      <4> SUFFICES ASSUME Strict(l), NEW j \in (m + 1)..(b + 1) PROVE l[j].tag # tag
        OBVIOUS
      <4>1. j \in 1..n /\ j >= m + 1
        BY <1>1, <2>1
      <4>2. l[j].tag >= l[m + 1].tag
        BY <1>0, <2>1, <4>1 DEF Strict
      <4> QED
        BY <1>0, <2>1, <2>6, <4>1, <4>2
    <3>3. \A j \in (a + 1)..(b + 1) : j \in (m + 1)..(b + 1) \/ j \in (a + 1)..m
      BY <1>1, <2>1
    <3>4. (lo[1] + 1)..(lo[2] + 1) = (a + 1)..m
      BY <1>1, <2>1, <2>4
    <3>5. Finds(l, tag, lo, P)
      BY <2>2, <3>1
    <3> HIDE DEF a, b
    <3>6. P = 0 /\ Strict(l) => \A j \in (a + 1)..(b + 1) : l[j].tag # tag
      BY <3>2, <3>3, <3>4, <3>5 DEF Finds
    <3> QED
      BY <3>5, <3>6 DEF Finds, a, b, P
  <2>7. CASE l[m + 1].tag = tag
    <3>1. P = m + 1
      BY <1>0, <2>1, <2>3, <2>7
    <3>2. P \in 0..n /\ P # 0 /\ l[P].tag = tag
      BY <1>0, <2>1, <2>7, <3>1
    <3> QED
      BY <3>2 DEF Finds, P
  <2> QED
    BY <1>0, <2>1, <2>5, <2>6, <2>7 DEF P
<1> QED
  BY <1>0, <1>1, <1>2, <1>3

\* get yields a place of the tag or 0, and 0 in a sorted list only if the tag is not there.
LEMMA GetFinds ==
    ASSUME NEW l \in Seq(Line), NEW tag \in Tags
    PROVE  /\ Get(l, tag) \in 0..Len(l)
           /\ Get(l, tag) > 0 => l[Get(l, tag)].tag = tag
           /\ Get(l, tag) = 0 /\ Strict(l) => \A j \in 1..Len(l) : l[j].tag # tag
<1> DEFINE n == Len(l)
           D == Windows(l)
<1>0. n \in Nat
  OBVIOUS
<1>1. PICK F : Bisects(F, l, tag) /\ Get(l, tag) = F[<<0, n - 1>>]
  BY <1>0, GetBisects
<1>2. \A w \in D : F[w] = Probe(l, tag, F, w)
  BY <1>1 DEF Bisects
<1> DEFINE S == {k \in 0..(n + 1) : \A w \in D : Width(w) < k => Finds(l, tag, w, F[w])}
<1>3. \A w \in D : Width(w) \in 0..n
  BY <1>0, Halves
<1>4. 0 \in S
  BY <1>0, <1>3
<1>5. ASSUME NEW k \in 1..(n + 1), k - 1 \in S PROVE k \in S
  <2>1. ASSUME NEW w \in D, Width(w) < k PROVE Finds(l, tag, w, F[w])
    <3>1. \A v \in D : Width(v) < Width(w) => Width(v) < k - 1
      BY <1>3, <2>1
    <3>2. \A v \in D : Width(v) < Width(w) => Finds(l, tag, v, F[v])
      BY <1>5, <3>1
    <3> QED
      BY <1>2, <3>2, ProbeFinds
  <2> QED
    BY <1>0, <2>1
<1>6. n + 1 \in S
  <2>1. n + 1 \in Nat /\ n + 1 \in 0..(n + 1)
    BY <1>0
  <2> HIDE DEF S, n
  <2>2. \A k \in 0..(n + 1) : k \in S
    BY <1>4, <1>5, <2>1, Climb, Zenon
  <2> QED
    BY <2>1, <2>2
<1>7. \A w \in D : Finds(l, tag, w, F[w])
  BY <1>0, <1>3, <1>6
<1>8. <<0, n - 1>> \in D
  BY <1>0 DEF Windows
<1>9. Finds(l, tag, <<0, n - 1>>, Get(l, tag))
  BY <1>1, <1>7, <1>8
<1> QED
  BY <1>0, <1>9 DEF Finds

-----------------------------------------------------------------------------
(* Sorting *)

\* p goes through the places S of l in the order of their tags.
Sorts(p, l, S) ==
    LET c == Cardinality(S)
    IN  /\ c \in Nat /\ p \in [1..c -> S]
        /\ \A k, m \in 1..c : k < m => Earlier(l, p[k], p[m])
        /\ \A i \in S : \E k \in 1..c : p[k] = i
        /\ Ordered(l, S) = [k \in 1..c |-> l[p[k]]]

\* There are n numbers from 1 to n.
LEMMA UptoSize ==
    ASSUME NEW n \in Nat
    PROVE  IsFiniteSet(1..n) /\ Cardinality(1..n) = n
BY FS_Interval

\* How many of the places come before.
Ahead(l, S, i) == {j \in S : Earlier(l, j, i)}

\* An earlier entry has fewer entries before it.
LEMMA AheadLess ==
    ASSUME NEW n \in Nat, NEW l, NEW S \in SUBSET (1..n), \A i \in S : l[i].tag \in Nat,
           NEW i \in S, NEW j \in S, Earlier(l, i, j)
    PROVE  /\ Cardinality(Ahead(l, S, i)) \in Nat /\ Cardinality(Ahead(l, S, j)) \in Nat
           /\ Cardinality(Ahead(l, S, i)) < Cardinality(Ahead(l, S, j))
<1>1. IsFiniteSet(S)
  <2>1. IsFiniteSet(1..n)
    BY UptoSize
  <2> QED
    BY <2>1, FS_Subset
<1>2. Ahead(l, S, i) \subseteq Ahead(l, S, j)
  <2> SUFFICES ASSUME NEW k \in S, Earlier(l, k, i) PROVE Earlier(l, k, j)
    BY DEF Ahead
  <2>1. i \in Nat /\ j \in Nat /\ k \in Nat /\ l[i].tag \in Nat /\ l[j].tag \in Nat /\ l[k].tag \in Nat
    OBVIOUS
  <2> QED
    BY <2>1 DEF Earlier
<1>3. i \in Ahead(l, S, j) /\ i \notin Ahead(l, S, i)
  BY DEF Ahead, Earlier
<1>4. IsFiniteSet(Ahead(l, S, j)) /\ IsFiniteSet(Ahead(l, S, i))
  <2>1. Ahead(l, S, j) \in SUBSET S /\ Ahead(l, S, i) \in SUBSET S
    BY DEF Ahead
  <2> QED
    BY <1>1, <2>1, FS_Subset
<1>5. /\ Cardinality(Ahead(l, S, i)) <= Cardinality(Ahead(l, S, j))
      /\ Cardinality(Ahead(l, S, i)) # Cardinality(Ahead(l, S, j))
  BY <1>2, <1>3, <1>4, FS_Subset
<1>6. Cardinality(Ahead(l, S, i)) \in Nat /\ Cardinality(Ahead(l, S, j)) \in Nat
  BY <1>4, FS_CardinalityType
<1> QED
  BY <1>5, <1>6

\* Sorting by the number of entries that come before goes through every place once, in the order
\* of the tags.
LEMMA OrderedSorts ==
    ASSUME NEW n \in Nat, NEW l, NEW S \in SUBSET (1..n), \A i \in S : l[i].tag \in Nat
    PROVE  \E p : Sorts(p, l, S)
<1> DEFINE c == Cardinality(S)
           Rank(i) == Cardinality(Ahead(l, S, i))
           r == [i \in S |-> Rank(i)]
           p == [k \in 1..c |-> CHOOSE i \in S : Rank(i) = k - 1]
<1>1. IsFiniteSet(S) /\ c \in Nat
  <2>1. IsFiniteSet(1..n)
    BY FS_Interval
  <2> QED
    BY <2>1, FS_Subset, FS_CardinalityType
<1>2. \A i, j \in S : i # j => Earlier(l, i, j) \/ Earlier(l, j, i)
  BY DEF Earlier
<1>3. \A i, j \in S : Earlier(l, i, j) => Rank(i) < Rank(j)
  BY AheadLess
<1>4. ASSUME NEW i \in S PROVE Rank(i) \in 0..(c - 1)
  <2>1. IsFiniteSet(S \ {i}) /\ Cardinality(S \ {i}) = c - 1
    BY <1>1, FS_RemoveElement
  <2>2. Ahead(l, S, i) \in SUBSET (S \ {i})
    BY DEF Ahead, Earlier
  <2>3. IsFiniteSet(Ahead(l, S, i)) /\ Rank(i) <= c - 1
    BY <2>1, <2>2, FS_Subset
  <2>4. Rank(i) \in Nat
    BY <2>3, FS_CardinalityType
  <2> QED
    BY <1>1, <2>3, <2>4
<1> HIDE DEF Rank
<1>0. \A i \in S : Rank(i) \in Nat
  BY <1>1, <1>4
<1>5. r \in Injection(S, 0..(c - 1))
  <2>1. r \in [S -> 0..(c - 1)]
    BY <1>4
  <2>2. \A i, j \in S : r[i] = r[j] => i = j
    BY <1>1, <1>2, <1>3, <1>4
  <2> QED
    BY <2>1, <2>2 DEF Injection, IsInjective
<1>6. \A k \in 1..c : \E i \in S : Rank(i) = k - 1
  <2>1. IsFiniteSet(0..(c - 1)) /\ Cardinality(0..(c - 1)) = c
    <3> HIDE DEF c
    <3>1. c - 1 \in Int /\ 0 \in Int
      BY <1>1
    <3>2. /\ IsFiniteSet(0..(c - 1))
          /\ Cardinality(0..(c - 1)) = IF 0 > c - 1 THEN 0 ELSE c - 1 - 0 + 1
      BY <3>1, FS_Interval
    <3> QED
      BY <1>1, <3>2
  <2>2. r \in Surjection(S, 0..(c - 1))
    BY <1>5, <2>1, FS_Injection
  <2>3. \A m \in 0..(c - 1) : \E i \in S : r[i] = m
    BY <2>2 DEF Surjection
  <2> QED
    BY <1>1, <2>3
<1>7. \A k \in 1..c : p[k] \in S /\ Rank(p[k]) = k - 1
  BY <1>6
<1>8. Ordered(l, S) = [k \in 1..c |-> l[p[k]]]
  BY DEF Ordered, Ahead, Rank
<1>9. p \in [1..c -> S]
  BY <1>7
<1> HIDE DEF p
<1>10. ASSUME NEW k \in 1..c, NEW m \in 1..c, k < m PROVE Earlier(l, p[k], p[m])
  <2>1. Rank(p[k]) < Rank(p[m]) /\ p[k] \in S /\ p[m] \in S
    BY <1>1, <1>7, <1>10
  <2>2. p[k] # p[m] /\ ~Earlier(l, p[m], p[k])
    <3>1. Rank(p[k]) \in Nat /\ Rank(p[m]) \in Nat
      BY <1>0, <2>1
    <3>2. Earlier(l, p[m], p[k]) => Rank(p[m]) < Rank(p[k])
      BY <1>3, <2>1
    <3> QED
      BY <2>1, <3>1, <3>2
  <2> QED
    BY <1>2, <2>1, <2>2
<1>11. ASSUME NEW i \in S PROVE \E k \in 1..c : p[k] = i
  <2> DEFINE k == Rank(i) + 1
  <2>1. k \in 1..c /\ k - 1 = Rank(i)
    BY <1>1, <1>4
  <2>2. p[k] \in S /\ Rank(p[k]) = Rank(i)
    BY <1>7, <2>1
  <2>3. p[k] = i
    <3>1. Rank(i) \in Nat
      BY <1>1, <1>4
    <3>2. Earlier(l, p[k], i) \/ Earlier(l, i, p[k]) => Rank(p[k]) # Rank(i)
      <4>1. Earlier(l, p[k], i) => Rank(p[k]) < Rank(i)
        BY <1>3, <2>2
      <4>2. Earlier(l, i, p[k]) => Rank(i) < Rank(p[k])
        BY <1>3, <2>2
      <4> QED
        BY <2>2, <3>1, <4>1, <4>2
    <3> QED
      BY <1>2, <2>2, <3>2
  <2> QED
    BY <2>1, <2>3
<1> QED
  BY <1>1, <1>8, <1>9, <1>10, <1>11 DEF Sorts

\* What a list that is not marked has, and what the sequences that are sorted have.
Valid == [tag : Tags, info : Granted]
Row == [tag : Tags \cup {0}, info : Granted \cup {Removed}]

\* The same of lists and updates alike.
LEMMA RowsAre ==
    ASSUME NEW l \in Seq(Row)
    PROVE  /\ Len(l) \in Nat /\ DOMAIN l = 1..Len(l)
           /\ \A i \in 1..Len(l) : l[i] \in Row /\ l[i].tag \in Nat
<1>1. \A i \in 1..Len(l) : l[i] \in Row
  OBVIOUS
<1>2. \A x \in Row : x.tag \in Tags \cup {0}
  BY DEF Row
<1>3. \A t \in Tags \cup {0} : t \in Nat
  BY TagsAre
<1> QED
  BY <1>1, <1>2, <1>3

\* Which entries are which: those without a mark that say something are valid.
LEMMA ValidAre ==
    /\ \A x \in Valid : x \in Line /\ x \in Row /\ x \in Entry /\ x.tag \in Tags /\ x.tag # 0 /\ x.info \in Granted /\ x.info # Removed
    /\ \A x \in Line : x \in Row /\ (x.tag # 0 => x \in Valid)
    /\ \A x \in Entry : x \in Row /\ x.tag \in Tags /\ x.tag # 0 /\ (x.info # Removed => x \in Valid)
<1>1. 0 \notin Tags /\ Removed \notin Granted
  BY TagsAre
<1> QED
  BY <1>1 DEF Valid, Line, Row, Entry

\* What sorting makes of the entries at some places, all of them valid.
LEMMA OrderedIs ==
    ASSUME NEW l \in Seq(Row), NEW S \in SUBSET (1..Len(l)), \A i \in S : l[i] \in Valid
    PROVE  /\ Ordered(l, S) \in Seq(Valid) /\ Len(Ordered(l, S)) <= Len(l)
           /\ \A k \in DOMAIN Ordered(l, S) : \E i \in S : Ordered(l, S)[k] = l[i]
           /\ \A i \in S : \E k \in DOMAIN Ordered(l, S) : Ordered(l, S)[k] = l[i]
           /\ (\A i, j \in S : l[i].tag = l[j].tag => i = j) => Strict(Ordered(l, S))
<1> DEFINE n == Len(l)
           o == Ordered(l, S)
           c == Cardinality(S)
<1>1. n \in Nat /\ \A i \in S : l[i].tag \in Nat
  BY RowsAre
<1>2. PICK p : Sorts(p, l, S)
  BY <1>1, OrderedSorts
<1>3. /\ c \in Nat /\ p \in [1..c -> S] /\ o = [k \in 1..c |-> l[p[k]]]
      /\ \A k, m \in 1..c : k < m => Earlier(l, p[k], p[m])
      /\ \A i \in S : \E k \in 1..c : p[k] = i
  BY <1>2 DEF Sorts
<1> HIDE DEF o, c
<1>4. \A k \in 1..c : p[k] \in S /\ o[k] = l[p[k]] /\ o[k] \in Valid
  BY <1>3
<1>5. o \in Seq(Valid) /\ Len(o) = c /\ DOMAIN o = 1..c
  <2>1. o \in [1..c -> Valid]
    BY <1>3, <1>4
  <2> QED
    BY <1>3, <2>1, SeqDef
<1>6. c <= n
  <2>1. IsFiniteSet(1..n) /\ Cardinality(1..n) = n
    BY <1>1, UptoSize
  <2> QED
    BY <2>1, FS_Subset DEF c
<1>7. ASSUME \A i, j \in S : l[i].tag = l[j].tag => i = j
      PROVE  Strict(o)
  <2>1. \A k \in 1..c : o[k].tag # 0
    BY <1>4, ValidAre
  <2>2. ASSUME NEW k \in 1..c, NEW m \in 1..c, k < m PROVE o[k].tag < o[m].tag
    <3>1. Earlier(l, p[k], p[m]) /\ p[k] \in S /\ p[m] \in S /\ o[k] = l[p[k]] /\ o[m] = l[p[m]]
      BY <1>3, <1>4, <2>2
    <3>2. l[p[k]].tag = l[p[m]].tag => p[k] = p[m]
      BY <1>7, <3>1
    <3>3. p[k] \in Nat /\ p[m] \in Nat /\ l[p[k]].tag \in Nat /\ l[p[m]].tag \in Nat
      <4>1. l[p[k]].tag \in Nat /\ l[p[m]].tag \in Nat
        BY <1>1, <3>1
      <4>2. p[k] \in 1..n /\ p[m] \in 1..n
        BY <3>1
      <4> QED
        BY <1>1, <4>1, <4>2
    <3>4. p[k] # p[m]
      BY <3>1, <3>3 DEF Earlier
    <3> QED
      BY <3>1, <3>2, <3>3, <3>4 DEF Earlier
  <2> QED
    BY <1>5, <2>1, <2>2 DEF Strict
<1>8. \A i \in S : \E k \in 1..c : o[k] = l[i]
  BY <1>3, <1>4
<1> QED
  BY <1>4, <1>5, <1>6, <1>7, <1>8 DEF o

\* A list that is sorted already stays as it is.
LEMMA OrderedSame ==
    ASSUME NEW l \in Seq(Valid), Strict(l)
    PROVE  Ordered(l, DOMAIN l) = l
<1> DEFINE n == Len(l)
<1>1. n \in Nat /\ DOMAIN l = 1..n /\ \A i \in 1..n : l[i].tag \in Nat
  <2>1. \A i \in 1..n : l[i] \in Valid
    OBVIOUS
  <2>2. \A t \in Tags : t \in Nat
    BY TagsAre
  <2>3. \A i \in 1..n : l[i].tag \in Nat
    BY <2>1, <2>2, ValidAre
  <2> QED
    BY <2>3
<1>2. Cardinality(1..n) = n
  BY <1>1, UptoSize
<1>3. ASSUME NEW i \in 1..n PROVE Cardinality({j \in 1..n : Earlier(l, j, i)}) = i - 1
  <2>1. \A j \in 1..n : Earlier(l, j, i) <=> j < i
    <3> TAKE j \in 1..n
    <3>1. j < i => l[j].tag < l[i].tag
      BY <1>1 DEF Strict
    <3>2. i < j => l[i].tag < l[j].tag
      BY <1>1 DEF Strict
    <3> QED
      BY <1>1, <3>1, <3>2 DEF Earlier
  <2>2. {j \in 1..n : Earlier(l, j, i)} = 1..(i - 1)
    BY <1>1, <2>1
  <2>3. i - 1 \in Nat
    BY <1>1
  <2> QED
    BY <2>2, <2>3, UptoSize
<1>4. ASSUME NEW k \in 1..n
      PROVE  (CHOOSE i \in 1..n : Cardinality({j \in 1..n : Earlier(l, j, i)}) = k - 1) = k
  <2> DEFINE m == CHOOSE i \in 1..n : Cardinality({j \in 1..n : Earlier(l, j, i)}) = k - 1
  <2>1. m \in 1..n /\ Cardinality({j \in 1..n : Earlier(l, j, m)}) = k - 1
    BY <1>3
  <2> HIDE DEF m
  <2>2. Cardinality({j \in 1..n : Earlier(l, j, m)}) = m - 1
    BY <1>3, <2>1
  <2>3. m = k
    BY <1>1, <2>1, <2>2
  <2> QED
    BY <2>3 DEF m
<1>5. Ordered(l, 1..n) = [k \in 1..n |-> l[k]]
  <2>1. Ordered(l, 1..n) = [k \in 1..n |-> l[CHOOSE i \in 1..n : Cardinality({j \in 1..n : Earlier(l, j, i)}) = k - 1]]
    BY <1>2 DEF Ordered
  <2> QED
    BY <1>4, <2>1
<1>6. l = [k \in 1..n |-> l[k]]
  BY <1>1
<1> QED
  BY <1>1, <1>5, <1>6

\* Clean erases what is marked; a sorted list it leaves as it is.
LEMMA CleanIs ==
    ASSUME NEW l \in Seq(Line)
    PROVE  /\ Clean(l) \in Seq(Valid) /\ Len(Clean(l)) <= Len(l)
           /\ \A k \in DOMAIN Clean(l) : \E i \in DOMAIN l : l[i].tag # 0 /\ Clean(l)[k] = l[i]
           /\ \A i \in DOMAIN l : l[i].tag # 0 => \E k \in DOMAIN Clean(l) : Clean(l)[k] = l[i]
           /\ (\A i, j \in DOMAIN l : l[i].tag # 0 /\ l[i].tag = l[j].tag => i = j) => Strict(Clean(l))
<1> DEFINE S == {i \in DOMAIN l : l[i].tag # 0}
<1>1. /\ S \in SUBSET (1..Len(l)) /\ DOMAIN l = 1..Len(l) /\ \A i \in S : l[i] \in Valid
  BY LinesAre, ValidAre
<1>2. l \in Seq(Row)
  <2>1. \A i \in 1..Len(l) : l[i] \in Row
    BY LinesAre, ValidAre
  <2>2. Len(l) \in Nat /\ l = [i \in 1..Len(l) |-> l[i]]
    BY LinesAre
  <2> QED
    BY <2>1, <2>2, SeqDef
<1>3. Clean(l) = Ordered(l, S)
  BY DEF Clean
<1>5. /\ \A i \in S : i \in DOMAIN l /\ l[i].tag # 0
      /\ \A i \in DOMAIN l : l[i].tag # 0 => i \in S
  OBVIOUS
<1>6. (\A i, j \in DOMAIN l : l[i].tag # 0 /\ l[i].tag = l[j].tag => i = j) => \A i, j \in S : l[i].tag = l[j].tag => i = j
  BY <1>5
<1> HIDE DEF S
<1>7. /\ Ordered(l, S) \in Seq(Valid) /\ Len(Ordered(l, S)) <= Len(l)
      /\ \A k \in DOMAIN Ordered(l, S) : \E i \in S : Ordered(l, S)[k] = l[i]
      /\ \A i \in S : \E k \in DOMAIN Ordered(l, S) : Ordered(l, S)[k] = l[i]
      /\ (\A i, j \in S : l[i].tag = l[j].tag => i = j) => Strict(Ordered(l, S))
  BY <1>1, <1>2, OrderedIs
<1> QED
  BY <1>3, <1>5, <1>6, <1>7

\* A list that is sorted and has no marks stays as it is.
LEMMA CleanSame ==
    ASSUME NEW l \in Seq(Valid), Strict(l)
    PROVE  Clean(l) = l
<1>1. {i \in DOMAIN l : l[i].tag # 0} = DOMAIN l
  BY DEF Strict
<1> QED
  BY <1>1, OrderedSame DEF Clean

\* A list that is replaced has the entries that say something.
LEMMA RenewedIs ==
    ASSUME NEW u \in Seq(Entry)
    PROVE  /\ Renewed(u) \in Seq(Valid) /\ Len(Renewed(u)) <= Len(u)
           /\ \A k \in DOMAIN Renewed(u) : \E i \in DOMAIN u : u[i].info # Removed /\ Renewed(u)[k] = u[i]
           /\ \A i \in DOMAIN u : u[i].info # Removed => \E k \in DOMAIN Renewed(u) : Renewed(u)[k] = u[i]
           /\ (\A i, j \in DOMAIN u : u[i].tag = u[j].tag => i = j) => Strict(Renewed(u))
<1> DEFINE S == {i \in DOMAIN u : u[i].info # Removed}
<1>1. \A i \in 1..Len(u) : u[i] \in Entry
  OBVIOUS
<1>2. /\ S \in SUBSET (1..Len(u)) /\ DOMAIN u = 1..Len(u) /\ \A i \in S : u[i] \in Valid
  BY <1>1, ValidAre
<1>3. u \in Seq(Row)
  <2>1. \A i \in 1..Len(u) : u[i] \in Row
    BY <1>1, ValidAre
  <2>2. Len(u) \in Nat /\ u = [i \in 1..Len(u) |-> u[i]]
    OBVIOUS
  <2> QED
    BY <2>1, <2>2, SeqDef
<1>4. Renewed(u) = Ordered(u, S)
  BY DEF Renewed
<1>5. /\ \A i \in S : i \in DOMAIN u /\ u[i].info # Removed
      /\ \A i \in DOMAIN u : u[i].info # Removed => i \in S
  OBVIOUS
<1>6. (\A i, j \in DOMAIN u : u[i].tag = u[j].tag => i = j) => \A i, j \in S : u[i].tag = u[j].tag => i = j
  BY <1>5
<1> HIDE DEF S
<1>7. /\ Ordered(u, S) \in Seq(Valid) /\ Len(Ordered(u, S)) <= Len(u)
      /\ \A k \in DOMAIN Ordered(u, S) : \E i \in S : Ordered(u, S)[k] = u[i]
      /\ \A i \in S : \E k \in DOMAIN Ordered(u, S) : Ordered(u, S)[k] = u[i]
      /\ (\A i, j \in S : u[i].tag = u[j].tag => i = j) => Strict(Ordered(u, S))
  BY <1>2, <1>3, OrderedIs
<1> QED
  BY <1>4, <1>5, <1>6, <1>7

\* The state of the first pass.
Scanning == [list : Seq(Line), index : Seq(Nat), free : Seq(Nat), length : Int]
ScanBase(l) == [list |-> l, index |-> <<>>, free |-> <<>>, length |-> Len(l)]

\* Marking an entry leaves a list of the same length.
LEMMA MarkedIs ==
    ASSUME NEW l \in Seq(Line), NEW i \in 1..Len(l)
    PROVE  /\ [l EXCEPT ![i].tag = 0] \in Seq(Line) /\ Len([l EXCEPT ![i].tag = 0]) = Len(l)
           /\ [l EXCEPT ![i].tag = 0] = [l EXCEPT ![i] = [tag |-> 0, info |-> l[i].info]]
<1>1. l[i] \in Line
  OBVIOUS
<1>2. [l[i] EXCEPT !.tag = 0] = [tag |-> 0, info |-> l[i].info] /\ [tag |-> 0, info |-> l[i].info] \in Line
  BY <1>1 DEF Line
<1>3. [l EXCEPT ![i].tag = 0] = [l EXCEPT ![i] = [tag |-> 0, info |-> l[i].info]]
  BY <1>2
<1> QED
  BY <1>2, <1>3, ExceptSeq

\* One step of the first pass.
LEMMA LookIs ==
    ASSUME NEW s \in Scanning, NEW e \in Entry
    PROVE  LET i == Get(s.list, e.tag)
           IN  /\ Look(s, e) \in Scanning
               /\ i \in 0..Len(s.list)
               /\ Look(s, e).index = Append(s.index, i)
               /\ Len(Look(s, e).list) = Len(s.list)
               /\ i > 0 /\ e.info = Removed =>
                    /\ Look(s, e).list = [s.list EXCEPT ![i].tag = 0] /\ Look(s, e).free = Append(s.free, i)
                    /\ Look(s, e).length = s.length - 1
               /\ ~(i > 0 /\ e.info = Removed) =>
                    /\ Look(s, e).list = s.list /\ Look(s, e).free = s.free
                    /\ Look(s, e).length = s.length + (IF i = 0 /\ e.info # Removed THEN 1 ELSE 0)
<1> DEFINE i == Get(s.list, e.tag)
           f == Append(s.free, i)
           x == Append(s.index, i)
           m == [s.list EXCEPT ![i].tag = 0]
           more == IF i = 0 /\ e.info # Removed THEN 1 ELSE 0
<1>1. /\ s.list \in Seq(Line) /\ s.index \in Seq(Nat) /\ s.free \in Seq(Nat) /\ s.length \in Int /\ e.tag \in Tags
  BY ValidAre DEF Scanning
<1>2. i \in 0..Len(s.list) /\ i \in Nat
  BY <1>1, GetFinds
<1>3. x \in Seq(Nat) /\ f \in Seq(Nat)
  BY <1>1, <1>2
<1>4. i > 0 => m \in Seq(Line) /\ Len(m) = Len(s.list)
  <2>1. i > 0 => i \in 1..Len(s.list)
    BY <1>1, <1>2
  <2> QED
    BY <1>1, <2>1, MarkedIs
<1>5. CASE i > 0 /\ e.info = Removed
  <2>1. Look(s, e) = [list |-> m, index |-> x, free |-> f, length |-> s.length + (-1)]
    BY <1>5, Zenon DEF Look
  <2> HIDE DEF m, x, f
  <2>2. s.length + (-1) = s.length - 1 /\ s.length - 1 \in Int
    BY <1>1
  <2>3. Look(s, e) \in Scanning
    BY <1>3, <1>4, <1>5, <2>1, <2>2 DEF Scanning
  <2> QED
    BY <1>2, <1>4, <1>5, <2>1, <2>2, <2>3 DEF m, x, f
<1>6. CASE ~(i > 0 /\ e.info = Removed)
  <2>1. Look(s, e) = [list |-> s.list, index |-> x, free |-> s.free, length |-> s.length + more]
    BY <1>6, Zenon DEF Look
  <2>2. more \in Int /\ s.length + more \in Int
    BY <1>1
  <2> HIDE DEF m, x, f, more
  <2>3. Look(s, e) \in Scanning
    BY <1>1, <1>3, <2>1, <2>2 DEF Scanning
  <2> QED
    BY <1>2, <1>6, <2>1, <2>3 DEF x, more
<1> QED
  BY <1>5, <1>6

\* The first pass takes one entry after the other.
LEMMA ScanRuns ==
    ASSUME NEW l \in Seq(Line), NEW update \in Seq(Entry)
    PROVE  \E g : /\ g[0] = ScanBase(l) /\ \A k \in 0..Len(update) : g[k] \in Scanning
                  /\ \A k \in 1..Len(update) : g[k] = Look(g[k - 1], update[k])
                  /\ Scan(l, update) = g[Len(update)]
<1> DEFINE n == Len(update)
           T == Scanning
           base == ScanBase(l)
           next == [p \in T \X (1..n) |-> Look(p[1], update[p[2]])]
           Iter(C) == C = [u \in SUBSET DOMAIN update |->
                             IF u = {} THEN base ELSE Look(C[u \ {Max(u)}], update[Max(u)])]
<1>1. n \in Nat /\ DOMAIN update = 1..n /\ \A i \in 1..n : update[i] \in Entry
  OBVIOUS
<1>2. base \in T
  BY DEF ScanBase, Scanning
<1>3. next \in [T \X (1..n) -> T]
  <2>1. ASSUME NEW p \in T \X (1..n) PROVE Look(p[1], update[p[2]]) \in T
    <3>1. p[1] \in T /\ p[2] \in 1..n /\ update[p[2]] \in Entry
      BY <1>1
    <3> QED
      BY <3>1, LookIs
  <2> QED
    BY <2>1
<1>4. \E C : Iter(C)
  <2>1. PICK F \in [SUBSET (1..n) -> T] : Iterates(F, n, base, next)
    BY <1>1, <1>2, <1>3, FoldExists, Zenon
  <2>2. ASSUME NEW u \in SUBSET (1..n), u # {}
        PROVE  next[<<F[u \ {Max(u)}], Max(u)>>] = Look(F[u \ {Max(u)}], update[Max(u)])
    <3>1. Max(u) \in 1..n
      BY <1>1, <2>2, MaxIn
    <3>2. <<F[u \ {Max(u)}], Max(u)>> \in T \X (1..n)
      BY <3>1
    <3> HIDE DEF T, n
    <3> QED
      BY <3>2
  <2> HIDE DEF next, T, base, n
  <2>3. Iter(F)
    BY <1>1, <2>1, <2>2 DEF Iterates
  <2> QED
    BY <2>3
<1>5. PICK C : Iter(C) /\ Scan(l, update) = C[DOMAIN update]
  BY <1>4, Zenon DEF Scan, FoldLeft, MapThenFoldSet, ScanBase
<1>6. C[{}] = base
  <2> HIDE DEF base, n
  <2> QED
    BY <1>5
<1>7. ASSUME NEW k \in 1..n
      PROVE  C[1..k] = Look(C[1..(k - 1)], update[k])
  <2>1. 1..k \in SUBSET DOMAIN update /\ 1..k # {} /\ Max(1..k) = k /\ (1..k) \ {Max(1..k)} = 1..(k - 1)
    BY <1>1, Places
  <2> HIDE DEF base, n
  <2>2. C[1..k] = Look(C[(1..k) \ {Max(1..k)}], update[Max(1..k)])
    BY <1>5, <2>1
  <2> QED
    BY <2>1, <2>2
<1>8. \A k \in 1..n : C[1..(k - 1)] \in T => C[1..k] = next[<<C[1..(k - 1)], k>>]
  <2> HIDE DEF base, n, T
  <2> QED
    BY <1>1, <1>7
<1>9. Follows(C, n, T, base, next)
  <2> HIDE DEF T, base, next, n
  <2> QED
    BY <1>1, <1>2, <1>3, <1>6, <1>8 DEF Follows
<1>10. PICK g : Runs(g, n, T, base, next) /\ g[n] = C[1..n]
  <2> HIDE DEF T, base, next, n
  <2> QED
    BY <1>9, FoldRuns
<1>11. Scan(l, update) = g[n]
  BY <1>1, <1>5, <1>10
<1>12. /\ g[0] = base /\ \A k \in 0..n : g[k] \in T
       /\ \A k \in 1..n : g[k] = next[<<g[k - 1], k>>] /\ g[k - 1] \in T
  <2> HIDE DEF T, base, next, n
  <2> QED
    BY <1>1, <1>10 DEF Runs
<1>13. ASSUME NEW k \in 1..n PROVE g[k] = Look(g[k - 1], update[k])
  <2>1. <<g[k - 1], k>> \in T \X (1..n)
    BY <1>12
  <2> QED
    BY <1>12, <2>1
<1> QED
  BY <1>11, <1>12, <1>13, Zenon DEF n, T, base

\* The entries of an update that are not in the list and say something.
NewAt(index, update) == {j \in DOMAIN index : index[j] = 0 /\ update[j].info # Removed}

\* One more place that was looked up.
LEMMA NewAtGrows ==
    ASSUME NEW index \in Seq(Nat), NEW update, NEW i \in Nat
    PROVE  LET x == Append(index, i)
               k == Len(index) + 1
           IN  /\ IsFiniteSet(NewAt(index, update)) /\ Cardinality(NewAt(index, update)) \in Nat
               /\ Cardinality(NewAt(x, update)) =
                    Cardinality(NewAt(index, update)) + (IF i = 0 /\ update[k].info # Removed THEN 1 ELSE 0)
<1> DEFINE x == Append(index, i)
           n == Len(index)
           k == n + 1
           A == NewAt(index, update)
<1>1. n \in Nat /\ DOMAIN index = 1..n /\ DOMAIN x = 1..k /\ x[k] = i /\ \A j \in 1..n : x[j] = index[j]
  OBVIOUS
<1>2. A \in SUBSET (1..n) /\ IsFiniteSet(A) /\ Cardinality(A) \in Nat
  <2>1. A \in SUBSET (1..n)
    BY <1>1 DEF NewAt
  <2>2. IsFiniteSet(1..n)
    BY <1>1, UptoSize
  <2> HIDE DEF A
  <2> QED
    BY <2>1, <2>2, FS_Subset, FS_CardinalityType
<1>3. k \notin A
  BY <1>1, <1>2
<1> HIDE DEF x
<1>4. CASE i = 0 /\ update[k].info # Removed
  <2>1. NewAt(x, update) = A \cup {k}
    BY <1>1, <1>4 DEF NewAt
  <2> QED
    BY <1>2, <1>3, <1>4, <2>1, FS_AddElement DEF x
<1>5. CASE ~(i = 0 /\ update[k].info # Removed)
  <2>1. NewAt(x, update) = A
    BY <1>1, <1>5 DEF NewAt
  <2> QED
    BY <1>2, <1>5, <2>1 DEF x
<1> QED
  BY <1>4, <1>5

\* What the first pass leaves, whatever the update: the places are places of the list, and the
\* length counts who goes and who comes.
Scanned(s, l, update, k) ==
    /\ s \in Scanning /\ Len(s.list) = Len(l) /\ Len(s.index) = k
    /\ \A j \in 1..k : s.index[j] \in 0..Len(l)
    /\ \A j \in DOMAIN s.free : s.free[j] \in 1..Len(l)
    /\ s.length = Len(l) - Len(s.free) + Cardinality(NewAt(s.index, update))

\* What the first pass leaves after one more entry ...
LEMMA LookScanned ==
    ASSUME NEW l \in Seq(Line), NEW update \in Seq(Entry), NEW k \in 1..Len(update),
           NEW s, Scanned(s, l, update, k - 1)
    PROVE  Scanned(Look(s, update[k]), l, update, k)
<1> DEFINE e == update[k]
           i == Get(s.list, e.tag)
           t == Look(s, e)
           N == Cardinality(NewAt(s.index, update))
<1>1. /\ s \in Scanning /\ e \in Entry /\ s.index \in Seq(Nat) /\ s.free \in Seq(Nat) /\ s.length \in Int
      /\ s.list \in Seq(Line) /\ Len(s.list) = Len(l) /\ Len(s.index) = k - 1 /\ Len(l) \in Nat /\ k \in Nat
  BY DEF Scanned, Scanning
<1>2. /\ t \in Scanning /\ i \in 0..Len(l) /\ i \in Nat /\ t.index = Append(s.index, i) /\ Len(t.list) = Len(l)
      /\ i > 0 /\ e.info = Removed => t.free = Append(s.free, i) /\ t.length = s.length - 1
      /\ ~(i > 0 /\ e.info = Removed) =>
            t.free = s.free /\ t.length = s.length + (IF i = 0 /\ e.info # Removed THEN 1 ELSE 0)
  <2>1. s \in Scanning /\ e \in Entry
    BY <1>1
  <2> HIDE DEF e
  <2>2. /\ t \in Scanning /\ i \in 0..Len(s.list) /\ t.index = Append(s.index, i) /\ Len(t.list) = Len(s.list)
        /\ i > 0 /\ e.info = Removed => t.free = Append(s.free, i) /\ t.length = s.length - 1
        /\ ~(i > 0 /\ e.info = Removed) =>
              t.free = s.free /\ t.length = s.length + (IF i = 0 /\ e.info # Removed THEN 1 ELSE 0)
    BY <2>1, LookIs
  <2> HIDE DEF i, t
  <2> QED
    BY <1>1, <2>2
<1>3. /\ N \in Nat
      /\ Cardinality(NewAt(t.index, update)) = N + (IF i = 0 /\ e.info # Removed THEN 1 ELSE 0)
  BY <1>1, <1>2, NewAtGrows
<1> HIDE DEF i, t, N
<1>4. Len(t.index) = k /\ \A j \in 1..k : t.index[j] \in 0..Len(l)
  <2>1. \A j \in 1..(k - 1) : t.index[j] = s.index[j]
    BY <1>1, <1>2
  <2>2. t.index[k] = i /\ Len(t.index) = k
    BY <1>1, <1>2
  <2> QED
    BY <1>1, <1>2, <2>1, <2>2 DEF Scanned
<1>5. s.length = Len(l) - Len(s.free) + N /\ \A j \in DOMAIN s.free : s.free[j] \in 1..Len(l)
  BY DEF Scanned, N
<1>6. CASE i > 0 /\ e.info = Removed
  <2>1. t.free = Append(s.free, i) /\ Len(t.free) = Len(s.free) + 1 /\ t.length = s.length - 1
    BY <1>1, <1>2, <1>6
  <2>2. \A j \in DOMAIN t.free : t.free[j] \in 1..Len(l)
    <3>1. i \in 1..Len(l)
      BY <1>1, <1>2, <1>6
    <3>2. \A j \in DOMAIN t.free : (j \in DOMAIN s.free /\ t.free[j] = s.free[j]) \/ t.free[j] = i
      BY <1>1, <1>2, <2>1
    <3> QED
      BY <1>5, <3>1, <3>2
  <2>3. t.length = Len(l) - Len(t.free) + Cardinality(NewAt(t.index, update))
    BY <1>1, <1>3, <1>5, <1>6, <2>1
  <2> QED
    BY <1>2, <1>4, <2>2, <2>3 DEF Scanned, t
<1>7. CASE ~(i > 0 /\ e.info = Removed)
  <2>1. t.length = Len(l) - Len(t.free) + Cardinality(NewAt(t.index, update))
    <3> DEFINE more == IF i = 0 /\ e.info # Removed THEN 1 ELSE 0
               M == Cardinality(NewAt(t.index, update))
    <3>1. more \in Int /\ t.length = s.length + more /\ M = N + more /\ t.free = s.free
      BY <1>2, <1>3, <1>7
    <3> HIDE DEF more, M
    <3>2. t.length = Len(l) - Len(t.free) + M
      BY <1>1, <1>3, <1>5, <3>1
    <3> QED
      BY <3>2 DEF M
  <2>2. t.free = s.free
    BY <1>2, <1>7
  <2> QED
    BY <1>2, <1>4, <1>5, <2>1, <2>2 DEF Scanned, t
<1> QED
  BY <1>6, <1>7

\* ... and at the end.
LEMMA ScanIs ==
    ASSUME NEW l \in Seq(Line), NEW update \in Seq(Entry)
    PROVE  Scanned(Scan(l, update), l, update, Len(update))
<1> DEFINE n == Len(update)
<1>1. PICK g : /\ g[0] = ScanBase(l) /\ \A k \in 0..n : g[k] \in Scanning
               /\ \A k \in 1..n : g[k] = Look(g[k - 1], update[k])
               /\ Scan(l, update) = g[n]
  BY ScanRuns
<1> DEFINE S == {k \in 0..n : Scanned(g[k], l, update, k)}
<1>2. n \in Nat /\ Len(l) \in Nat
  OBVIOUS
<1>3. 0 \in S
  <2>1. NewAt(<<>>, update) = {}
    BY DEF NewAt
  <2>2. Cardinality(NewAt(<<>>, update)) = 0
    BY <2>1, FS_EmptySet
  <2>3. g[0] \in Scanning /\ g[0].list = l /\ g[0].index = <<>> /\ g[0].free = <<>> /\ g[0].length = Len(l)
    BY <1>1, <1>2 DEF ScanBase
  <2>4. Scanned(g[0], l, update, 0)
    BY <1>2, <2>2, <2>3 DEF Scanned
  <2> QED
    BY <1>2, <2>4
<1>4. \A k \in 1..n : k - 1 \in S => k \in S
  BY <1>1, <1>2, LookScanned
<1> HIDE DEF S, n
<1>5. \A k \in 0..n : k \in S
  BY <1>2, <1>3, <1>4, Climb, Zenon
<1>6. n \in 0..n
  BY <1>2
<1> QED
  BY <1>1, <1>5, <1>6 DEF S, n

-----------------------------------------------------------------------------
(* The second pass *)

\* The state of the second pass over a list that had n entries.
Amending(n) ==
    {s \in [list : Seq(Line), free : Seq(Nat)] :
        n <= Len(s.list) /\ \A j \in DOMAIN s.free : s.free[j] \in 1..n}

\* Where an entry goes.
PlaceOf(s, found) ==
    IF found > 0 THEN found ELSE IF s.free # <<>> THEN Last(s.free) ELSE Len(s.list) + 1

\* One step of the second pass: an entry that says something stands at its place, the rest is as
\* before.
LEMMA PutIs ==
    ASSUME NEW n \in Nat, NEW s \in Amending(n), NEW e \in Entry, NEW found \in 0..n
    PROVE  LET i == PlaceOf(s, found)
               t == Put(s, e, found)
           IN  /\ t \in Amending(n)
               /\ e.info = Removed => t = s
               /\ e.info # Removed =>
                    /\ i \in 1..Len(t.list) /\ t.list[i] = e /\ \A j \in 1..Len(s.list) : j # i => t.list[j] = s.list[j]
                    /\ found > 0 => i = found /\ t.free = s.free /\ Len(t.list) = Len(s.list)
                    /\ found = 0 /\ s.free = <<>> =>
                        i = Len(s.list) + 1 /\ t.free = s.free /\ Len(t.list) = Len(s.list) + 1
                    /\ found = 0 /\ s.free # <<>> =>
                        /\ i = Last(s.free) /\ i \in 1..n /\ Len(t.list) = Len(s.list)
                        /\ t.free = Front(s.free) /\ Len(t.free) = Len(s.free) - 1
<1> DEFINE l == s.list
           i == PlaceOf(s, found)
           t == Put(s, e, found)
<1>1. /\ s = [list |-> l, free |-> s.free] /\ l \in Seq(Line) /\ Len(l) \in Nat /\ n <= Len(l)
      /\ s.free \in Seq(Nat) /\ \A j \in DOMAIN s.free : s.free[j] \in 1..n
  BY DEF Amending
<1>2. CASE e.info = Removed
  BY <1>2 DEF Put
<1>3. CASE e.info # Removed
  <2>0. e \in Line
    BY <1>3, ValidAre
  <2>1. CASE found > 0
    <3> DEFINE m == [l EXCEPT ![found] = e]
    <3>1. found \in 1..Len(l)
      BY <1>1, <2>1
    <3>2. t = [list |-> m, free |-> s.free] /\ i = found
      <4>1. ~(found > Len(l)) /\ found # 0
        BY <1>1, <3>1
      <4> QED
        BY <1>3, <2>1, <4>1 DEF Put, PlaceOf
    <3>3. m \in Seq(Line) /\ Len(m) = Len(l) /\ m[found] = e /\ \A j \in 1..Len(l) : j # found => m[j] = l[j]
      BY <1>1, <2>0, <3>1, ExceptSeq
    <3> HIDE DEF m, l, t, i
    <3>4. t \in Amending(n) /\ t.list = m /\ t.free = s.free
      BY <1>1, <3>2, <3>3 DEF Amending
    <3>5. i \in 1..Len(t.list)
      BY <3>1, <3>2, <3>3, <3>4
    <3> QED
      BY <1>3, <2>1, <3>2, <3>3, <3>4, <3>5 DEF t, i, l
  <2>2. CASE found = 0 /\ s.free = <<>>
    <3> DEFINE m == Append(l, e)
    <3>1. t = [list |-> m, free |-> s.free] /\ i = Len(l) + 1
      <4>1. Len(l) + 1 > Len(l)
        BY <1>1
      <4> QED
        BY <1>3, <2>2, <4>1 DEF Put, PlaceOf
    <3>2. m \in Seq(Line) /\ Len(m) = Len(l) + 1 /\ m[Len(l) + 1] = e /\ \A j \in 1..Len(l) : m[j] = l[j]
      BY <1>1, <2>0
    <3> HIDE DEF m, l, t, i
    <3>3. t \in Amending(n) /\ t.list = m /\ t.free = s.free
      BY <1>1, <3>1, <3>2 DEF Amending
    <3>4. i \in 1..Len(t.list)
      BY <1>1, <3>1, <3>2, <3>3
    <3> QED
      BY <1>3, <2>2, <3>1, <3>2, <3>3, <3>4 DEF t, i, l
  <2>3. CASE found = 0 /\ s.free # <<>>
    <3> DEFINE p == Last(s.free)
               m == [l EXCEPT ![p] = e]
               f == Front(s.free)
    <3>1. p \in 1..n /\ p \in 1..Len(l)
      <4>1. Len(s.free) \in DOMAIN s.free
        BY <1>1, <2>3
      <4>2. p = s.free[Len(s.free)]
        BY DEF Last
      <4>3. p \in 1..n
        BY <1>1, <4>1, <4>2
      <4> QED
        BY <1>1, <4>3
    <3>2. t = [list |-> m, free |-> f] /\ i = p
      <4>1. ~(p > Len(l))
        BY <1>1, <3>1
      <4> QED
        BY <1>3, <2>3, <4>1 DEF Put, PlaceOf
    <3>3. m \in Seq(Line) /\ Len(m) = Len(l) /\ m[p] = e /\ \A j \in 1..Len(l) : j # p => m[j] = l[j]
      BY <1>1, <2>0, <3>1, ExceptSeq
    <3>4. f \in Seq(Nat) /\ Len(f) = Len(s.free) - 1 /\ \A j \in DOMAIN f : f[j] \in 1..n
      <4>1. Len(s.free) \in Nat /\ Len(s.free) >= 1
        BY <1>1, <2>3
      <4>2. f = SubSeq(s.free, 1, Len(s.free) - 1)
        BY DEF Front
      <4> DEFINE k == Len(s.free) - 1
      <4>3. k \in Nat /\ k \in Int /\ 1 \in Int /\ \A j \in 1..k : j \in 1..Len(s.free) /\ s.free[j] \in Nat
        BY <1>1, <4>1
      <4> HIDE DEF k
      <4>4. /\ SubSeq(s.free, 1, k) \in Seq(Nat) /\ Len(SubSeq(s.free, 1, k)) = IF 1 <= k THEN k - 1 + 1 ELSE 0
            /\ \A j \in 1..(k - 1 + 1) : SubSeq(s.free, 1, k)[j] = s.free[1 + j - 1]
        BY <4>3, SubSeqProperties
      <4>5. f = SubSeq(s.free, 1, k)
        BY <4>2 DEF k
      <4> HIDE DEF f
      <4>6. f \in Seq(Nat) /\ Len(f) = k /\ \A j \in 1..k : f[j] = s.free[j]
        BY <4>3, <4>4, <4>5
      <4>7. DOMAIN f = 1..k
        BY <4>6
      <4>8. \A j \in DOMAIN f : f[j] \in 1..n
        BY <1>1, <4>3, <4>6, <4>7
      <4> QED
        BY <4>6, <4>8 DEF k
    <3> HIDE DEF m, l, t, i, f, p
    <3>5. t \in Amending(n) /\ t.list = m /\ t.free = f
      BY <1>1, <3>2, <3>3, <3>4 DEF Amending
    <3>6. i \in 1..Len(t.list)
      BY <3>1, <3>2, <3>3, <3>5
    <3> QED
      BY <1>3, <2>3, <3>1, <3>2, <3>3, <3>4, <3>5, <3>6 DEF t, i, l, f, p
  <2> QED
    BY <2>1, <2>2, <2>3
<1> QED
  BY <1>2, <1>3

AmendBase(scan) == [list |-> scan.list, free |-> scan.free]

\* The second pass takes one entry after the other.
LEMMA AmendRuns ==
    ASSUME NEW n \in Nat, NEW update \in Seq(Entry), NEW scan, AmendBase(scan) \in Amending(n),
           \A k \in 1..Len(update) : scan.index[k] \in 0..n
    PROVE  \E g : /\ g[0] = AmendBase(scan)
                  /\ \A k \in 0..Len(update) : g[k] \in Amending(n)
                  /\ \A k \in 1..Len(update) : g[k] = Put(g[k - 1], update[k], scan.index[k])
                  /\ Amend(scan, update) = g[Len(update)].list
<1> DEFINE z == Len(update)
           T == Amending(n)
           base == AmendBase(scan)
           elems == [k \in DOMAIN update |-> k]
           next == [p \in T \X (1..z) |-> Put(p[1], update[p[2]], scan.index[p[2]])]
           Iter(C) == C = [u \in SUBSET DOMAIN elems |->
                             IF u = {} THEN base
                             ELSE Put(C[u \ {Max(u)}], update[elems[Max(u)]], scan.index[elems[Max(u)]])]
<1>1. /\ z \in Nat /\ DOMAIN update = 1..z /\ DOMAIN elems = 1..z
      /\ \A i \in 1..z : update[i] \in Entry /\ elems[i] = i
  OBVIOUS
<1>2. base \in T
  OBVIOUS
<1>3. next \in [T \X (1..z) -> T]
  <2>1. ASSUME NEW p \in T \X (1..z) PROVE Put(p[1], update[p[2]], scan.index[p[2]]) \in T
    <3>1. p[1] \in T /\ p[2] \in 1..z /\ update[p[2]] \in Entry /\ scan.index[p[2]] \in 0..n
      BY <1>1
    <3> QED
      BY <3>1, PutIs
  <2> QED
    BY <2>1
<1>4. \E C : Iter(C)
  <2>1. PICK F \in [SUBSET (1..z) -> T] : Iterates(F, z, base, next)
    BY <1>1, <1>2, <1>3, FoldExists, Zenon
  <2>2. ASSUME NEW u \in SUBSET (1..z), u # {}
        PROVE  next[<<F[u \ {Max(u)}], Max(u)>>] = Put(F[u \ {Max(u)}], update[elems[Max(u)]], scan.index[elems[Max(u)]])
    <3>1. Max(u) \in 1..z /\ elems[Max(u)] = Max(u)
      BY <1>1, <2>2, MaxIn
    <3>2. <<F[u \ {Max(u)}], Max(u)>> \in T \X (1..z)
      BY <3>1
    <3> HIDE DEF T, z, elems
    <3>3. next[<<F[u \ {Max(u)}], Max(u)>>] = Put(F[u \ {Max(u)}], update[Max(u)], scan.index[Max(u)])
      BY <3>2
    <3> QED
      BY <3>1, <3>3
  <2> HIDE DEF next, T, base, z, elems
  <2>3. Iter(F)
    BY <1>1, <2>1, <2>2 DEF Iterates
  <2> QED
    BY <2>3
<1>5. PICK C : Iter(C) /\ Amend(scan, update) = C[DOMAIN elems].list
  BY <1>4, Zenon DEF Amend, AmendBase, FoldLeft, MapThenFoldSet
<1>6. C[{}] = base
  <2> HIDE DEF base, z, elems
  <2> QED
    BY <1>5
<1>7. ASSUME NEW k \in 1..z
      PROVE  C[1..k] = Put(C[1..(k - 1)], update[k], scan.index[k])
  <2>1. 1..k \in SUBSET DOMAIN elems /\ 1..k # {} /\ Max(1..k) = k /\ (1..k) \ {Max(1..k)} = 1..(k - 1)
    BY <1>1, Places
  <2>2. elems[k] = k
    BY <1>1
  <2> HIDE DEF base, z, elems
  <2>3. C[1..k] = Put(C[(1..k) \ {Max(1..k)}], update[elems[Max(1..k)]], scan.index[elems[Max(1..k)]])
    BY <1>5, <2>1
  <2> QED
    BY <2>1, <2>2, <2>3
<1>8. \A k \in 1..z : C[1..(k - 1)] \in T => C[1..k] = next[<<C[1..(k - 1)], k>>]
  <2> HIDE DEF base, z, T, elems
  <2> QED
    BY <1>1, <1>7
<1>9. Follows(C, z, T, base, next)
  <2> HIDE DEF T, base, next, z, elems
  <2> QED
    BY <1>1, <1>2, <1>3, <1>6, <1>8 DEF Follows
<1>10. PICK g : Runs(g, z, T, base, next) /\ g[z] = C[1..z]
  <2> HIDE DEF T, base, next, z, elems
  <2> QED
    BY <1>9, FoldRuns
<1>11. Amend(scan, update) = g[z].list
  <2> HIDE DEF T, base, next, z, elems
  <2> QED
    BY <1>1, <1>5, <1>10
<1>12. /\ g[0] = base /\ \A k \in 0..z : g[k] \in T
       /\ \A k \in 1..z : g[k] = next[<<g[k - 1], k>>] /\ g[k - 1] \in T
  <2> HIDE DEF T, base, next, z, elems
  <2> QED
    BY <1>1, <1>10 DEF Runs
<1>13. ASSUME NEW k \in 1..z PROVE g[k] = Put(g[k - 1], update[k], scan.index[k])
  <2>1. <<g[k - 1], k>> \in T \X (1..z)
    BY <1>12
  <2> QED
    BY <1>12, <2>1
<1> QED
  BY <1>11, <1>12, <1>13, Zenon DEF z, T, base

\* Those of them up to k.
NewUpto(index, update, k) == {j \in 1..k : index[j] = 0 /\ update[j].info # Removed}

\* One more entry is one more new one, or none.
LEMMA NewUptoGrows ==
    ASSUME NEW index, NEW update, NEW k \in Nat \ {0}
    PROVE  /\ Cardinality(NewUpto(index, update, k - 1)) \in Nat
           /\ Cardinality(NewUpto(index, update, k)) =
                Cardinality(NewUpto(index, update, k - 1)) + (IF index[k] = 0 /\ update[k].info # Removed THEN 1 ELSE 0)
<1> DEFINE A == NewUpto(index, update, k - 1)
<1>1. A \in SUBSET (1..(k - 1)) /\ k \notin A
  BY DEF NewUpto
<1>2. IsFiniteSet(A) /\ Cardinality(A) \in Nat
  <2>1. IsFiniteSet(1..(k - 1))
    <3>1. k - 1 \in Nat
      OBVIOUS
    <3> QED
      BY <3>1, UptoSize
  <2> HIDE DEF A
  <2> QED
    BY <1>1, <2>1, FS_Subset, FS_CardinalityType
<1>3. CASE index[k] = 0 /\ update[k].info # Removed
  <2>1. NewUpto(index, update, k) = A \cup {k}
    BY <1>3 DEF NewUpto
  <2> QED
    BY <1>1, <1>2, <1>3, <2>1, FS_AddElement
<1>4. CASE ~(index[k] = 0 /\ update[k].info # Removed)
  <2>1. NewUpto(index, update, k) = A
    BY <1>4 DEF NewUpto
  <2> QED
    BY <1>2, <1>4, <2>1
<1> QED
  BY <1>3, <1>4

\* The list has grown by those who came and found no place free.
Grown(s, l, scan, update, k) ==
    /\ Len(s.list) = Len(s.free) + Len(l) - Len(scan.free) + Cardinality(NewUpto(scan.index, update, k))
    /\ s.free # <<>> => Len(s.list) = Len(l)

\* The types of the second pass.
LEMMA AmendingIs ==
    ASSUME NEW n \in Nat, NEW s \in Amending(n)
    PROVE  /\ s.list \in Seq(Line) /\ Len(s.list) \in Nat /\ s.free \in Seq(Nat) /\ Len(s.free) \in Nat
           /\ n <= Len(s.list) /\ \A j \in DOMAIN s.free : s.free[j] \in 1..n
BY DEF Amending

\* It has grown so after one more entry.
LEMMA PutGrows ==
    ASSUME NEW l \in Seq(Line), NEW update \in Seq(Entry), NEW k \in 1..Len(update), NEW scan,
           scan.index[k] \in 0..Len(l), Len(scan.free) \in Nat,
           NEW s \in Amending(Len(l)), Grown(s, l, scan, update, k - 1)
    PROVE  Grown(Put(s, update[k], scan.index[k]), l, scan, update, k)
<1> DEFINE e == update[k]
           found == scan.index[k]
           t == Put(s, e, found)
           a == Len(l) - Len(scan.free)
           c == Cardinality(NewUpto(scan.index, update, k - 1))
           d == Cardinality(NewUpto(scan.index, update, k))
           x == Len(s.list)
           y == Len(s.free)
<1>1. /\ k \in Nat \ {0} /\ e \in Entry /\ found \in 0..Len(l) /\ Len(l) \in Nat /\ a \in Int
      /\ x \in Nat /\ y \in Nat /\ s.free \in Seq(Nat)
  BY AmendingIs
<1>2. c \in Nat /\ d = c + (IF found = 0 /\ e.info # Removed THEN 1 ELSE 0)
  BY <1>1, NewUptoGrows
<1>3. x = y + a + c /\ (s.free # <<>> => x = Len(l))
  BY <1>1, <1>2 DEF Grown
<1> SUFFICES /\ Len(t.list) = Len(t.free) + a + d
             /\ t.free # <<>> => Len(t.list) = Len(l)
  <2>1. Len(t.free) \in Nat
    BY <1>1, PutIs, AmendingIs
  <2>2. d \in Nat
    BY <1>2
  <2> HIDE DEF d, t
  <2>3. Len(t.free) + a + d = Len(t.free) + Len(l) - Len(scan.free) + d
    BY <1>1, <2>1, <2>2
  <2> QED
    BY <2>3 DEF Grown, d, t
<1>4. CASE e.info = Removed
  <2>1. t = s
    BY <1>1, <1>4, PutIs
  <2> HIDE DEF c, d, a, t, e
  <2>2. d = c
    BY <1>2, <1>4
  <2> QED
    BY <1>3, <2>1, <2>2
<1>5. CASE e.info # Removed /\ found > 0
  <2>1. t.free = s.free /\ Len(t.list) = x
    BY <1>1, <1>5, PutIs
  <2>2. d = c
    BY <1>1, <1>2, <1>5
  <2> HIDE DEF c, d, a, t
  <2> QED
    BY <1>3, <2>1, <2>2
<1>6. CASE e.info # Removed /\ found = 0 /\ s.free = <<>>
  <2>1. t.free = s.free /\ Len(t.list) = x + 1
    BY <1>1, <1>6, PutIs
  <2>2. d = c + 1
    BY <1>2, <1>6
  <2> HIDE DEF c, d, a, t
  <2> QED
    BY <1>1, <1>2, <1>3, <1>6, <2>1, <2>2
<1>7. CASE e.info # Removed /\ found = 0 /\ s.free # <<>>
  <2>1. Len(t.free) = y - 1 /\ Len(t.list) = x
    BY <1>1, <1>7, PutIs
  <2>2. d = c + 1
    BY <1>2, <1>7
  <2>3. x = y + a + c /\ x = Len(l) /\ x \in Nat /\ y \in Nat /\ a \in Int /\ c \in Nat
    BY <1>1, <1>2, <1>3, <1>7
  <2> HIDE DEF c, d, a, t, x, y
  <2>4. Len(t.list) = Len(t.free) + a + d
    BY <2>1, <2>2, <2>3
  <2> QED
    BY <2>1, <2>3, <2>4
<1>8. found > 0 \/ found = 0
  BY <1>1
<1> QED
  BY <1>4, <1>5, <1>6, <1>7, <1>8

\* The first pass leaves what the second one takes.
LEMMA AmendStart ==
    ASSUME NEW l \in Seq(Line), NEW update \in Seq(Entry)
    PROVE  /\ AmendBase(Scan(l, update)) \in Amending(Len(l))
           /\ \A k \in 1..Len(update) : Scan(l, update).index[k] \in 0..Len(l)
<1> DEFINE s == Scan(l, update)
<1>1. Scanned(s, l, update, Len(update))
  BY ScanIs
<1> HIDE DEF s
<1>2. /\ s \in Scanning /\ Len(s.list) = Len(l) /\ \A j \in DOMAIN s.free : s.free[j] \in 1..Len(l)
      /\ \A k \in 1..Len(update) : s.index[k] \in 0..Len(l)
  BY <1>1 DEF Scanned
<1>3. s.list \in Seq(Line) /\ s.free \in Seq(Nat) /\ Len(l) \in Nat
  BY <1>2 DEF Scanning
<1>4. AmendBase(s) \in Amending(Len(l))
  BY <1>2, <1>3 DEF Amending, AmendBase
<1> QED
  BY <1>2, <1>4 DEF s

\* A differential update that was not refused leaves a list that is not too long.
LEMMA AmendFits ==
    ASSUME NEW l \in Seq(Line), NEW update \in Seq(Entry), Len(l) <= MaxList, ~Too(Scan(l, update).length)
    PROVE  Amend(Scan(l, update), update) \in Seq(Line) /\ Len(Amend(Scan(l, update), update)) <= MaxList
<1> DEFINE scan == Scan(l, update)
           n == Len(l)
           z == Len(update)
<1>1. /\ n \in Nat /\ z \in Nat /\ MaxList \in Nat
      /\ scan.index \in Seq(Nat) /\ Len(scan.index) = z /\ DOMAIN scan.index = 1..z /\ Len(scan.free) \in Nat
      /\ scan.length = n - Len(scan.free) + Cardinality(NewAt(scan.index, update))
  <2>1. Scanned(scan, l, update, z)
    BY ScanIs
  <2> HIDE DEF scan
  <2> QED
    BY <2>1, TagsAre DEF Scanned, Scanning
<1>2. PICK g : /\ g[0] = AmendBase(scan)
               /\ \A k \in 0..z : g[k] \in Amending(n)
               /\ \A k \in 1..z : g[k] = Put(g[k - 1], update[k], scan.index[k])
               /\ Amend(scan, update) = g[z].list
  <2>1. /\ AmendBase(scan) \in Amending(n)
        /\ \A k \in 1..z : scan.index[k] \in 0..n
    BY AmendStart
  <2>2. n \in Nat /\ update \in Seq(Entry)
    OBVIOUS
  <2> HIDE DEF scan, n
  <2> QED
    BY <2>1, <2>2, AmendRuns, Zenon
<1>3. \A k \in 1..z : scan.index[k] \in 0..n
  BY AmendStart
<1>4. Len(scan.list) = n
  BY ScanIs DEF Scanned
<1> HIDE DEF scan
<1> DEFINE S == {k \in 0..z : Grown(g[k], l, scan, update, k)}
<1>5. 0 \in S
  <2>1. NewUpto(scan.index, update, 0) = {}
    BY DEF NewUpto
  <2>2. Cardinality(NewUpto(scan.index, update, 0)) = 0
    BY <2>1, FS_EmptySet
  <2>3. Grown(g[0], l, scan, update, 0)
    BY <1>1, <1>2, <1>4, <2>2 DEF Grown, AmendBase
  <2> QED
    BY <1>1, <2>3
<1>6. ASSUME NEW k \in 1..z, k - 1 \in S PROVE k \in S
  <2>1. /\ g[k - 1] \in Amending(n) /\ Grown(g[k - 1], l, scan, update, k - 1)
        /\ g[k] = Put(g[k - 1], update[k], scan.index[k])
    BY <1>1, <1>2, <1>6
  <2>2. Grown(g[k], l, scan, update, k)
    BY <1>1, <1>3, <2>1, PutGrows
  <2> QED
    BY <1>1, <2>2
<1>7. Grown(g[z], l, scan, update, z)
  <2> HIDE DEF S, z
  <2>1. \A k \in 0..z : k \in S
    BY <1>1, <1>5, <1>6, Climb, Zenon
  <2>2. z \in 0..z
    BY <1>1
  <2> QED
    BY <2>1, <2>2 DEF S
<1>8. NewUpto(scan.index, update, z) = NewAt(scan.index, update)
  BY <1>1 DEF NewUpto, NewAt
<1>9. g[z] \in Amending(n) /\ g[z].list \in Seq(Line) /\ Len(g[z].list) \in Nat
  <2>1. g[z] \in Amending(n)
    BY <1>1, <1>2
  <2> QED
    BY <1>1, <2>1, AmendingIs
<1>10. scan.length <= MaxList
  <2>1. ~(scan.length > MaxList)
    BY DEF Too, scan
  <2>2. Cardinality(NewAt(scan.index, update)) \in Nat
    <3>1. IsFiniteSet(1..z) /\ NewAt(scan.index, update) \in SUBSET (1..z)
      BY <1>1, UptoSize DEF NewAt
    <3> QED
      BY <3>1, FS_Subset, FS_CardinalityType
  <2>3. scan.length \in Int
    BY <1>1, <2>2
  <2> QED
    BY <1>1, <2>1, <2>3
<1>11. Len(g[z].list) <= MaxList
  <2>1. CASE g[z].free # <<>>
    BY <1>7, <2>1 DEF Grown
  <2>2. CASE g[z].free = <<>>
    <3>1. Len(g[z].free) = 0
      BY <2>2
    <3> DEFINE c == Cardinality(NewAt(scan.index, update))
    <3>2. Len(g[z].list) = 0 + n - Len(scan.free) + c
      BY <1>7, <1>8, <3>1 DEF Grown
    <3>3. c \in Nat
      <4>1. IsFiniteSet(1..z) /\ NewAt(scan.index, update) \in SUBSET (1..z)
        BY <1>1, UptoSize DEF NewAt
      <4> QED
        BY <4>1, FS_Subset, FS_CardinalityType
    <3> HIDE DEF c
    <3>4. scan.length = n - Len(scan.free) + c
      BY <1>1 DEF c
    <3> HIDE DEF n, z
    <3>5. n \in Nat /\ Len(scan.free) \in Nat
      BY <1>1
    <3>6. Len(g[z].list) = scan.length
      BY <3>2, <3>3, <3>4, <3>5
    <3> QED
      BY <1>10, <3>6
  <2> QED
    BY <2>1, <2>2
<1> QED
  BY <1>2, <1>9, <1>11 DEF scan

-----------------------------------------------------------------------------
(* Plain updates *)

\* The place that a plain update marks, or 0.
Culled(l, update) ==
    IF update # <<>> /\ update[Len(update)].info = Removed THEN Get(l, update[Len(update)].tag) ELSE 0
Marked(l, r) == IF r = 0 THEN l ELSE [l EXCEPT ![r].tag = 0]

\* A list without marks is a list.
LEMMA ValidIsLine ==
    ASSUME NEW l \in Seq(Valid)
    PROVE  l \in Seq(Line)
<1>1. Len(l) \in Nat /\ l = [i \in 1..Len(l) |-> l[i]] /\ \A i \in 1..Len(l) : l[i] \in Valid
  OBVIOUS
<1>2. \A i \in 1..Len(l) : l[i] \in Line
  BY <1>1, ValidAre
<1> QED
  BY <1>1, <1>2, SeqDef

\* The first pass of a plain update looks everything up in the list as it was, and marks at
\* most one entry.
LEMMA ScanPlain ==
    ASSUME NEW l \in Seq(Line), NEW update \in Seq(Entry), Plain(update)
    PROVE  LET s == Scan(l, update)
               r == Culled(l, update)
           IN  /\ \A j \in 1..Len(update) : s.index[j] = Get(l, update[j].tag)
               /\ s.list = Marked(l, r)
               /\ s.free = IF r = 0 THEN <<>> ELSE <<r>>
<1> DEFINE n == Len(update)
           r == Culled(l, update)
<1>1. PICK g : /\ g[0] = ScanBase(l) /\ \A k \in 0..n : g[k] \in Scanning
               /\ \A k \in 1..n : g[k] = Look(g[k - 1], update[k])
               /\ Scan(l, update) = g[n]
  BY ScanRuns
<1>2. n \in Nat /\ DOMAIN update = 1..n /\ \A k \in 1..n : update[k] \in Entry
  OBVIOUS
<1> DEFINE Still(k) == k < n => g[k].list = l /\ g[k].free = <<>>
           Looked(k) == /\ Len(g[k].index) = k
                        /\ \A j \in 1..k : g[k].index[j] = Get(l, update[j].tag)
           S == {k \in 0..n : Still(k) /\ Looked(k)}
<1>3. g[0].list = l /\ g[0].free = <<>> /\ g[0].index = <<>>
  BY <1>1 DEF ScanBase
<1>4. 0 \in S
  BY <1>2, <1>3
<1>5. ASSUME NEW k \in 1..n, k - 1 \in S PROVE k \in S
  <2> DEFINE s == g[k - 1]
             e == update[k]
             i == Get(l, e.tag)
  <2>1. s.list = l /\ s.free = <<>> /\ s \in Scanning /\ e \in Entry /\ g[k] = Look(s, e) /\ k \in Nat
    BY <1>1, <1>2, <1>5
  <2>2. Len(s.index) = k - 1 /\ \A j \in 1..(k - 1) : s.index[j] = Get(l, update[j].tag)
    BY <1>5
  <2> HIDE DEF s, e
  <2>3. /\ g[k].index = Append(s.index, i) /\ i \in Nat
        /\ ~(i > 0 /\ e.info = Removed) => g[k].list = l /\ g[k].free = <<>>
    <3>1. /\ i \in 0..Len(l) /\ g[k].index = Append(s.index, i)
          /\ ~(i > 0 /\ e.info = Removed) => g[k].list = l /\ g[k].free = s.free
      BY <2>1, LookIs
    <3>2. i \in Nat
      BY <3>1
    <3> QED
      BY <2>1, <3>1, <3>2
  <2>4. s.index \in Seq(Nat)
    BY <2>1 DEF Scanning
  <2> HIDE DEF i
  <2>5. Len(g[k].index) = k /\ g[k].index[k] = i /\ \A j \in 1..(k - 1) : g[k].index[j] = s.index[j]
    BY <2>1, <2>2, <2>3, <2>4
  <2>6. Looked(k)
    BY <2>1, <2>2, <2>5 DEF i, e
  <2>7. k < n => e.info # Removed
    BY <1>2 DEF Plain, e
  <2> QED
    BY <2>3, <2>6, <2>7
<1>6. \A k \in 0..n : Still(k) /\ Looked(k)
  <2> HIDE DEF S, n
  <2>1. \A k \in 0..n : k \in S
    BY <1>2, <1>4, <1>5, Climb, Zenon
  <2> QED
    BY <2>1 DEF S
<1>7. Looked(n)
  BY <1>2, <1>6
<1>8. g[n].list = Marked(l, r) /\ g[n].free = IF r = 0 THEN <<>> ELSE <<r>>
  <2>1. CASE n = 0
    <3>1. update = <<>>
      BY <2>1
    <3>2. r = 0
      BY <3>1 DEF Culled
    <3> QED
      BY <1>3, <2>1, <3>2 DEF Marked
  <2>2. CASE n # 0
    <3> DEFINE s == g[n - 1]
               e == update[n]
               i == Get(l, e.tag)
    <3>1. n \in 1..n /\ n - 1 \in 0..n /\ n - 1 < n /\ update # <<>>
      BY <1>2, <2>2
    <3>2. s \in Scanning /\ e \in Entry /\ s.list = l /\ s.free = <<>> /\ g[n] = Look(s, e)
      BY <1>1, <1>2, <1>6, <3>1
    <3>3. r = IF e.info = Removed THEN i ELSE 0
      BY <3>1 DEF Culled
    <3> HIDE DEF s, e, r
    <3>4. /\ i \in 0..Len(l)
          /\ i > 0 /\ e.info = Removed => g[n].list = [l EXCEPT ![i].tag = 0] /\ g[n].free = Append(<<>>, i)
          /\ ~(i > 0 /\ e.info = Removed) => g[n].list = l /\ g[n].free = <<>>
      BY <3>2, LookIs
    <3> HIDE DEF i
    <3>5. CASE i > 0 /\ e.info = Removed
      <4>1. Append(<<>>, i) = <<i>> /\ i # 0
        BY <3>4, <3>5
      <4> QED
        BY <3>3, <3>4, <3>5, <4>1 DEF Marked
    <3>6. CASE ~(i > 0 /\ e.info = Removed)
      <4>1. r = 0
        BY <3>3, <3>4, <3>6
      <4> QED
        BY <3>4, <3>6, <4>1 DEF Marked
    <3> QED
      BY <3>5, <3>6
  <2> QED
    BY <2>1, <2>2
<1> QED
  BY <1>1, <1>7, <1>8

\* The first k entries of an update that say something.
Saying(update, k) == {j \in 1..k : update[j].info # Removed}
Named(update, k, tag) == \E j \in Saying(update, k) : update[j].tag = tag

\* The list when the first k entries of a plain update have been put in, r being the marked place.
Amended(s, l, update, r, k) ==
    /\ \A i, m \in 1..Len(s.list) : s.list[i].tag # 0 /\ s.list[i].tag = s.list[m].tag => i = m
    /\ \A i \in 1..Len(s.list) : s.list[i].tag # 0 =>
          \/ \E j \in Saying(update, k) : s.list[i] = update[j]
          \/ i <= Len(l) /\ i # r /\ s.list[i] = l[i] /\ ~Named(update, k, l[i].tag)
    /\ \A j \in Saying(update, k) : \E i \in 1..Len(s.list) : s.list[i] = update[j]
    /\ \A i \in 1..Len(l) : i # r /\ ~Named(update, k, l[i].tag) => s.list[i] = l[i]
    /\ s.free # <<>> => s.free = <<r>> /\ r \in 1..Len(l) /\ s.list[r].tag = 0

\* What is said of the entry that is put in: it is found where its tag is, and is not the marked one.
FoundAt(l, update, r, k, found) ==
    /\ found \in 0..Len(l)
    /\ found > 0 => l[found].tag = update[k].tag /\ found # r
    /\ \A i \in 1..Len(l) : l[i].tag = update[k].tag => i = found

\* One more entry of the update.
LEMMA SayingGrows ==
    ASSUME NEW update, NEW k \in Nat \ {0}
    PROVE  /\ update[k].info # Removed => Saying(update, k) = Saying(update, k - 1) \cup {k}
           /\ update[k].info = Removed => Saying(update, k) = Saying(update, k - 1)
           /\ k \notin Saying(update, k - 1) /\ Saying(update, k - 1) \subseteq 1..(k - 1)
BY DEF Saying

\* A step of the second pass over a plain update puts the entry in, and nothing that it does not name
\* changes.
LEMMA PutAmends ==
    ASSUME NEW l \in Seq(Valid), NEW update \in Seq(Entry), Plain(update), NEW k \in 1..Len(update),
           NEW r, NEW found, update[k].info # Removed => FoundAt(l, update, r, k, found), found \in 0..Len(l),
           NEW s \in Amending(Len(l)), Amended(s, l, update, r, k - 1)
    PROVE  Amended(Put(s, update[k], found), l, update, r, k)
<1> DEFINE n == Len(l)
           e == update[k]
           t == Put(s, e, found)
           p == PlaceOf(s, found)
           x == Len(s.list)
<1>1. /\ n \in Nat /\ k \in Nat \ {0} /\ e \in Entry /\ e.tag # 0 /\ x \in Nat /\ n <= x
      /\ s.free \in Seq(Nat)
      /\ DOMAIN update = 1..Len(update) /\ \A j \in 1..Len(update) : update[j] \in Entry /\ update[j].tag # 0
  <2>1. e \in Entry /\ \A j \in 1..Len(update) : update[j] \in Entry
    OBVIOUS
  <2> QED
    BY <2>1, ValidAre, AmendingIs
<1>2. CASE e.info = Removed
  <2>1. t = s
    BY <1>2, Zenon DEF Put
  <2>2. Saying(update, k) = Saying(update, k - 1)
    BY <1>1, <1>2, SayingGrows
  <2> HIDE DEF t
  <2> QED
    BY <2>1, <2>2 DEF Amended, Named, t
<1>3. CASE e.info # Removed
  <2> DEFINE U == Saying(update, k - 1)
  <2>1. /\ p \in 1..Len(t.list) /\ t.list[p] = e /\ \A j \in 1..x : j # p => t.list[j] = s.list[j]
        /\ found > 0 => p = found /\ t.free = s.free /\ Len(t.list) = x
        /\ found = 0 /\ s.free = <<>> => p = x + 1 /\ t.free = s.free /\ Len(t.list) = x + 1
        /\ found = 0 /\ s.free # <<>> =>
            p = Last(s.free) /\ Len(t.list) = x /\ t.free = Front(s.free) /\ Len(t.free) = Len(s.free) - 1
        /\ t \in Amending(n)
    BY <1>1, <1>3, PutIs
  <2>2. Saying(update, k) = U \cup {k} /\ k \notin U /\ U \subseteq 1..(k - 1)
    BY <1>1, <1>3, SayingGrows
  <2>3. \A j \in U : update[j].tag # e.tag /\ update[j].tag # 0
    <3>1. \A j \in U : j \in 1..Len(update) /\ j # k
      BY <1>1, <2>2
    <3> QED
      BY <1>1, <3>1 DEF Plain
  <2>4. FoundAt(l, update, r, k, found)
    BY <1>3
  <2>5. \A q : Named(update, k, q) <=> Named(update, k - 1, q) \/ q = e.tag
    BY <2>2 DEF Named
  <2>6. ~Named(update, k - 1, e.tag)
    BY <2>3 DEF Named
  <2> HIDE DEF t, p, U, e, x, n
  <2>7. /\ \A i, m \in 1..x : s.list[i].tag # 0 /\ s.list[i].tag = s.list[m].tag => i = m
        /\ \A i \in 1..x : s.list[i].tag # 0 =>
              \/ \E j \in U : s.list[i] = update[j]
              \/ i <= n /\ i # r /\ s.list[i] = l[i] /\ ~Named(update, k - 1, l[i].tag)
        /\ \A j \in U : \E i \in 1..x : s.list[i] = update[j]
        /\ \A i \in 1..n : i # r /\ ~Named(update, k - 1, l[i].tag) => s.list[i] = l[i]
        /\ s.free # <<>> => s.free = <<r>> /\ r \in 1..n /\ s.list[r].tag = 0
    BY DEF Amended, U, x, n
  <2>8. /\ found \in 0..n /\ found > 0 => l[found].tag = e.tag /\ found # r
        /\ \A i \in 1..n : l[i].tag = e.tag => i = found
    BY <2>4 DEF FoundAt, e, n
  <2>9. found \in 0..n /\ (found = 0 \/ found > 0)
    BY <1>1, <2>4 DEF FoundAt, n
  <2>10. s.free # <<>> => Last(s.free) = r /\ Len(s.free) = 1
    <3>1. Len(<<r>>) = 1 /\ <<r>>[1] = r
      OBVIOUS
    <3> QED
      BY <2>7, <3>1 DEF Last
  \* The place is free or has the tag.
  <2>11. p \in 1..x => s.list[p].tag = 0 \/ s.list[p].tag = e.tag
    <3>1. CASE found > 0
      <4>1. p = found /\ found \in 1..n /\ found # r /\ l[found].tag = e.tag
        BY <1>1, <2>1, <2>8, <2>9, <3>1
      <4> QED
        BY <2>6, <2>7, <4>1
    <3>2. CASE found = 0 /\ s.free = <<>>
      BY <1>1, <2>1, <3>2
    <3>3. CASE found = 0 /\ s.free # <<>>
      BY <2>1, <2>7, <2>10, <3>3
    <3> QED
      BY <2>9, <3>1, <3>2, <3>3
  <2>12. Len(t.list) \in Nat /\ \A i \in 1..Len(t.list) : i # p => i \in 1..x /\ t.list[i] = s.list[i]
    <3>1. Len(t.list) = x \/ (Len(t.list) = x + 1 /\ p = x + 1)
      BY <2>1, <2>9
    <3> HIDE DEF t, p, x
    <3>2. Len(t.list) \in Nat /\ \A i \in 1..Len(t.list) : i # p => i \in 1..x
      BY <1>1, <3>1
    <3> QED
      BY <2>1, <3>2
  <2>13. \A i \in 1..x : i \in 1..Len(t.list)
    BY <1>1, <2>1, <2>9
  \* What else is in the list has another tag.
  <2>14. \A i \in 1..x : i # p => s.list[i].tag # e.tag
    <3> SUFFICES ASSUME NEW i \in 1..x, i # p, s.list[i].tag = e.tag PROVE FALSE
      OBVIOUS
    <3>1. s.list[i].tag # 0
      BY <1>1
    <3>2. ~\E j \in U : s.list[i] = update[j]
      BY <2>3
    <3>3. i <= n /\ s.list[i] = l[i]
      BY <2>7, <3>1, <3>2
    <3>4. i \in 1..n /\ l[i].tag = e.tag
      BY <1>1, <3>3
    <3>5. i = found /\ found > 0
      BY <1>1, <2>8, <3>4
    <3> QED
      BY <2>1, <3>5
  <2>15. \A i, m \in 1..Len(t.list) : t.list[i].tag # 0 /\ t.list[i].tag = t.list[m].tag => i = m
    <3> SUFFICES ASSUME NEW i \in 1..Len(t.list), NEW m \in 1..Len(t.list),
                        t.list[i].tag # 0, t.list[i].tag = t.list[m].tag
                 PROVE  i = m
      OBVIOUS
    <3>1. CASE i = p \/ m = p
      BY <2>1, <2>12, <2>14, <3>1
    <3>2. CASE i # p /\ m # p
      BY <2>7, <2>12, <3>2
    <3> QED
      BY <3>1, <3>2
  <2>16. ASSUME NEW i \in 1..Len(t.list), t.list[i].tag # 0
         PROVE  \/ \E j \in U \cup {k} : t.list[i] = update[j]
                \/ i <= n /\ i # r /\ t.list[i] = l[i] /\ ~Named(update, k, l[i].tag)
    <3>1. CASE i = p
      BY <2>1, <3>1 DEF e
    <3>2. CASE i # p
      <4>1. i \in 1..x /\ t.list[i] = s.list[i] /\ s.list[i].tag # e.tag
        BY <2>12, <2>14, <3>2
      <4>2. CASE \E j \in U : s.list[i] = update[j]
        BY <4>1, <4>2
      <4>3. CASE i <= n /\ i # r /\ s.list[i] = l[i] /\ ~Named(update, k - 1, l[i].tag)
        BY <2>5, <4>1, <4>3
      <4> QED
        BY <2>7, <2>16, <4>1, <4>2, <4>3
    <3> QED
      BY <3>1, <3>2
  <2>17. ASSUME NEW j \in U \cup {k} PROVE \E i \in 1..Len(t.list) : t.list[i] = update[j]
    <3>1. CASE j = k
      BY <2>1, <3>1 DEF e
    <3>2. CASE j \in U
      <4>1. PICK i \in 1..x : s.list[i] = update[j]
        BY <2>7, <3>2
      <4>2. i # p
        BY <2>3, <2>11, <3>2, <4>1
      <4> QED
        BY <2>1, <2>13, <4>1, <4>2
    <3> QED
      BY <3>1, <3>2
  <2>18. ASSUME NEW i \in 1..n, i # r, ~Named(update, k, l[i].tag)
         PROVE  t.list[i] = l[i]
    <3>1. ~Named(update, k - 1, l[i].tag) /\ l[i].tag # e.tag
      BY <2>5, <2>18
    <3>2. s.list[i] = l[i] /\ i \in 1..x
      BY <1>1, <2>7, <2>18, <3>1
    <3>3. i # p
      <4>1. CASE found > 0
        BY <2>1, <2>8, <3>1, <4>1
      <4>2. CASE found = 0 /\ s.free = <<>>
        BY <1>1, <2>1, <3>2, <4>2
      <4>3. CASE found = 0 /\ s.free # <<>>
        BY <2>1, <2>10, <2>18, <4>3
      <4> QED
        BY <2>9, <4>1, <4>2, <4>3
    <3> QED
      BY <2>1, <3>2, <3>3
  <2>19. t.free # <<>> => t.free = <<r>> /\ r \in 1..n /\ t.list[r].tag = 0
    <3>1. CASE found > 0
      <4>1. t.free = s.free /\ p = found /\ found # r
        BY <2>1, <2>8, <2>9, <3>1
      <4>2. r \in 1..n => r \in 1..x
        BY <1>1
      <4> QED
        BY <2>1, <2>7, <4>1, <4>2
    <3>2. CASE found = 0 /\ s.free = <<>>
      BY <2>1, <3>2
    <3>3. CASE found = 0 /\ s.free # <<>>
      <4>1. Len(t.free) = 0
        <5>1. Len(t.free) = Len(s.free) - 1
          BY <2>1, <3>3
        <5>2. Len(s.free) = 1
          BY <2>10, <3>3
        <5> QED
          BY <5>1, <5>2
      <4>2. t.free \in Seq(Nat)
        BY <1>1, <2>1, AmendingIs DEF n
      <4> QED
        BY <4>1, <4>2
    <3> QED
      BY <2>9, <3>1, <3>2, <3>3
  <2>20. Amended(t, l, update, r, k)
    BY <2>2, <2>15, <2>16, <2>17, <2>18, <2>19 DEF Amended, n
  <2> QED
    BY <2>20 DEF t, e
<1> QED
  BY <1>2, <1>3

\* In a sorted list the bisection finds the only place of a tag.
LEMMA GetStrict ==
    ASSUME NEW l \in Seq(Valid), Strict(l), NEW tag \in Tags
    PROVE  /\ Get(l, tag) \in 0..Len(l)
           /\ Get(l, tag) > 0 => l[Get(l, tag)].tag = tag
           /\ \A i \in 1..Len(l) : l[i].tag = tag => i = Get(l, tag)
<1>1. l \in Seq(Line) /\ Len(l) \in Nat /\ DOMAIN l = 1..Len(l)
  BY ValidIsLine
<1>2. /\ Get(l, tag) \in 0..Len(l)
      /\ Get(l, tag) > 0 => l[Get(l, tag)].tag = tag
      /\ Get(l, tag) = 0 => \A j \in 1..Len(l) : l[j].tag # tag
  BY <1>1, GetFinds
<1>3. ASSUME NEW i \in 1..Len(l), l[i].tag = tag PROVE i = Get(l, tag)
  <2>1. Get(l, tag) \in 1..Len(l) /\ l[Get(l, tag)].tag = tag
    BY <1>1, <1>2, <1>3
  <2>2. \A j \in 1..Len(l) : l[j].tag \in Nat
    BY <1>1, LinesAre
  <2> QED
    BY <1>1, <1>3, <2>1, <2>2 DEF Strict
<1> QED
  BY <1>2, <1>3

\* What a plain update does to a sorted list.
LEMMA PlainAmend ==
    ASSUME NEW l \in Seq(Valid), Strict(l), NEW update \in Seq(Entry), Plain(update)
    PROVE  \E s \in Amending(Len(l)) :
              /\ Amended(s, l, update, Culled(l, update), Len(update))
              /\ Amend(Scan(l, update), update) = s.list
<1> DEFINE n == Len(l)
           z == Len(update)
           r == Culled(l, update)
           scan == Scan(l, update)
<1>1. /\ l \in Seq(Line) /\ n \in Nat /\ DOMAIN l = 1..n
      /\ z \in Nat /\ DOMAIN update = 1..z
      /\ \A i \in 1..n : l[i] \in Valid /\ l[i].tag # 0
  <2>1. \A i \in 1..n : l[i] \in Valid
    OBVIOUS
  <2> QED
    BY <2>1, ValidIsLine, ValidAre
<1>2. /\ \A j \in 1..z : scan.index[j] = Get(l, update[j].tag)
      /\ scan.list = Marked(l, r)
      /\ scan.free = IF r = 0 THEN <<>> ELSE <<r>>
  BY <1>1, ScanPlain
<1>3. AmendBase(scan) \in Amending(n) /\ \A k \in 1..z : scan.index[k] \in 0..n
  BY <1>1, AmendStart
<1>4. \A k \in 1..z : update[k].tag \in Tags
  <2>1. \A k \in 1..z : update[k] \in Entry
    OBVIOUS
  <2> QED
    BY <2>1, ValidAre
<1>5. r \in 0..n /\ (r > 0 => z \in 1..z /\ update[z].info = Removed /\ l[r].tag = update[z].tag)
  <2>1. CASE update # <<>> /\ update[z].info = Removed
    <3>1. z \in 1..z /\ r = Get(l, update[z].tag)
      BY <1>1, <2>1 DEF Culled
    <3> QED
      BY <1>4, <2>1, <3>1, GetStrict
  <2>2. CASE ~(update # <<>> /\ update[z].info = Removed)
    <3>1. r = 0
      BY <2>2 DEF Culled
    <3> QED
      BY <1>1, <3>1
  <2> QED
    BY <2>1, <2>2
<1> HIDE DEF scan, r
<1>6. PICK g : /\ g[0] = AmendBase(scan)
               /\ \A k \in 0..z : g[k] \in Amending(n)
               /\ \A k \in 1..z : g[k] = Put(g[k - 1], update[k], scan.index[k])
               /\ Amend(scan, update) = g[z].list
  BY <1>1, <1>3, AmendRuns
<1>7. ASSUME NEW k \in 1..z, update[k].info # Removed
      PROVE  FoundAt(l, update, r, k, scan.index[k])
  <2> DEFINE found == Get(l, update[k].tag)
  <2>1. /\ found \in 0..n /\ scan.index[k] = found /\ (found > 0 => l[found].tag = update[k].tag)
        /\ \A i \in 1..n : l[i].tag = update[k].tag => i = found
    BY <1>2, <1>4, GetStrict
  <2> HIDE DEF found
  <2>2. found > 0 => found # r
    <3> SUFFICES ASSUME found > 0, found = r PROVE FALSE
      OBVIOUS
    <3>1. z \in 1..z /\ update[z].info = Removed /\ update[k].tag = update[z].tag
      BY <1>5, <2>1
    <3>2. k = z
      BY <1>1, <3>1 DEF Plain
    <3> QED
      BY <1>7, <3>1, <3>2
  <2> QED
    BY <2>1, <2>2 DEF FoundAt
<1> DEFINE S == {k \in 0..z : Amended(g[k], l, update, r, k)}
<1>8. Amended(g[0], l, update, r, 0)
  <2> DEFINE m == Marked(l, r)
  <2>1. g[0].list = m /\ g[0].free = IF r = 0 THEN <<>> ELSE <<r>>
    BY <1>2, <1>6 DEF AmendBase
  <2>2. Saying(update, 0) = {} /\ \A q : ~Named(update, 0, q)
    BY DEF Saying, Named
  <2>3. /\ Len(m) = n /\ \A i \in 1..n : i # r => m[i] = l[i]
        /\ r > 0 => m[r].tag = 0
    <3>1. CASE r = 0
      BY <3>1 DEF Marked
    <3>2. CASE r > 0
      <4>1. r \in 1..n /\ m = [l EXCEPT ![r].tag = 0]
        BY <1>1, <1>5, <3>2 DEF Marked
      <4>2. m = [l EXCEPT ![r] = [tag |-> 0, info |-> l[r].info]] /\ Len(m) = n
        BY <1>1, <4>1, MarkedIs
      <4> HIDE DEF m
      <4>3. m[r] = [tag |-> 0, info |-> l[r].info] /\ \A i \in 1..n : i # r => m[i] = l[i]
        BY <1>1, <4>1, <4>2
      <4> QED
        BY <4>2, <4>3
    <3> QED
      BY <1>1, <1>5, <3>1, <3>2
  <2> HIDE DEF m
  <2>4. r = 0 \/ (r > 0 /\ r \in 1..n)
    BY <1>1, <1>5
  <2>5. \A i, j \in 1..n : l[i].tag = l[j].tag => i = j
    <3>1. \A i \in 1..n : l[i].tag \in Nat
      BY <1>1, LinesAre
    <3> QED
      BY <1>1, <3>1 DEF Strict
  <2>6. \A i, j \in 1..n : m[i].tag # 0 /\ m[i].tag = m[j].tag => i = j
    BY <2>3, <2>4, <2>5
  <2>7. \A i \in 1..n : m[i].tag # 0 => i <= n /\ i # r /\ m[i] = l[i]
    BY <1>1, <2>3, <2>4
  <2>8. g[0].free # <<>> => g[0].free = <<r>> /\ r \in 1..n /\ m[r].tag = 0
    BY <2>1, <2>3, <2>4
  <2> QED
    BY <2>1, <2>2, <2>3, <2>6, <2>7, <2>8 DEF Amended
<1>9. ASSUME NEW k \in 1..z, k - 1 \in S PROVE k \in S
  <2>1. /\ g[k - 1] \in Amending(n) /\ Amended(g[k - 1], l, update, r, k - 1)
        /\ g[k] = Put(g[k - 1], update[k], scan.index[k]) /\ scan.index[k] \in 0..n
    BY <1>1, <1>3, <1>6, <1>9
  <2>2. Amended(g[k], l, update, r, k)
    BY <1>7, <2>1, PutAmends
  <2> QED
    BY <1>1, <2>2
<1>10. Amended(g[z], l, update, r, z)
  <2>1. 0 \in S
    BY <1>1, <1>8
  <2> HIDE DEF S, z
  <2>2. \A k \in 0..z : k \in S
    BY <1>1, <1>9, <2>1, Climb, Zenon
  <2>3. z \in 0..z
    BY <1>1
  <2> QED
    BY <2>2, <2>3 DEF S
<1>11. g[z] \in Amending(n)
  BY <1>1, <1>6
<1> QED
  BY <1>6, <1>10, <1>11 DEF scan, r

Infos == [Tags -> Granted \cup {Removed}]

\* The list is sorted and says what the server's updates say.
Agrees(l, info) ==
    /\ l \in Seq(Valid) /\ Strict(l)
    /\ \A i \in DOMAIN l : l[i].info = info[l[i].tag]
    /\ \A t \in Tags : info[t] # Removed => \E i \in DOMAIN l : l[i].tag = t

\* Then that is what the bisection finds.
LEMMA AgreesFinds ==
    ASSUME NEW l, NEW info, Agrees(l, info), NEW t \in Tags
    PROVE  /\ Get(l, t) \in 0..Len(l)
           /\ (IF Get(l, t) = 0 THEN Removed ELSE l[Get(l, t)].info) = info[t]
<1>1. /\ l \in Seq(Valid) /\ Strict(l) /\ DOMAIN l = 1..Len(l) /\ Len(l) \in Nat
      /\ \A i \in DOMAIN l : l[i].info = info[l[i].tag]
      /\ info[t] # Removed => \E i \in DOMAIN l : l[i].tag = t
  BY DEF Agrees
<1>2. /\ Get(l, t) \in 0..Len(l)
      /\ Get(l, t) > 0 => l[Get(l, t)].tag = t
      /\ \A i \in 1..Len(l) : l[i].tag = t => i = Get(l, t)
  BY <1>1, GetStrict
<1>3. CASE Get(l, t) = 0
  <2>1. info[t] = Removed
    BY <1>1, <1>2, <1>3
  <2> QED
    BY <1>2, <1>3, <2>1
<1>4. CASE Get(l, t) # 0
  <2>1. Get(l, t) \in 1..Len(l)
    BY <1>1, <1>2, <1>4
  <2> QED
    BY <1>1, <1>2, <1>4, <2>1
<1> QED
  BY <1>3, <1>4

\* What a plain update says of the tags, over what was said before.
Says(update, old, info) ==
    /\ info \in Infos
    /\ \A i \in DOMAIN update : info[update[i].tag] = update[i].info
    /\ \A t \in Tags : (\A i \in DOMAIN update : update[i].tag # t) => info[t] = old[t]

\* What the server knows of the tags, after an update that amends and one that replaces.
LEMMA AppliedSays ==
    ASSUME NEW s, NEW v, NEW update \in Seq(Entry), Plain(update), s.info \in Infos
    PROVE  /\ Says(update, s.info, Applied(s, TRUE, v, update).info)
           /\ Says(update, NoEntries, Applied(s, FALSE, v, update).info)
           /\ Applied(s, TRUE, v, update).version = v /\ Applied(s, FALSE, v, update).version = v
<1> DEFINE names(t) == {i \in DOMAIN update : update[i].tag = t}
           says(old, t) == IF names(t) # {} THEN update[CHOOSE i \in names(t) : TRUE].info ELSE old[t]
           told(old) == [t \in Tags |-> says(old, t)]
<1>1. DOMAIN update = 1..Len(update) /\ \A i \in DOMAIN update : update[i] \in Entry
  OBVIOUS
<1>2. \A i \in DOMAIN update : update[i].tag \in Tags /\ update[i].info \in Granted \cup {Removed}
  BY <1>1 DEF Entry
<1>3. ASSUME NEW old \in Infos PROVE Says(update, old, told(old))
  <2>1. ASSUME NEW i \in DOMAIN update PROVE says(old, update[i].tag) = update[i].info
    <3>1. names(update[i].tag) = {i}
      BY DEF Plain
    <3> QED
      BY <3>1
  <2>2. \A t \in Tags : (\A i \in DOMAIN update : update[i].tag # t) => says(old, t) = old[t]
    OBVIOUS
  <2>3. ASSUME NEW t \in Tags PROVE says(old, t) \in Granted \cup {Removed}
    <3>1. CASE \E i \in DOMAIN update : update[i].tag = t
      BY <1>2, <2>1, <3>1
    <3>2. CASE \A i \in DOMAIN update : update[i].tag # t
      BY <2>2, <3>2 DEF Infos
    <3> QED
      BY <3>1, <3>2
  <2> HIDE DEF says
  <2>4. told(old) \in Infos
    BY <2>3 DEF Infos
  <2> QED
    BY <1>2, <2>1, <2>2, <2>4 DEF Says
<1>4. s.info \in Infos /\ NoEntries \in Infos
  BY DEF Infos, NoEntries
<1>5. told(s.info) = Applied(s, TRUE, v, update).info
  BY DEF Applied
<1>6. told(NoEntries) = Applied(s, FALSE, v, update).info
  <2>1. \A t \in Tags : NoEntries[t] = Removed
    BY DEF NoEntries
  <2> QED
    BY <2>1 DEF Applied
<1>7. Applied(s, TRUE, v, update).version = v /\ Applied(s, FALSE, v, update).version = v
  BY DEF Applied
<1> HIDE DEF told
<1> QED
  BY <1>3, <1>4, <1>5, <1>6, <1>7

\* A list that is replaced says what the update says.
LEMMA RenewedAgrees ==
    ASSUME NEW update \in Seq(Entry), Plain(update), NEW info, Says(update, NoEntries, info)
    PROVE  Agrees(Renewed(update), info)
<1> DEFINE o == Renewed(update)
<1>1. /\ \A i \in DOMAIN update : info[update[i].tag] = update[i].info
      /\ \A t \in Tags : (\A i \in DOMAIN update : update[i].tag # t) => info[t] = Removed
  BY DEF Says, NoEntries
<1>2. \A i, j \in DOMAIN update : update[i].tag = update[j].tag => i = j
  BY DEF Plain
<1>3. /\ o \in Seq(Valid) /\ Strict(o)
      /\ \A k \in DOMAIN o : \E i \in DOMAIN update : update[i].info # Removed /\ o[k] = update[i]
      /\ \A i \in DOMAIN update : update[i].info # Removed => \E k \in DOMAIN o : o[k] = update[i]
  BY <1>2, RenewedIs
<1> HIDE DEF o
<1>4. \A k \in DOMAIN o : o[k].info = info[o[k].tag]
  BY <1>1, <1>3
<1>5. ASSUME NEW t \in Tags, info[t] # Removed PROVE \E k \in DOMAIN o : o[k].tag = t
  <2>1. PICK i \in DOMAIN update : update[i].tag = t
    BY <1>1, <1>5
  <2>2. update[i].info # Removed
    BY <1>1, <1>5, <2>1
  <2> QED
    BY <1>3, <2>1, <2>2
<1>6. Agrees(o, info)
  BY <1>3, <1>4, <1>5 DEF Agrees
<1> QED
  BY <1>6 DEF o

\* A list that is amended says what the update says, and of other tags what it said before.
LEMMA AmendedAgrees ==
    ASSUME NEW l, NEW update \in Seq(Entry), Plain(update), NEW old, Agrees(l, old),
           NEW info, Says(update, old, info)
    PROVE  Agrees(Clean(Amend(Scan(l, update), update)), info)
<1> DEFINE L == Amend(Scan(l, update), update)
           o == Clean(L)
           r == Culled(l, update)
           n == Len(l)
           z == Len(update)
<1>1. /\ \A i \in 1..z : info[update[i].tag] = update[i].info
      /\ \A t \in Tags : (\A i \in 1..z : update[i].tag # t) => info[t] = old[t]
      /\ DOMAIN update = 1..z /\ z \in Nat
  BY DEF Says
<1>2. /\ l \in Seq(Valid) /\ Strict(l) /\ DOMAIN l = 1..n /\ n \in Nat
      /\ \A i \in 1..n : l[i].info = old[l[i].tag] /\ l[i].tag \in Tags
      /\ \A t \in Tags : old[t] # Removed => \E i \in 1..n : l[i].tag = t
  <2>1. l \in Seq(Valid) /\ DOMAIN l = 1..Len(l) /\ Len(l) \in Nat
    BY DEF Agrees
  <2>2. \A i \in 1..n : l[i] \in Valid
    BY <2>1
  <2> QED
    BY <2>1, <2>2, ValidAre DEF Agrees
<1>3. PICK a \in Amending(n) : Amended(a, l, update, r, z) /\ L = a.list
  BY <1>2, PlainAmend
<1>4. L \in Seq(Line) /\ DOMAIN L = 1..Len(L)
  BY <1>2, <1>3, AmendingIs
<1> HIDE DEF L
<1>5. /\ \A i, m \in 1..Len(L) : L[i].tag # 0 /\ L[i].tag = L[m].tag => i = m
      /\ \A i \in 1..Len(L) : L[i].tag # 0 =>
            \/ \E j \in Saying(update, z) : L[i] = update[j]
            \/ i <= n /\ i # r /\ L[i] = l[i] /\ ~Named(update, z, l[i].tag)
      /\ \A j \in Saying(update, z) : \E i \in 1..Len(L) : L[i] = update[j]
      /\ \A i \in 1..n : i # r /\ ~Named(update, z, l[i].tag) => L[i] = l[i]
      /\ n <= Len(L) /\ Len(L) \in Nat
  BY <1>2, <1>3, AmendingIs DEF Amended
<1>6. /\ o \in Seq(Valid)
      /\ \A k \in DOMAIN o : \E i \in 1..Len(L) : L[i].tag # 0 /\ o[k] = L[i]
      /\ \A i \in 1..Len(L) : L[i].tag # 0 => \E k \in DOMAIN o : o[k] = L[i]
      /\ Strict(o)
  <2>1. \A i, m \in DOMAIN L : L[i].tag # 0 /\ L[i].tag = L[m].tag => i = m
    BY <1>4, <1>5
  <2>2. /\ o \in Seq(Valid) /\ Strict(o)
        /\ \A k \in DOMAIN o : \E i \in DOMAIN L : L[i].tag # 0 /\ o[k] = L[i]
        /\ \A i \in DOMAIN L : L[i].tag # 0 => \E k \in DOMAIN o : o[k] = L[i]
    BY <1>4, <2>1, CleanIs
  <2> HIDE DEF o
  <2> QED
    BY <1>4, <2>2
<1> HIDE DEF o
<1>7. \A j \in 1..z : update[j].tag \in Tags /\ update[j].tag # 0
  <2>1. \A j \in 1..z : update[j] \in Entry
    BY <1>1
  <2> QED
    BY <2>1, ValidAre
\* An entry that stayed is not named at all.
<1>8. ASSUME NEW i \in 1..n, i # r, ~Named(update, z, l[i].tag), NEW j \in 1..z
      PROVE  update[j].tag # l[i].tag
  <2> SUFFICES ASSUME update[j].tag = l[i].tag PROVE FALSE
    OBVIOUS
  <2>1. update[j].info = Removed
    BY <1>8 DEF Named, Saying
  <2>2. j = z /\ update # <<>>
    <3>1. j \in DOMAIN update
      BY <1>1, <1>8
    <3>2. update # <<>>
      BY <3>1
    <3> QED
      BY <2>1, <3>1, <3>2 DEF Plain
  <2>3. r = Get(l, l[i].tag)
    BY <2>1, <2>2 DEF Culled
  <2> QED
    BY <1>2, <1>8, <2>3, GetStrict
<1>9. ASSUME NEW i \in 1..Len(L), L[i].tag # 0 PROVE L[i].info = info[L[i].tag]
  <2>1. CASE \E j \in Saying(update, z) : L[i] = update[j]
    BY <1>1, <2>1 DEF Saying
  <2>2. CASE i <= n /\ i # r /\ L[i] = l[i] /\ ~Named(update, z, l[i].tag)
    <3>1. i \in 1..n
      BY <1>2, <1>5, <2>2
    <3>2. info[l[i].tag] = old[l[i].tag]
      BY <1>1, <1>2, <1>8, <2>2, <3>1
    <3> QED
      BY <1>2, <2>2, <3>1, <3>2
  <2> QED
    BY <1>5, <1>9, <2>1, <2>2
<1>10. ASSUME NEW t \in Tags, info[t] # Removed PROVE \E i \in 1..Len(L) : L[i].tag = t
  <2>1. CASE \E j \in 1..z : update[j].tag = t
    <3>1. PICK j \in 1..z : update[j].tag = t
      BY <2>1
    <3>2. j \in Saying(update, z)
      BY <1>1, <1>10, <3>1 DEF Saying
    <3> QED
      BY <1>5, <3>1, <3>2
  <2>2. CASE \A j \in 1..z : update[j].tag # t
    <3>1. PICK i \in 1..n : l[i].tag = t
      BY <1>1, <1>2, <1>10, <2>2
    <3>2. ~Named(update, z, t)
      BY <2>2 DEF Named, Saying
    <3>3. i # r
      <4> SUFFICES ASSUME i = r PROVE FALSE
        OBVIOUS
      <4>1. i > 0
        BY <1>2
      <4>2. update # <<>> /\ r = Get(l, update[z].tag)
        BY <4>1 DEF Culled
      <4>3. z \in 1..z
        BY <1>1, <4>2
      <4>4. l[r].tag = update[z].tag
        BY <1>2, <1>7, <4>1, <4>2, <4>3, GetStrict
      <4> QED
        BY <2>2, <3>1, <4>3, <4>4
    <3>4. L[i] = l[i] /\ i \in 1..Len(L)
      BY <1>2, <1>5, <3>1, <3>2, <3>3
    <3> QED
      BY <3>1, <3>4
  <2> QED
    BY <2>1, <2>2
<1>11. \A k \in DOMAIN o : o[k].info = info[o[k].tag]
  BY <1>6, <1>9
<1>12. ASSUME NEW t \in Tags, info[t] # Removed PROVE \E k \in DOMAIN o : o[k].tag = t
  <2>1. PICK i \in 1..Len(L) : L[i].tag = t
    BY <1>10, <1>12
  <2>2. L[i].tag # 0
    BY <2>1, TagsAre
  <2> QED
    BY <1>6, <2>1, <2>2
<1>13. Agrees(o, info)
  BY <1>6, <1>11, <1>12 DEF Agrees
<1> QED
  BY <1>13 DEF o, L

-----------------------------------------------------------------------------
(* The invariant of the list *)

\* The list in flash, and in RAM, of which the server knows what they say.
FileAgrees ==
    IF Loads(listFile) THEN Agrees(listFile.list, server.info) /\ listFile.version = server.version
    ELSE server.info = NoEntries
ListAgrees ==
    IF Loads(listFile) THEN list = listFile.list /\ version = VersionOf(list, listFile.version)
    ELSE list = <<>> /\ version = 0

IsListFile(f) == f \in Lost \/ \E l \in Seq(Valid), v \in Versions : f = ListDocument(l, v) /\ Len(l) <= MaxList

ListTypes ==
    /\ list \in Seq(Line) /\ Len(list) <= MaxList
    /\ version \in Versions \cup {0}
    /\ IsListFile(listFile)
    /\ server.known \in BOOLEAN /\ server.info \in Infos
ListInv ==
    /\ ListTypes
    /\ ~up => list = <<>> /\ version = 0
    /\ server.known => FileAgrees /\ (up => ListAgrees)

\* A list and its version are no mark.
LEMMA ListDocuments ==
    ASSUME NEW l \in Seq(Valid), NEW v \in Versions
    PROVE  ListDocument(l, v) \notin Lost /\ ListDocument(l, v).list = l /\ ListDocument(l, v).version = v
<1>1. Len(l) \in Nat /\ l = [i \in 1..Len(l) |-> l[i]] /\ \A i \in 1..Len(l) : l[i] \in Valid
  OBVIOUS
<1>2. l \in Seq(Entry)
  <2>1. \A i \in 1..Len(l) : l[i] \in Entry
    BY <1>1, ValidAre
  <2> QED
    BY <1>1, <2>1, SeqDef
<1>3. ListDocument(l, v) \in [list : Seq(Entry), version : Versions]
  BY <1>2 DEF ListDocument
<1> QED
  BY <1>3, ListAssumption DEF ListDocument

\* A file that can be read holds a list.
LEMMA FileHolds ==
    ASSUME NEW f, IsListFile(f), Loads(f)
    PROVE  f.list \in Seq(Valid) /\ f.version \in Versions /\ Len(f.list) <= MaxList /\ Len(f.list) \in Nat
<1>1. PICK l \in Seq(Valid), v \in Versions : f = ListDocument(l, v) /\ Len(l) <= MaxList
  BY DEF IsListFile, Loads
<1>2. f.list = l /\ f.version = v
  BY <1>1 DEF ListDocument
<1> QED
  BY <1>1, <1>2

\* Removing a file that is too short does not change what can be read.
LEMMA AfterLoadIs ==
    ASSUME NEW f, IsListFile(f)
    PROVE  IsListFile(AfterLoad(f)) /\ (Loads(f) => AfterLoad(f) = f) /\ (Loads(AfterLoad(f)) <=> Loads(f))
BY DEF AfterLoad, IsListFile, Loads, Lost

\* An empty list says nothing, and a list that says nothing is empty.
LEMMA SaysNothing ==
    ASSUME NEW l, NEW info \in Infos, Agrees(l, info)
    PROVE  (l = <<>>) <=> (info = NoEntries)
<1>1. l \in Seq(Valid) /\ DOMAIN l = 1..Len(l) /\ Len(l) \in Nat
  BY DEF Agrees
<1>2. ASSUME l = <<>> PROVE info = NoEntries
  <2>1. \A t \in Tags : info[t] = Removed
    BY <1>2 DEF Agrees
  <2> QED
    BY <2>1 DEF Infos, NoEntries
<1>3. ASSUME l # <<>> PROVE info # NoEntries
  <2>1. 1 \in DOMAIN l
    BY <1>1, <1>3
  <2>2. l[1].tag \in Tags /\ l[1].info # Removed
    BY <1>1, <2>1, ValidAre
  <2>3. info[l[1].tag] # Removed
    BY <2>1, <2>2 DEF Agrees
  <2> QED
    BY <2>2, <2>3 DEF NoEntries
<1> QED
  BY <1>2, <1>3

\* The empty list agrees with a server that has said nothing.
LEMMA NothingAgrees == Agrees(<<>>, NoEntries) /\ NoEntries \in Infos
BY DEF Agrees, Strict, NoEntries, Infos

\* The version of an empty list is 0.
LEMMA VersionIs ==
    ASSUME NEW l, NEW v \in Versions \cup {0}
    PROVE  VersionOf(l, v) \in Versions \cup {0}
BY DEF VersionOf

\* What loading makes of a file, and of a list in RAM if there is none.
LEMMA ListedIs ==
    ASSUME NEW f, IsListFile(f), NEW l, NEW v, l \in Seq(Valid), Len(l) <= MaxList, v \in Versions \cup {0}
    PROVE  /\ Listed(f, l, v).list \in Seq(Valid) /\ Len(Listed(f, l, v).list) <= MaxList
           /\ Listed(f, l, v).version \in Versions \cup {0}
           /\ ~Loads(f) => Listed(f, l, v).list = l /\ Listed(f, l, v).version = v
           /\ Loads(f) /\ Strict(f.list) =>
                Listed(f, l, v).list = f.list /\ Listed(f, l, v).version = VersionOf(f.list, f.version)
<1>1. CASE Loads(f)
  <2>1. f.list \in Seq(Valid) /\ f.version \in Versions /\ Len(f.list) <= MaxList /\ Len(f.list) \in Nat
    BY <1>1, FileHolds
  <2>2. Listed(f, l, v) = ListDocument(Clean(f.list), VersionOf(f.list, f.version))
    BY <1>1, <2>1, TagsAre DEF Listed, Too
  <2>3. Listed(f, l, v).list = Clean(f.list) /\ Listed(f, l, v).version = VersionOf(f.list, f.version)
    BY <2>2 DEF ListDocument
  <2>4. f.list \in Seq(Line)
    BY <2>1, ValidIsLine
  <2>5. Clean(f.list) \in Seq(Valid) /\ Len(Clean(f.list)) <= Len(f.list)
    BY <2>4, CleanIs
  <2>6. Len(Clean(f.list)) \in Nat
    BY <2>5
  <2>7. Strict(f.list) => Clean(f.list) = f.list
    BY <2>1, CleanSame
  <2>8. VersionOf(f.list, f.version) \in Versions \cup {0}
    BY <2>1, VersionIs
  <2>9. Len(Clean(f.list)) <= MaxList
    BY <2>1, <2>5, <2>6, TagsAre
  <2> QED
    BY <1>1, <2>3, <2>5, <2>7, <2>8, <2>9
<1>2. CASE ~Loads(f)
  <2>1. Listed(f, l, v).list = l /\ Listed(f, l, v).version = v
    BY <1>2 DEF Listed, ListDocument
  <2> QED
    BY <1>2, <2>1
<1> QED
  BY <1>1, <1>2

-----------------------------------------------------------------------------
(* The steps of the list *)

\* At first the list is empty and so is what the server has said.
LEMMA ListStart == Init => ListInv
<1> SUFFICES ASSUME Init PROVE ListInv
  OBVIOUS
<1>1. list = <<>> /\ version = 0 /\ server = Nothing /\ listFile \in Lost /\ ~up
  BY StorageAssumption DEF Init, Lost
<1>2. server.known = TRUE /\ server.info = NoEntries
  BY <1>1 DEF Nothing
<1>3. ListTypes
  <2>1. list \in Seq(Line) /\ Len(list) <= MaxList
    BY <1>1, TagsAre
  <2> QED
    BY <1>1, <1>2, <2>1, NothingAgrees DEF ListTypes, IsListFile
<1> QED
  BY <1>1, <1>2, <1>3 DEF ListInv, FileAgrees, Loads

\* A boot loads the list that the server knows.
LEMMA LoadListKeeps ==
    ASSUME ListInv, LoadList, up'
    PROVE  ListInv'
<1>1. /\ list' = Listed(listFile, <<>>, 0).list /\ version' = Listed(listFile, <<>>, 0).version
      /\ listFile' = AfterLoad(listFile) /\ server' = server
  BY DEF LoadList
<1>2. ListTypes
  BY DEF ListInv
<1>3. /\ IsListFile(listFile') /\ (Loads(listFile) => listFile' = listFile) /\ (Loads(listFile') <=> Loads(listFile))
  BY <1>1, <1>2, AfterLoadIs DEF ListTypes
<1>4. /\ list' \in Seq(Valid) /\ Len(list') <= MaxList /\ version' \in Versions \cup {0}
      /\ ~Loads(listFile) => list' = <<>> /\ version' = 0
      /\ Loads(listFile) /\ Strict(listFile.list) => list' = listFile.list /\ version' = VersionOf(listFile.list, listFile.version)
  <2>1. <<>> \in Seq(Valid) /\ Len(<<>>) <= MaxList /\ 0 \in Versions \cup {0}
    BY TagsAre
  <2> QED
    BY <1>1, <1>2, <2>1, ListedIs DEF ListTypes
<1>5. ListTypes'
  BY <1>1, <1>2, <1>3, <1>4, ValidIsLine DEF ListTypes
<1>6. ASSUME server.known PROVE FileAgrees' /\ ListAgrees'
  <2>1. FileAgrees
    BY <1>6 DEF ListInv
  <2>2. CASE Loads(listFile)
    <3>1. Agrees(listFile.list, server.info) /\ listFile.version = server.version
      BY <2>1, <2>2 DEF FileAgrees
    <3>2. Strict(listFile.list)
      BY <3>1 DEF Agrees
    <3> QED
      BY <1>1, <1>3, <1>4, <2>2, <3>1, <3>2 DEF FileAgrees, ListAgrees
  <2>3. CASE ~Loads(listFile)
    BY <1>1, <1>3, <1>4, <2>1, <2>3 DEF FileAgrees, ListAgrees
  <2> QED
    BY <2>2, <2>3
<1> QED
  BY <1>1, <1>5, <1>6 DEF ListInv

\* Power cuts take the list in RAM.
LEMMA ListCutKeeps ==
    ASSUME ListInv, ListCut, ~up'
    PROVE  ListInv'
<1>1. list' = <<>> /\ version' = 0 /\ listFile' = listFile /\ server' = server
  BY DEF ListCut, ListLost
<1>2. ListTypes'
  <2>1. <<>> \in Seq(Line) /\ Len(<<>>) <= MaxList
    BY TagsAre
  <2> QED
    BY <1>1, <2>1 DEF ListInv, ListTypes
<1>3. server.known => FileAgrees'
  BY <1>1 DEF ListInv, FileAgrees
<1> QED
  BY <1>1, <1>2, <1>3 DEF ListInv

\* The list that an update leads to.
LEMMA TargetIs ==
    ASSUME ListTypes, NEW differential \in BOOLEAN, NEW update \in Updates, ~Too(Length(differential, update))
    PROVE  Target(differential, update) \in Seq(Valid) /\ Len(Target(differential, update)) <= MaxList
<1>1. update \in Seq(Entry) /\ MaxList \in Nat
  BY ListAssumption
<1>2. CASE differential
  <2> DEFINE l == Amend(Scan(list, update), update)
  <2>1. list \in Seq(Line) /\ Len(list) <= MaxList /\ ~Too(Scan(list, update).length)
    BY <1>2 DEF ListTypes, Length
  <2>2. l \in Seq(Line) /\ Len(l) <= MaxList
    BY <1>1, <2>1, AmendFits
  <2>3. Target(differential, update) = Clean(l)
    BY <1>2 DEF Target
  <2> HIDE DEF l
  <2>4. Clean(l) \in Seq(Valid) /\ Len(Clean(l)) <= Len(l)
    BY <2>2, CleanIs
  <2>5. Len(l) \in Nat /\ Len(Clean(l)) \in Nat
    BY <2>2, <2>4
  <2> QED
    BY <1>1, <2>2, <2>3, <2>4, <2>5
<1>3. CASE ~differential
  <2>1. Target(differential, update) = Renewed(update) /\ ~Too(Len(update))
    BY <1>3 DEF Target, Length
  <2>2. Renewed(update) \in Seq(Valid) /\ Len(Renewed(update)) <= Len(update)
    BY <1>1, RenewedIs
  <2>3. Len(update) \in Nat /\ Len(Renewed(update)) \in Nat /\ Len(update) <= MaxList
    BY <1>1, <2>1, <2>2 DEF Too
  <2> QED
    BY <1>1, <2>1, <2>2, <2>3
<1> QED
  BY <1>2, <1>3

\* ... also while an update is written, and then the server does not know what became of it.
LEMMA UpdateIsCutKeeps ==
    ASSUME ListInv, UpdateIsCut, ~up'
    PROVE  ListInv'
<1>1. list' = <<>> /\ version' = 0 /\ server' = Unknown
  BY DEF UpdateIsCut, ListLost
<1>2. PICK differential \in BOOLEAN, v \in Versions, update \in Updates :
        /\ ~Too(Length(differential, update))
        /\ listFile' \in {Empty, Torn, ListDocument(Target(differential, update), v)}
  BY DEF UpdateIsCut
<1>3. Target(differential, update) \in Seq(Valid) /\ Len(Target(differential, update)) <= MaxList
  BY <1>2, TargetIs DEF ListInv
<1>4. IsListFile(listFile')
  BY <1>2, <1>3 DEF IsListFile, Lost
<1>5. server'.known = FALSE /\ server'.info = NoEntries
  BY <1>1 DEF Unknown
<1>6. ListTypes'
  <2>1. <<>> \in Seq(Line) /\ Len(<<>>) <= MaxList
    BY TagsAre
  <2> QED
    BY <1>1, <1>4, <1>5, <2>1, NothingAgrees DEF ListTypes
<1> QED
  BY <1>1, <1>5, <1>6 DEF ListInv

\* A refused update marks entries at most, and then the server no longer knows the list.
LEMMA ListTooLongKeeps ==
    ASSUME ListInv, up', NEW differential \in BOOLEAN, NEW v \in Versions, NEW update \in Updates,
           ListTooLong(differential, v, update)
    PROVE  ListInv'
<1>1. /\ list' = IF differential THEN Scan(list, update).list ELSE list
      /\ server' = IF list' = list THEN server ELSE Unknown
      /\ version' = version /\ listFile' = listFile /\ up
  BY DEF ListTooLong
<1>2. ListTypes /\ update \in Seq(Entry)
  BY ListAssumption DEF ListInv
<1>3. list' \in Seq(Line) /\ Len(list') <= MaxList
  <2> DEFINE s == Scan(list, update)
  <2>1. s.list \in Seq(Line) /\ Len(s.list) = Len(list)
    BY <1>2, ScanIs DEF Scanned, ListTypes, Scanning
  <2> HIDE DEF s
  <2> QED
    BY <1>1, <1>2, <2>1 DEF ListTypes, s
<1>4. Unknown.known = FALSE /\ Unknown.info = NoEntries
  BY DEF Unknown
<1>5. ListTypes'
  BY <1>1, <1>2, <1>3, <1>4, NothingAgrees DEF ListTypes
<1>6. CASE list' = list
  BY <1>1, <1>5, <1>6 DEF ListInv, FileAgrees, ListAgrees
<1>7. CASE list' # list
  BY <1>1, <1>4, <1>5, <1>7 DEF ListInv
<1> QED
  BY <1>6, <1>7
\* What the server has been told agrees with the list that its update leads to.
LEMMA TargetAgrees ==
    ASSUME ListInv, up, server.known, NEW v, NEW update \in Updates, Plain(update)
    PROVE  /\ Agrees(Target(TRUE, update), Applied(server, TRUE, v, update).info)
           /\ Applied(server, TRUE, v, update).info \in Infos
<1>1. update \in Seq(Entry) /\ server.info \in Infos
  BY ListAssumption DEF ListInv, ListTypes
<1>2. Says(update, server.info, Applied(server, TRUE, v, update).info)
  BY <1>1, AppliedSays
<1>3. Agrees(list, server.info)
  BY NothingAgrees DEF ListInv, FileAgrees, ListAgrees
<1>4. Target(TRUE, update) = Clean(Amend(Scan(list, update), update))
  BY DEF Target
<1> DEFINE old == server.info
           info == Applied(server, TRUE, v, update).info
<1> HIDE DEF old, info
<1>5. Says(update, old, info) /\ Agrees(list, old)
  BY <1>2, <1>3 DEF old, info
<1>6. Agrees(Clean(Amend(Scan(list, update), update)), info)
  BY <1>1, <1>5, AmendedAgrees
<1>7. info \in Infos
  BY <1>5 DEF Says
<1> QED
  BY <1>4, <1>6, <1>7 DEF info

\* The same of a list that is replaced.
LEMMA TargetRenews ==
    ASSUME ListTypes, NEW v, NEW update \in Updates, Plain(update)
    PROVE  /\ Agrees(Target(FALSE, update), Applied(server, FALSE, v, update).info)
           /\ Applied(server, FALSE, v, update).info \in Infos
<1>1. update \in Seq(Entry) /\ server.info \in Infos
  BY ListAssumption DEF ListTypes
<1>2. Says(update, NoEntries, Applied(server, FALSE, v, update).info)
  BY <1>1, AppliedSays
<1>3. Target(FALSE, update) = Renewed(update)
  BY DEF Target
<1> QED
  BY <1>1, <1>2, <1>3, RenewedAgrees DEF Says

\* What the server knows after an update that was applied.
LEMMA KnownIs ==
    ASSUME ListInv, up, NEW differential \in BOOLEAN, NEW v \in Versions, NEW update \in Updates,
           NEW k, k = Known(Applied(server, differential, v, update))
    PROVE  /\ k.known \in BOOLEAN /\ k.info \in Infos
           /\ k.known => k.version = v /\ Agrees(Target(differential, update), k.info)
<1> DEFINE a == Applied(server, differential, v, update)
<1>0. Unknown.known = FALSE /\ Unknown.info = NoEntries
  BY DEF Unknown
<1>1. a.known \in BOOLEAN /\ (a.known => (server.known \/ ~differential) /\ Plain(update)) /\ a.version = v
  BY DEF Applied
<1>2. k = IF a.known THEN a ELSE Unknown
  BY DEF Known
<1>3. CASE ~a.known
  BY <1>0, <1>2, <1>3, NothingAgrees
<1>4. CASE a.known
  <2>1. Plain(update) /\ (server.known \/ ~differential) /\ k = a
    BY <1>1, <1>2, <1>4
  <2>2. a.info \in Infos /\ Agrees(Target(differential, update), a.info)
    <3>1. CASE differential = TRUE
      BY <2>1, <3>1, TargetAgrees
    <3>2. CASE differential = FALSE
      BY <2>1, <3>2, TargetRenews DEF ListInv
    <3> QED
      BY <3>1, <3>2
  <2> HIDE DEF a
  <2> QED
    BY <1>1, <1>4, <2>1, <2>2
<1> QED
  BY <1>3, <1>4

\* An update that is stored is what RAM, flash and the server agree upon; after a failed
\* write the list in flash is loaded again, if there is one.
LEMMA UpdateListKeeps ==
    ASSUME ListInv, up', NEW differential \in BOOLEAN, NEW v \in Versions, NEW update \in Updates,
           NEW outcome \in Outcomes, UpdateList(differential, v, update, outcome)
    PROVE  ListInv'
<1> DEFINE l == Target(differential, update)
           f == Stored(outcome, listFile, ListDocument(l, v))
           ram == IF outcome = "ok" THEN ListDocument(l, VersionOf(l, v)) ELSE Fallback(f, l, VersionOf(l, v))
<1>1. /\ up /\ ~Too(Length(differential, update))
      /\ list' = ram.list /\ version' = ram.version /\ listFile' = AfterLoad(f)
      /\ server' = IF outcome = "ok" THEN Known(Applied(server, differential, v, update))
                   ELSE IF Loads(f) THEN server ELSE Unknown
  BY DEF UpdateList
<1>2. ListTypes
  BY DEF ListInv
<1>3. l \in Seq(Valid) /\ Len(l) <= MaxList
  BY <1>1, <1>2, TargetIs
<1>4. VersionOf(l, v) \in Versions \cup {0}
  BY VersionIs
<1>5. Unknown.known = FALSE /\ Unknown.info = NoEntries
  BY DEF Unknown
<1>6. CASE outcome = "ok"
  <2> DEFINE d == ListDocument(l, v)
  <2>1. f = d /\ list' = l /\ version' = VersionOf(l, v) /\ server' = Known(Applied(server, differential, v, update))
    BY <1>1, <1>6 DEF Stored, ListDocument
  <2>2. d \notin Lost /\ d.list = l /\ d.version = v
    BY <1>3, ListDocuments
  <2>3. IsListFile(d) /\ Loads(d)
    BY <1>3, <2>2 DEF IsListFile, Loads
  <2>4. listFile' = d
    BY <1>1, <2>1, <2>3, AfterLoadIs
  <2>5. /\ server'.known \in BOOLEAN /\ server'.info \in Infos
        /\ server'.known => server'.version = v /\ Agrees(l, server'.info)
    BY <1>1, <2>1, KnownIs
  <2> HIDE DEF l, d, f, ram
  <2>6. ListTypes'
    BY <1>3, <1>4, <2>1, <2>3, <2>4, <2>5, ValidIsLine DEF ListTypes
  <2>7. server'.known => FileAgrees' /\ ListAgrees'
    BY <2>1, <2>2, <2>3, <2>4, <2>5 DEF FileAgrees, ListAgrees
  <2> QED
    BY <2>6, <2>7 DEF ListInv
<1>7. CASE outcome # "ok"
  <2>1. f = listFile \/ f = Missing
    BY <1>7 DEF Stored
  <2>2. IsListFile(f)
    BY <1>2, <2>1 DEF IsListFile, ListTypes, Lost
  <2>3. list' = Listed(f, l, VersionOf(l, v)).list /\ version' = Listed(f, l, VersionOf(l, v)).version
    BY <1>1, <1>7 DEF Fallback
  <2>4. server' = IF Loads(f) THEN server ELSE Unknown
    BY <1>1, <1>7
  <2>5. Loads(f) => f = listFile
    BY <2>1 DEF Loads, Lost
  <2> HIDE DEF l, f, ram
  <2>6. /\ list' \in Seq(Valid) /\ Len(list') <= MaxList /\ version' \in Versions \cup {0}
        /\ Loads(f) /\ Strict(f.list) => list' = f.list /\ version' = VersionOf(f.list, f.version)
    BY <1>3, <1>4, <2>2, <2>3, ListedIs
  <2>7. IsListFile(listFile') /\ (Loads(f) => listFile' = f)
    BY <1>1, <2>2, AfterLoadIs
  <2>8. ListTypes'
    BY <1>2, <1>5, <2>4, <2>6, <2>7, ValidIsLine, NothingAgrees DEF ListTypes
  <2>9. ASSUME server'.known PROVE FileAgrees' /\ ListAgrees'
    <3>1. Loads(f) /\ server' = server /\ f = listFile /\ listFile' = f
      BY <1>5, <2>4, <2>5, <2>7, <2>9
    <3>2. FileAgrees
      BY <2>9, <3>1 DEF ListInv
    <3>3. Agrees(listFile.list, server.info) /\ listFile.version = server.version
      BY <3>1, <3>2 DEF FileAgrees
    <3>4. Strict(f.list)
      BY <3>1, <3>3 DEF Agrees
    <3> QED
      BY <2>6, <3>1, <3>3, <3>4 DEF FileAgrees, ListAgrees
  <2> QED
    BY <2>8, <2>9 DEF ListInv
<1> QED
  BY <1>6, <1>7

\* Steps of the others leave the list alone.
LEMMA ListUntouched ==
    ASSUME ListInv, UNCHANGED <<listVars, up>>
    PROVE  ListInv'
BY DEF ListInv, ListTypes, FileAgrees, ListAgrees, listVars

\* Every step keeps the invariant of the list.
LEMMA StepList == ListInv /\ [Next]_vars => ListInv'
<1> SUFFICES ASSUME ListInv, [Next]_vars PROVE ListInv'
  OBVIOUS
<1>1. CASE Boot
  BY <1>1, LoadListKeeps DEF Boot
<1>2. CASE PowerCut
  <2>1. ~up' /\ (ListCut \/ UpdateIsCut)
    BY <1>2 DEF PowerCut
  <2> QED
    BY <2>1, ListCutKeeps, UpdateIsCutKeeps
<1>3. CASE SettingsSteps /\ UNCHANGED <<listVars, meterVars, up>>
  BY <1>3, ListUntouched
<1>4. CASE ListSteps /\ UNCHANGED <<settingsVars, meterVars, up>>
  <2>1. PICK differential \in BOOLEAN, v \in Versions, update \in Updates :
          \/ ListTooLong(differential, v, update)
          \/ \E outcome \in Outcomes : UpdateList(differential, v, update, outcome)
    BY <1>4 DEF ListSteps
  <2>2. CASE ListTooLong(differential, v, update)
    <3>1. up'
      BY <1>4, <2>2 DEF ListTooLong
    <3> QED
      BY <2>2, <3>1, ListTooLongKeeps
  <2>3. CASE \E outcome \in Outcomes : UpdateList(differential, v, update, outcome)
    <3>1. PICK outcome \in Outcomes : UpdateList(differential, v, update, outcome)
      BY <2>3
    <3>2. up'
      BY <1>4, <3>1 DEF UpdateList
    <3> QED
      BY <3>1, <3>2, UpdateListKeeps
  <2> QED
    BY <2>1, <2>2, <2>3
<1>5. CASE MeterSteps /\ IF up' THEN UNCHANGED <<settingsVars, listVars>> ELSE SettingsCut /\ ListCut
  <2>1. CASE up'
    <3>1. up
      BY <1>5, <2>1 DEF MeterSteps, ConnectorLoop, MeteringLoop, EndTransaction, BeginTransaction, StartConf, StartLost,
                        StopRestored, StopConf
    <3> QED
      BY <1>5, <2>1, <3>1 DEF ListInv, ListTypes, FileAgrees, ListAgrees, listVars
  <2>2. CASE ~up'
    BY <1>5, <2>2, ListCutKeeps
  <2> QED
    BY <2>1, <2>2
<1>6. CASE UNCHANGED vars
  <2>1. UNCHANGED <<listVars, up>>
    BY <1>6 DEF vars
  <2> QED
    BY <2>1, ListUntouched
<1> QED
  BY <1>1, <1>2, <1>3, <1>4, <1>5, <1>6 DEF Next

\* The invariant behind InStep: as long as the server's updates are plain, a list in flash that can
\* be read is sorted and says what they say, and the list in RAM is that list; without such a file
\* both are empty.  (AuthorizationService::updateLocalList and loadLists)
THEOREM ListInvariant == Spec => []ListInv
<1>1. Init => ListInv
  BY ListStart
<1>2. ListInv /\ [Next]_vars => ListInv'
  BY StepList
<1> QED
  BY <1>1, <1>2, PTL DEF Spec

\* What the invariant says of every tag, and of the next boot.
LEMMA InvInStep == ListInv => InStep
<1> SUFFICES ASSUME ListInv, server.known PROVE InStep
  BY DEF InStep
<1> DEFINE again == Listed(listFile, <<>>, 0)
           v == IF server.info = NoEntries THEN 0 ELSE server.version
<1>1. IsListFile(listFile) /\ server.info \in Infos /\ FileAgrees /\ (up => ListAgrees)
  BY DEF ListInv, ListTypes
<1>2. <<>> \in Seq(Valid) /\ Len(<<>>) <= MaxList /\ 0 \in Versions \cup {0}
  BY TagsAre
\* The next boot.
<1>3. Agrees(again.list, server.info) /\ again.version = v
  <2>1. CASE Loads(listFile)
    <3>1. Agrees(listFile.list, server.info) /\ listFile.version = server.version
      BY <1>1, <2>1 DEF FileAgrees
    <3>2. Strict(listFile.list)
      BY <3>1 DEF Agrees
    <3>3. again.list = listFile.list /\ again.version = VersionOf(listFile.list, listFile.version)
      BY <1>1, <1>2, <2>1, <3>2, ListedIs
    <3>4. (listFile.list = <<>>) <=> (server.info = NoEntries)
      BY <1>1, <3>1, SaysNothing
    <3> QED
      BY <3>1, <3>3, <3>4 DEF VersionOf
  <2>2. CASE ~Loads(listFile)
    <3>1. again.list = <<>> /\ again.version = 0
      BY <1>1, <1>2, <2>2, ListedIs
    <3> QED
      BY <1>1, <2>2, <3>1, NothingAgrees DEF FileAgrees
  <2> QED
    BY <2>1, <2>2
\* What is in RAM is the same.
<1>4. ASSUME up PROVE again.list = list /\ version = v
  <2>1. CASE Loads(listFile)
    <3>1. Agrees(listFile.list, server.info) /\ listFile.version = server.version
      BY <1>1, <2>1 DEF FileAgrees
    <3>2. Strict(listFile.list)
      BY <3>1 DEF Agrees
    <3>3. again.list = listFile.list /\ again.version = VersionOf(listFile.list, listFile.version)
      BY <1>1, <1>2, <2>1, <3>2, ListedIs
    <3>4. list = listFile.list /\ version = VersionOf(list, listFile.version)
      BY <1>1, <1>4, <2>1 DEF ListAgrees
    <3> QED
      BY <1>3, <3>3, <3>4
  <2>2. CASE ~Loads(listFile)
    <3>1. again.list = <<>> /\ again.version = 0
      BY <1>1, <1>2, <2>2, ListedIs
    <3>2. list = <<>> /\ version = 0
      BY <1>1, <1>4, <2>2 DEF ListAgrees
    <3> QED
      BY <1>3, <3>1, <3>2
  <2> QED
    BY <2>1, <2>2
<1> HIDE DEF again, v
<1>5. ASSUME NEW t \in Tags
      PROVE  (IF Get(again.list, t) = 0 THEN Removed ELSE again.list[Get(again.list, t)].info) = server.info[t]
  BY <1>1, <1>3, AgreesFinds
<1>6. ASSUME up, NEW t \in Tags PROVE Authorization(t) = server.info[t] /\ ~Conflict(t, server.info[t])
  <2>1. Authorization(t) = server.info[t]
    BY <1>4, <1>5, <1>6 DEF Authorization
  <2> QED
    BY <2>1 DEF Conflict
<1> QED
  BY <1>3, <1>4, <1>5, <1>6 DEF InStep, again, v

\* As long as the server's updates are plain, the list says of every tag what the updates
\* that were accepted say, under their version, and the next boot brings back the same, over
\* refused updates, failing writes and power cuts between them.
\* (AuthorizationList::readJson and get, AuthorizationService::updateLocalList, loadLists)
THEOREM StaysInStep == Spec => []InStep
<1>1. ListInv => InStep
  BY InvInStep
<1> QED
  BY <1>1, ListInvariant, PTL

\* The types of the list follow from its invariant.
LEMMA InvListTypes == ListInv => ListTypeOK
<1> SUFFICES ASSUME ListInv PROVE ListTypeOK
  OBVIOUS
<1>1. ListTypes
  BY DEF ListInv
<1>2. list = <<>> => version = 0 \/ ~server.known
  BY DEF ListInv, ListAgrees, VersionOf
<1>3. listFile \in Lost \/ (listFile.list \in Seq(Entry) /\ listFile.version \in Versions)
  <2>1. CASE Loads(listFile)
    <3>1. listFile.list \in Seq(Valid) /\ listFile.version \in Versions
      BY <1>1, <2>1, FileHolds DEF ListTypes
    <3>2. /\ listFile.list = [i \in 1..Len(listFile.list) |-> listFile.list[i]] /\ Len(listFile.list) \in Nat
          /\ \A i \in 1..Len(listFile.list) : listFile.list[i] \in Valid
      BY <3>1
    <3>3. \A i \in 1..Len(listFile.list) : listFile.list[i] \in Entry
      BY <3>2, ValidAre
    <3> QED
      BY <3>1, <3>2, <3>3, SeqDef
  <2>2. CASE ~Loads(listFile)
    BY <2>2 DEF Loads
  <2> QED
    BY <2>1, <2>2
<1> QED
  BY <1>1, <1>2, <1>3 DEF ListTypeOK, ListTypes, Line

-----------------------------------------------------------------------------
(* Types *)

\* What is left of the types: the bounds, the sums of the containers, the keys that lost their
\* entry, and the transaction of the values that wait.
Rest ==
    /\ up \in BOOLEAN /\ budget \in [Operations -> Nat]
    /\ declared \subseteq Keys /\ orphan \subseteq declared
    /\ sum \in [Containers -> 0..(Revisions - 1)] /\ stale \in [Containers -> BOOLEAN]
    /\ transaction \in Sessions \cup {0}

\* What is spent leaves the budget a number for each operation.
LEMMA SpendType ==
    ASSUME budget \in [Operations -> Nat], NEW ops, ops \subseteq Operations, SpendAll(ops)
    PROVE  budget' \in [Operations -> Nat]
<1>1. \A op \in Operations : op \in ops => budget[op] - 1 \in Nat
  BY DEF SpendAll
<1>2. \A op \in Operations : (IF op \in ops THEN budget[op] - 1 ELSE budget[op]) \in Nat
  BY <1>1
<1> QED
  BY <1>2 DEF SpendAll

\* The same of an operation that stores,
LEMMA SpendForType ==
    ASSUME budget \in [Operations -> Nat], NEW op \in Operations, NEW outcome, SpendFor(op, outcome)
    PROVE  budget' \in [Operations -> Nat]
<1>1. {op} \subseteq Operations /\ {op, "fail"} \subseteq Operations
  BY FlashAssumption
<1> QED
  BY <1>1, SpendType DEF SpendFor

\* and of one that does not.
LEMMA SpendOneType ==
    ASSUME budget \in [Operations -> Nat], NEW op \in Operations, Spend(op)
    PROVE  budget' \in [Operations -> Nat]
BY SpendType DEF Spend

\* The operations of the budget.
LEMMA OperationsAre ==
    /\ "cut" \in Operations /\ "fail" \in Operations /\ "declare" \in Operations /\ "change" \in Operations
    /\ "local" \in Operations /\ "list" \in Operations /\ "session" \in Operations /\ "sample" \in Operations
BY FlashAssumption, SettingsAssumption, ListAssumption, MeterAssumption

\* A sum of revisions has their width.
LEMMA SumType ==
    ASSUME NEW f, NEW c \in Containers
    PROVE  RevisionSum(f, c) \in 0..(Revisions - 1)
<1>1. Total(f, c) \in Nat /\ Revisions \in Nat /\ Revisions > 0
  BY SumFinite, Sizes
<1> QED
  BY <1>1 DEF RevisionSum, Total

\* The types of the configuration that a save leaves.
LEMMA AnswerTypes ==
    ASSUME Rest, NEW f, NEW k, NEW v, NEW outcome, Answered(f, k, v, outcome)
    PROVE  sum' \in [Containers -> 0..(Revisions - 1)] /\ stale' \in [Containers -> BOOLEAN]
<1>1. sum' = [c \in Containers |-> RevisionSum(f, c)]
  BY DEF Answered, Save, Sums
<1>2. stale' = [c \in Containers |-> IF Changed(f, c) THEN outcome # "ok" ELSE stale[c]]
  BY DEF Answered, Save
<1>3. \A c \in Containers : (IF Changed(f, c) THEN outcome # "ok" ELSE stale[c]) \in BOOLEAN
  BY DEF Rest
<1> QED
  BY <1>1, <1>2, <1>3, SumType

\* The steps of the configuration.
LEMMA SettingsStepTypes ==
    ASSUME Rest, SettingsSteps, UNCHANGED <<transaction, up>>
    PROVE  Rest'
<1>1. ASSUME NEW k \in Keys, Declare(k) PROVE Rest'
  <2>1. budget' \in [Operations -> Nat]
    BY <1>1, SpendOneType, OperationsAre DEF Rest, Declare
  <2>2. declared' = declared \cup {k} /\ orphan' = orphan /\ sum' = sum
    BY <1>1 DEF Declare
  <2>3. stale' \in [Containers -> BOOLEAN]
    BY <1>1 DEF Rest, Declare
  <2> QED
    BY <2>1, <2>2, <2>3 DEF Rest
<1>2. ASSUME NEW k \in Keys, NEW outcome \in Outcomes, NEW t \in Texts, ChangeConfiguration(k, t, outcome) PROVE Rest'
  <2>1. budget' \in [Operations -> Nat]
    BY <1>2, SpendForType, OperationsAre DEF Rest, ChangeConfiguration
  <2>2. sum' \in [Containers -> 0..(Revisions - 1)] /\ stale' \in [Containers -> BOOLEAN]
    BY <1>2, AnswerTypes DEF ChangeConfiguration
  <2> QED
    BY <1>2, <2>1, <2>2 DEF Rest, ChangeConfiguration
<1>3. ASSUME NEW k \in Keys, NEW outcome \in Outcomes, NEW v \in BOOLEAN, LocalChange(k, v, outcome) PROVE Rest'
  <2>1. budget' \in [Operations -> Nat]
    BY <1>3, SpendForType, OperationsAre DEF Rest, LocalChange
  <2>2. sum' \in [Containers -> 0..(Revisions - 1)] /\ stale' \in [Containers -> BOOLEAN]
    BY <1>3, AnswerTypes DEF LocalChange
  <2> QED
    BY <1>3, <2>1, <2>2 DEF Rest, LocalChange
<1> QED
  BY <1>1, <1>2, <1>3 DEF SettingsSteps

\* The types of the configuration when RAM is lost ...
LEMMA SettingsLostTypes ==
    ASSUME SettingsLost
    PROVE  /\ declared' \subseteq Keys /\ orphan' \subseteq declared'
           /\ sum' \in [Containers -> 0..(Revisions - 1)] /\ stale' \in [Containers -> BOOLEAN]
<1>1. \A c \in Containers : 0 \in 0..(Revisions - 1)
  BY Sizes
<1> QED
  BY <1>1 DEF SettingsLost

\* ... and the boot has loaded.
LEMMA ConfigureTypes ==
    ASSUME Configure
    PROVE  /\ declared' \subseteq Keys /\ orphan' \subseteq declared'
           /\ sum' \in [Containers -> 0..(Revisions - 1)] /\ stale' \in [Containers -> BOOLEAN]
<1> DEFINE created == {c \in Containers : file[c] \in {Missing, Empty}}
           read == {c \in Containers : file[c] \notin Lost}
           f == [k \in Keys |-> IF Declared[k].file \in read
                                THEN Merged(Defaults, file[Declared[k].file])[k] ELSE Defaults[k]]
<1>1. /\ declared' = Early
      /\ orphan' = {k \in Early : f[k].type # Declared[k].type}
      /\ sum' = [c \in Containers |-> IF c \in created \cup read THEN RevisionSum(f, c) ELSE 0]
      /\ stale' = [c \in Containers |-> FALSE]
  BY Zenon DEF Configure
<1> HIDE DEF f
<1>2. \A c \in Containers : RevisionSum(f, c) \in 0..(Revisions - 1) /\ 0 \in 0..(Revisions - 1)
  BY SumType, Sizes
<1>3. Early \subseteq Keys
  BY DEF Early
<1> QED
  BY <1>1, <1>2, <1>3

\* The steps of the meter records.
LEMMA MeterStepTypes ==
    ASSUME Rest, tx \in Sessions \cup {0}, MeterSteps
    PROVE  up' \in BOOLEAN /\ budget' \in [Operations -> Nat] /\ transaction' \in Sessions \cup {0}
<1>1. ASSUME UNCHANGED up, ConnectorLoop PROVE budget' \in [Operations -> Nat] /\ transaction' = transaction
  <2>1. \/ UNCHANGED budget
        \/ \E outcome \in Outcomes : SpendFor("sample", outcome)
    BY <1>1 DEF ConnectorLoop, Idle, StopSilent, StartTx, StopTx
  <2> QED
    BY <1>1, <2>1, SpendForType, OperationsAre DEF Rest, ConnectorLoop
<1>2. ASSUME UNCHANGED up, MeteringLoop PROVE budget' \in [Operations -> Nat] /\ transaction' \in Sessions \cup {0}
  <2>1. CASE SendMeterValues \/ DropValues
    BY <2>1 DEF SendMeterValues, DropValues, Rest
  <2>2. CASE \E only \in InTxOnly, due, recorded \in 0..2, outcome \in Outcomes :
               TakeValues(only, due, recorded, outcome)
    <3>1. PICK only \in InTxOnly, due \in 0..2, recorded \in 0..2, outcome \in Outcomes :
            TakeValues(only, due, recorded, outcome)
      BY <2>2
    <3>2. transaction' = tx /\ (IF due > 0 THEN SpendFor("sample", outcome) ELSE UNCHANGED budget)
      BY <3>1 DEF TakeValues
    <3>3. UNCHANGED budget \/ SpendFor("sample", outcome)
      BY <3>2
    <3> QED
      BY <3>2, <3>3, SpendForType, OperationsAre DEF Rest
  <2> QED
    BY <1>2, <2>1, <2>2 DEF MeteringLoop
<1>3. ASSUME UNCHANGED up, EndTransaction PROVE UNCHANGED <<budget, transaction>>
  BY <1>3 DEF EndTransaction
<1>4. ASSUME NEW s \in Sessions, BeginTransaction(s) PROVE budget' \in [Operations -> Nat] /\ transaction' = transaction
  <2>1. Spend("session") /\ transaction' = transaction
    BY <1>4 DEF BeginTransaction
  <2> QED
    BY <2>1, SpendOneType, OperationsAre DEF Rest
<1>5. ASSUME NEW s \in Sessions, StartConf(s) \/ StopRestored(s) \/ StopConf(s) PROVE UNCHANGED <<budget, transaction, up>>
  BY <1>5 DEF StartConf, StopRestored, StopConf
<1>6. ASSUME NEW s \in Sessions, StartLost(s)
      PROVE  UNCHANGED budget /\ up' \in BOOLEAN /\ transaction' \in {0, transaction}
  BY <1>6 DEF StartLost, MeterLost, Rest
<1> QED
  BY <1>1, <1>2, <1>3, <1>4, <1>5, <1>6 DEF MeterSteps, Rest

\* Every step keeps these types, the session of the connector being one by MeterProofs.
LEMMA StepRest == Rest /\ Now /\ AtWork /\ [Next]_vars => Rest'
<1> SUFFICES ASSUME Rest, AtWork, [Next]_vars PROVE Rest'
  OBVIOUS
<1>1. CASE Boot
  <2>1. up' = TRUE /\ budget' = budget /\ Configure /\ transaction' = transaction
    BY <1>1 DEF Boot, MeterBoot
  <2> QED
    BY <2>1, ConfigureTypes DEF Rest
<1>2. CASE PowerCut
  <2>1. up' = FALSE /\ Spend("cut") /\ (SettingsCut \/ ChangeIsCut) /\ (MeterCut \/ RecordingIsCut)
    BY <1>2 DEF PowerCut
  <2>2. SettingsLost
    BY <2>1 DEF SettingsCut, ChangeIsCut, CutInSave
  <2>3. transaction' = 0
    BY <2>1 DEF MeterCut, RecordingIsCut, MeterLost
  <2>4. budget' \in [Operations -> Nat]
    BY <2>1, SpendOneType, OperationsAre DEF Rest
  <2> QED
    BY <2>1, <2>2, <2>3, <2>4, SettingsLostTypes DEF Rest
<1>3. CASE SettingsSteps /\ UNCHANGED <<listVars, meterVars, up>>
  BY <1>3, SettingsStepTypes DEF meterVars
<1>4. CASE ListSteps /\ UNCHANGED <<settingsVars, meterVars, up>>
  <2>1. PICK differential \in BOOLEAN, v \in Versions, update \in Updates :
          \/ ListTooLong(differential, v, update)
          \/ \E outcome \in Outcomes : UpdateList(differential, v, update, outcome)
    BY <1>4 DEF ListSteps
  <2>2. Spend("list") \/ \E outcome \in Outcomes : SpendFor("list", outcome)
    BY <2>1 DEF ListTooLong, UpdateList
  <2>3. budget' \in [Operations -> Nat]
    BY <2>2, SpendOneType, SpendForType, OperationsAre DEF Rest
  <2> QED
    BY <1>4, <2>3 DEF Rest, settingsVars, meterVars
<1>5. CASE MeterSteps /\ IF up' THEN UNCHANGED <<settingsVars, listVars>> ELSE SettingsCut /\ ListCut
  <2>1. up' \in BOOLEAN /\ budget' \in [Operations -> Nat] /\ transaction' \in Sessions \cup {0}
    BY <1>5, MeterStepTypes DEF AtWork
  <2>2. CASE up'
    BY <1>5, <2>1, <2>2 DEF Rest, settingsVars
  <2>3. CASE ~up'
    <3>1. SettingsLost
      BY <1>5, <2>3 DEF SettingsCut
    <3> QED
      BY <2>1, <3>1, SettingsLostTypes DEF Rest
  <2> QED
    BY <2>2, <2>3
<1>6. CASE UNCHANGED vars
  BY <1>6 DEF Rest, vars, settingsVars, meterVars
<1> QED
  BY <1>1, <1>2, <1>3, <1>4, <1>5, <1>6 DEF Next

\* The types of the initial state.
LEMMA RestStart == Init => Rest
<1> SUFFICES ASSUME Init PROVE Rest
  OBVIOUS
<1>1. up = FALSE /\ budget \in [Operations -> Nat] /\ transaction = 0
  BY StorageAssumption DEF Init, MeterInit
<1>2. /\ declared = {} /\ orphan = {}
      /\ sum = [c \in Containers |-> 0] /\ stale = [c \in Containers |-> FALSE]
  BY DEF Init
<1>3. \A c \in Containers : 0 \in 0..(Revisions - 1)
  BY Sizes
<1> QED
  BY <1>1, <1>2, <1>3 DEF Rest

\* The types of the state that the invariants do not name.
LEMMA RestAlways == Spec => []Rest
<1>1. Init => Rest
  BY RestStart
<1>2. Rest /\ Now /\ AtWork /\ [Next]_vars => Rest'
  BY StepRest
<1> QED
  BY <1>1, <1>2, MeterAlways, PTL DEF Spec

\* The types of the configuration: a value that fits is one of an entry.
LEMMA SettingsTypes == SettingsInv /\ Rest => SettingsTypeOK
<1> SUFFICES ASSUME SettingsInv, Rest PROVE SettingsTypeOK
  OBVIOUS
<1>1. \A e : e.type \in Types /\ FitVal(e.type, e.val) => IsEntry(e)
  <2>1. \A t \in Types : /\ t = "int" => Values(t) = Int
                         /\ t = "bool" => Values(t) = BOOLEAN
                         /\ t = "string" => Values(t) = Texts
    BY DEF Types, Values
  <2> HIDE DEF Values
  <2> QED
    BY <2>1 DEF IsEntry, FitVal, Suits, Types
<1>2. \A c \in Containers :
        file[c] \in Lost \/ (DOMAIN file[c] \subseteq In(c) /\ \A k \in DOMAIN file[c] : IsEntry(file[c][k]))
  BY <1>1 DEF SettingsInv, FilesFit, DocOf
<1>3. \A k \in Keys : conf[k] = NoEntry \/ (IsEntry(conf[k]) /\ conf[k].rev \in 0..(Revisions - 1))
  BY <1>1 DEF SettingsInv, Fits, IsConf
<1> QED
  BY <1>2, <1>3 DEF SettingsTypeOK, Rest

\* The types of the meter records, from the invariant of MeterProofs.
LEMMA MeterTypes == Now /\ AtWork /\ Rest => MeterTypeOK
<1> SUFFICES ASSUME Now, AtWork, Rest PROVE MeterTypeOK
  OBVIOUS
<1>1. /\ ses \in [Sessions -> Session] /\ journal \in Seq(Sessions) /\ Len(journal) <= RecordSize /\ nextNr \in TxNr
      /\ rec \in Recording /\ meterFile \in MeterFiles
  BY NowTypes
<1>2. \A nr \in TxNr, i \in Index : meterFile[nr][i] \in Lost \/ meterFile[nr][i] \in Value
  BY <1>1 DEF MeterFiles
<1>3. /\ rec.nr \in TxNr \cup {-1} /\ rec.mvCount \in 0..MaxData /\ Len(rec.txData) <= rec.mvCount + 1
      /\ rec.txData \in Seq(Value)
  BY <1>1 DEF Recording, NrOrNone
<1>4. Len(rec.txData) <= MaxData + 1
  BY <1>3, MeterConstants
<1>5. \A i \in DOMAIN meterData : meterData[i] \in Sessions \cup {0}
  BY DEF AtWork
<1>6. {tx, transaction} \subseteq Sessions \cup {0}
  BY DEF AtWork, Rest
<1> QED
  BY <1>1, <1>2, <1>3, <1>4, <1>5, <1>6 DEF MeterTypeOK

\* The state of the whole storage has its types, after every boot and power cut: entries their
\* declared ones, revisions their width, records and files their length.
\* (ConfigInt, AuthorizationList::readJson, TransactionMeterData::addTxData)
THEOREM StorageTypes == Spec => []TypeOK
<1>1. SettingsInv /\ ListInv /\ Now /\ AtWork /\ Rest => TypeOK
  BY SettingsTypes, InvListTypes, MeterTypes DEF TypeOK, Rest
<1> QED
  BY <1>1, SettingsInvariant, ListInvariant, MeterAlways, RestAlways, PTL

=============================================================================
