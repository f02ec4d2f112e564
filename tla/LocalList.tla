----------------------------- MODULE LocalList -----------------------------
(***************************************************************************)
(* The local authorization list: SendLocalList replaces or amends the list *)
(* that is searched by bisection, and stores it (AuthorizationList,        *)
(* AuthorizationService, SendLocalList).  Tags are numbers in the order of *)
(* strcmp; 0 is the empty tag that marks an entry for removal.             *)
(***************************************************************************)
EXTENDS Flash, SequencesExt

CONSTANTS
    Tags,        \* the tags
    Granted,     \* what an entry may say of its tag
    Removed,     \* what an entry without idTagInfo says
    Updates,     \* bound: the payloads of SendLocalList
    Versions,    \* bound: the list versions
    MaxList      \* MO_LocalAuthListMaxLength

Entry == [tag : Tags, info : Granted \cup {Removed}]

ASSUME ListAssumption ==
    /\ Tags \subseteq Nat \ {0} /\ Removed \notin Granted /\ Updates \subseteq Seq(Entry)
    /\ Versions \subseteq Nat \ {0} /\ MaxList \in Nat /\ "list" \in Operations
    \* The marks are no lists.
    /\ Lost \cap [list : Seq(Entry), version : Versions] = {}

VARIABLES
    list,        \* RAM: localAuthorizationList
    version,     \* RAM: listVersion
    listFile,    \* flash: localauth.jsn
    server       \* history: the list as the server's accepted updates make it

listVars == <<list, version, listFile, server>>

ListDocument(l, v) == [list |-> l, version |-> v]

-----------------------------------------------------------------------------
(* The list *)

\* Where the bisection still searches: from the first to the second of two places (from 0).
Windows(l) == (0..Len(l)) \X (-1..(Len(l) - 1))

\* Mutant: the bisection leaves out the last entry.
GetShort(l, tag) ==
    LET Search[w \in Windows(l)] ==
            LET lo == w[1]
                hi == w[2]
                m == (lo + hi) \div 2
            IN  IF lo >= hi THEN 0
                ELSE IF l[m + 1].tag < tag THEN Search[<<m + 1, hi>>]
                ELSE IF l[m + 1].tag > tag THEN Search[<<lo, m - 1>>]
                ELSE m + 1
    IN  Search[<<0, Len(l) - 1>>]

\* get: the place of a tag in the list, or 0.
Get(l, tag) ==
    LET Search[w \in Windows(l)] ==
            LET lo == w[1]
                hi == w[2]
                m == (lo + hi) \div 2
            IN  IF lo > hi THEN 0
                ELSE IF l[m + 1].tag < tag THEN Search[<<m + 1, hi>>]
                ELSE IF l[m + 1].tag > tag THEN Search[<<lo, m - 1>>]
                ELSE m + 1
    IN  Search[<<0, Len(l) - 1>>]

\* readJson, first pass of a differential update: every entry is looked up in the list in
\* which the entries to be removed are already marked.
Look(s, e) ==
    LET i == Get(s.list, e.tag)
        out == i > 0 /\ e.info = Removed
    IN  [list |-> IF out THEN [s.list EXCEPT ![i].tag = 0] ELSE s.list,
         index |-> Append(s.index, i),
         free |-> IF out THEN Append(s.free, i) ELSE s.free,
         length |-> s.length + (IF out THEN -1 ELSE IF i = 0 /\ e.info # Removed THEN 1 ELSE 0)]
Scan(l, update) ==
    FoldLeft(Look, [list |-> l, index |-> <<>>, free |-> <<>>, length |-> Len(l)], update)

\* Second pass: an entry is updated, takes the place of one that is removed, or is new.
Put(s, e, found) ==
    LET reuse == found = 0 /\ s.free # <<>>
        i == IF found > 0 THEN found ELSE IF reuse THEN Last(s.free) ELSE Len(s.list) + 1
    IN  IF e.info = Removed THEN s
        ELSE [list |-> IF i > Len(s.list) THEN Append(s.list, e) ELSE [s.list EXCEPT ![i] = e],
              free |-> IF reuse THEN Front(s.free) ELSE s.free]
Amend(scan, update) ==
    FoldLeft(LAMBDA s, k : Put(s, update[k], scan.index[k]),
             [list |-> scan.list, free |-> scan.free], [k \in DOMAIN update |-> k]).list

\* The entries of l at the places S, sorted by their tags; those with the same tag, which no
\* plain update leaves, stay in their order.
Earlier(l, i, j) == l[i].tag < l[j].tag \/ (l[i].tag = l[j].tag /\ i < j)
Ordered(l, S) ==
    [k \in 1..Cardinality(S) |-> l[CHOOSE i \in S : Cardinality({j \in S : Earlier(l, j, i)}) = k - 1]]

\* What is marked is erased and the rest sorted.
Clean(l) == Ordered(l, {i \in DOMAIN l : l[i].tag # 0})

\* A list that is replaced: the entries that say something, sorted.
Renewed(update) == Ordered(update, {i \in DOMAIN update : update[i].info # Removed})

\* Mutant: one entry too many.
TooLate(n) == n > MaxList + 1

Too(n) == n > MaxList

VersionOf(l, v) == IF l = <<>> THEN 0 ELSE v

\* loadLists: what is in RAM after it, and whether it found a list.
Listed(f, l, v) ==
    IF Loads(f) /\ ~Too(Len(f.list))
    THEN ListDocument(Clean(f.list), VersionOf(f.list, f.version)) ELSE ListDocument(l, v)

-----------------------------------------------------------------------------
(* What the server knows *)

NoEntries == [t \in Tags |-> Removed]
Unknown == [known |-> FALSE, version |-> 0, info |-> NoEntries]
Nothing == [known |-> TRUE, version |-> 0, info |-> NoEntries]

\* Updates that are applied as they read: the tags differ, and nothing is looked up in a list
\* in which an entry is already marked.
Plain(update) ==
    /\ \A i, j \in DOMAIN update : update[i].tag = update[j].tag => i = j
    /\ \A i \in DOMAIN update : update[i].info = Removed => i = Len(update)

Applied(s, differential, v, update) ==
    [known |-> (s.known \/ ~differential) /\ Plain(update),
     version |-> v,
     info |-> [t \in Tags |->
                 LET named == {i \in DOMAIN update : update[i].tag = t}
                 IN  IF named # {} THEN update[CHOOSE i \in named : TRUE].info
                     ELSE IF differential THEN s.info[t] ELSE Removed]]
Known(s) == IF s.known THEN s ELSE Unknown

-----------------------------------------------------------------------------
(* Operations *)

\* SendLocalList: the lists that a request leads to, if it is not refused for its version.
UpToDate(differential, v) == ~differential \/ version < v
Target(differential, update) ==
    IF differential THEN Clean(Amend(Scan(list, update), update)) ELSE Renewed(update)
Length(differential, update) == IF differential THEN Scan(list, update).length ELSE Len(update)

\* After a failed write, the list is loaded from flash again.
Fallback(f, l, v) == Listed(f, l, v)

\* A list that is too long is refused, when a differential update has already marked entries.
ListTooLong(differential, v, update) ==
    /\ up /\ Spend("list")
    /\ UpToDate(differential, v) /\ Too(Length(differential, update))
    /\ list' = IF differential THEN Scan(list, update).list ELSE list
    /\ server' = IF list' = list THEN server ELSE Unknown
    /\ UNCHANGED <<version, listFile>>

UpdateList(differential, v, update, outcome) ==
    LET l == Target(differential, update)
        f == Stored(outcome, listFile, ListDocument(l, v))
        ram == IF outcome = "ok" THEN ListDocument(l, VersionOf(l, v)) ELSE Fallback(f, l, VersionOf(l, v))
    IN  /\ up /\ SpendFor("list", outcome)
        /\ UpToDate(differential, v) /\ ~Too(Length(differential, update))
        /\ list' = ram.list /\ version' = ram.version
        /\ listFile' = AfterLoad(f)
        /\ server' = IF outcome = "ok" THEN Known(Applied(server, differential, v, update))
                     ELSE IF Loads(f) THEN server ELSE Unknown

\* getLocalAuthorization: what the list says of a tag.
Authorization(tag) == LET i == Get(list, tag) IN IF i = 0 THEN Removed ELSE list[i].info

\* notifyAuthorization: an answer of the server contradicts the list.
Conflict(tag, answer) == Authorization(tag) \notin {Removed, answer}

-----------------------------------------------------------------------------
(* Power *)

ListLost == list' = <<>> /\ version' = 0

\* The power is cut while the list is written, or before the request is answered.
UpdateIsCut ==
    /\ budget["list"] > 0
    /\ \E differential \in BOOLEAN, v \in Versions, update \in Updates :
        /\ UpToDate(differential, v) /\ ~Too(Length(differential, update))
        /\ listFile' \in {Empty, Torn, ListDocument(Target(differential, update), v)}
    /\ server' = Unknown
    /\ ListLost

LoadList ==
    LET ram == Listed(listFile, <<>>, 0)
    IN  /\ list' = ram.list /\ version' = ram.version
        /\ listFile' = AfterLoad(listFile)
        /\ UNCHANGED server

ListSteps ==
    \E differential \in BOOLEAN, v \in Versions, update \in Updates :
        \/ ListTooLong(differential, v, update)
        \/ \E outcome \in Outcomes : UpdateList(differential, v, update, outcome)

-----------------------------------------------------------------------------
(* Properties *)

ListTypeOK ==
    /\ list \in Seq([tag : Tags \cup {0}, info : Granted]) /\ Len(list) <= MaxList
    /\ version \in Versions \cup {0} /\ (list = <<>>) => (version = 0 \/ ~server.known)
    /\ listFile \in Lost \/ (listFile.list \in Seq(Entry) /\ listFile.version \in Versions)
    /\ server.known \in BOOLEAN

\* As long as the server's updates are plain, the list says of every tag what the updates
\* that were accepted say, under their version, and an answer that agrees with them is no
\* conflict; and the next boot brings back the same, over refused updates, failing writes and
\* power cuts between them.
\* (AuthorizationList::readJson and get, AuthorizationService::updateLocalList, loadLists)
InStep ==
    server.known =>
        LET again == Listed(listFile, <<>>, 0)
            v == IF server.info = NoEntries THEN 0 ELSE server.version
        IN  /\ again.version = v
            /\ up => again.list = list /\ version = v
            /\ \A t \in Tags :
                LET i == Get(again.list, t)
                IN  (IF i = 0 THEN Removed ELSE again.list[i].info) = server.info[t]
            /\ up => \A t \in Tags : Authorization(t) = server.info[t] /\ ~Conflict(t, server.info[t])

=============================================================================
