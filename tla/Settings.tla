------------------------------ MODULE Settings ------------------------------
(***************************************************************************)
(* The configuration: keys that the services declare with a factory        *)
(* default, in containers of which some are files in flash, and that the   *)
(* server reads and changes (Configuration, ConfigurationContainerFlash,   *)
(* ConfigurationKeyValue, ChangeConfiguration, GetConfiguration).          *)
(*                                                                         *)
(* A key is declared before the containers are loaded (by the services     *)
(* that mocpp_initialize creates) or later (by those that are created when *)
(* they are first used).                                                   *)
(***************************************************************************)
EXTENDS Flash

CONSTANTS
    NoEntry,       \* a key that a container does not have
    Keys,          \* the keys, as declared by this firmware:
    Declared,      \*   [type, default, file, readOnly, late, accepts] of each
    Containers,    \* the files
    Public,        \* those of them that the server sees
    Texts,         \* values of a request: the number, the word and the length of a text
    MaxText,       \* the length of the longest text that is stored
    Revisions,     \* the number of revisions there are, 2^16
    StoredBefore   \* the files that an older firmware may have left

Types == {"int", "bool", "string"}
Values(type) == CASE type = "int" -> Int [] type = "bool" -> BOOLEAN [] type = "string" -> Texts
IsEntry(e) == e.type \in Types /\ e.val \in Values(e.type) /\ (e.type = "string" => e.val.size <= MaxText)

In(c) == {k \in Keys : Declared[k].file = c}

\* What entries and files look like.
AnyText == [numeric : BOOLEAN, number : Int, word : {"true", "false", "other"}, size : Nat]
AnyValue == Int \cup BOOLEAN \cup AnyText
Entries == [type : Types, rev : 0..(Revisions - 1), val : AnyValue]
Documents(K) == [K -> [type : Types, val : AnyValue]]

\* Defaults fit, and so does what an older firmware stored; a container has far fewer keys than
\* there are revisions (MAX_CONFIGURATIONS is 50).
ASSUME SettingsAssumption ==
    /\ Public \subseteq Containers /\ Revisions \in Nat /\ MaxText \in Nat
    /\ IsFiniteSet(Keys) /\ \A c \in Containers : Cardinality(In(c)) + 1 < Revisions
    /\ {"declare", "change", "local"} \subseteq Operations
    /\ Texts \subseteq AnyText
    /\ \A k \in Keys :
        /\ IsEntry([type |-> Declared[k].type, val |-> Declared[k].default])
        /\ Declared[k].file \in Containers /\ Declared[k].readOnly \in BOOLEAN
        /\ Declared[k].late \in BOOLEAN /\ Declared[k].accepts \subseteq Texts
    /\ \A stored \in StoredBefore :
        /\ DOMAIN stored = Containers
        /\ \A c \in Containers :
            \/ stored[c] \in Lost
            \/ DOMAIN stored[c] \subseteq In(c) /\ \A k \in DOMAIN stored[c] : IsEntry(stored[c][k])
    \* The marks are no entries and no documents.
    /\ NoEntry \notin Entries
    /\ \A K \in SUBSET Keys, mark \in Lost : mark \notin Documents(K)

VARIABLES
    file,       \* flash: the containers' files
    conf,       \* RAM: the entries of the containers, with their revisions
    declared,   \* RAM: the keys that have been declared since the boot
    orphan,     \* RAM: declared keys of which the declarer holds an entry that was removed
    sum,        \* RAM: revisionSum of each container
    stale,      \* history: a container has entries that are not in flash and its sum may not show it:
                \*   its last write failed, or an entry was replaced by one of another type
    promise     \* history: the value of a key that the server was last told to be accepted

settingsVars == <<file, conf, declared, orphan, sum, stale, promise>>

NoPromise == {}

-----------------------------------------------------------------------------
(* Entries: ConfigInt, ConfigBool, ConfigString *)

Up(n) == (n + 1) % Revisions

\* Mutant: a text is replaced without a new revision.
SetKept(e, v) == [e EXCEPT !.val = v]

\* setInt, setBool, setString: a text that is not new or too long leaves the entry as it is.
Set(e, v) ==
    IF e.type = "string" /\ (v = e.val \/ v.size > MaxText) THEN e
    ELSE [e EXCEPT !.val = v, !.rev = Up(@)]

NoText == [numeric |-> FALSE, number |-> 0, word |-> "other", size |-> 0]
Blank(type) ==
    [type |-> type, rev |-> 0,
     val |-> CASE type = "int" -> 0 [] type = "bool" -> FALSE [] type = "string" -> NoText]

\* A new entry with its first value.
New(type, v) == Set(Blank(type), v)

\* The value that a text stands for, if any.
IsBool(t) == t.word # "other" \/ t.numeric
Converts(type, t) ==
    CASE type = "int" -> t.numeric [] type = "bool" -> IsBool(t) [] type = "string" -> TRUE
Parsed(type, t) ==
    CASE type = "int" -> t.number
      [] type = "bool" -> t.word = "true" \/ (t.word = "other" /\ t.number # 0)
      [] type = "string" -> t

-----------------------------------------------------------------------------
(* Containers *)

\* configurationsUpdated: the revisions of a container, added up (as a set that has rev elements
\* for each entry).
Revised(f, c) ==
    {p \in In(c) \X (1..(Revisions - 1)) : f[p[1]] # NoEntry /\ p[2] <= f[p[1]].rev}
RevisionSum(f, c) == Cardinality(Revised(f, c)) % Revisions

Sums(f) == [c \in Containers |-> RevisionSum(f, c)]
Changed(f, c) == RevisionSum(f, c) # sum[c]
Document(f, c) ==
    [k \in {j \in In(c) : f[j] # NoEntry} |-> [type |-> f[k].type, val |-> f[k].val]]

\* configuration_save of the entries f, every store with the same outcome.
Save(f, outcome) ==
    /\ conf' = f
    /\ sum' = Sums(f)
    /\ file' = [c \in Containers |->
                  IF Changed(f, c) THEN Stored(outcome, file[c], Document(f, c)) ELSE file[c]]
    /\ stale' = [c \in Containers |-> IF Changed(f, c) THEN outcome # "ok" ELSE stale[c]]
Saved(f, outcome) == outcome = "ok" \/ \A c \in Containers : ~Changed(f, c)

\* Promises that a write which removed the file takes with it.
Standing(p, f, outcome) ==
    [k \in Keys |-> IF Changed(f, Declared[k].file) /\ outcome = "unwritten" THEN NoPromise ELSE p[k]]

\* load: what is stored replaces the factory defaults, and an entry of another type.
Merged(f, doc) ==
    [k \in Keys |->
        IF k \notin DOMAIN doc THEN f[k]
        ELSE IF f[k] = NoEntry \/ f[k].type # doc[k].type THEN New(doc[k].type, doc[k].val)
        ELSE Set(f[k], doc[k].val)]

-----------------------------------------------------------------------------
(* Operations *)

\* declareConfiguration of a key before the containers are loaded ...
Early == {k \in Keys : ~Declared[k].late}
Defaults == [k \in Keys |-> IF k \in Early THEN New(Declared[k].type, Declared[k].default) ELSE NoEntry]

\* ... and configuration_load: a file that is missing or empty is created, one that is
\* not valid is left alone.
Configure ==
    LET created == {c \in Containers : file[c] \in {Missing, Empty}}
        read == {c \in Containers : file[c] \notin Lost}
        loaded(c) == Merged(Defaults, file[c])
        f == [k \in Keys |-> IF Declared[k].file \in read THEN loaded(Declared[k].file)[k] ELSE Defaults[k]]
    IN  /\ conf' = f
        /\ declared' = Early
        /\ orphan' = {k \in Early : f[k].type # Declared[k].type}
        /\ sum' = [c \in Containers |-> IF c \in created \cup read THEN RevisionSum(f, c) ELSE 0]
        /\ file' = [c \in Containers |-> IF c \in created /\ RevisionSum(f, c) # 0
                                          THEN Document(f, c) ELSE file[c]]
        /\ stale' = [c \in Containers |-> FALSE]
        /\ UNCHANGED promise

\* declareConfiguration later, or once more: an entry is used if it has the type, else replaced.
Typed(k) == conf[k] # NoEntry /\ conf[k].type = Declared[k].type

Declare(k) ==
    /\ up /\ Spend("declare")
    /\ k \notin declared \/ ~Typed(k)
    /\ declared' = declared \cup {k}
    /\ conf' = IF Typed(k) THEN conf
               ELSE [conf EXCEPT ![k] = New(Declared[k].type, Declared[k].default)]
    /\ promise' = IF Typed(k) THEN promise ELSE [promise EXCEPT ![k] = NoPromise]
    /\ stale' = IF conf[k] = NoEntry \/ Typed(k) THEN stale
                ELSE [stale EXCEPT ![Declared[k].file] = TRUE]
    /\ UNCHANGED <<file, orphan, sum>>

\* ChangeConfiguration: the requests that are neither rejected nor not supported, the
\* entries after them, and the answer.
Accepts(k, t) ==
    /\ Declared[k].file \in Public /\ conf[k] # NoEntry
    /\ ~(k \in declared /\ Declared[k].readOnly)
    /\ t \in Declared[k].accepts /\ Converts(conf[k].type, t)

Changing(k, t) == [conf EXCEPT ![k] = Set(@, Parsed(@.type, t))]

\* A text that is too long, or a value that is not written because the revisions add up to the
\* same as at the last write, is answered like one that was stored.
Stores(f, k, v) == f[k].val = v /\ (Changed(f, Declared[k].file) \/ ~stale[Declared[k].file])

\* The new value is saved and answered.
Answered(f, k, v, outcome) ==
    /\ Save(f, outcome)
    /\ promise' = [Standing(promise, f, outcome) EXCEPT
                     ![k] = IF Saved(f, outcome) /\ Stores(f, k, v) THEN {v} ELSE NoPromise]

ChangeConfiguration(k, t, outcome) ==
    /\ up /\ SpendFor("change", outcome)
    /\ Accepts(k, t)
    /\ Answered(Changing(k, t), k, Parsed(conf[k].type, t), outcome)
    /\ UNCHANGED <<declared, orphan>>

\* A service changes a flag of its own and saves (Connector::setAvailability).
Own(k) == k \in declared \ orphan /\ Declared[k].file \notin Public /\ Declared[k].type = "bool"
Setting(k, v) == [conf EXCEPT ![k] = Set(@, v)]

LocalChange(k, v, outcome) ==
    /\ up /\ SpendFor("local", outcome)
    /\ Own(k)
    /\ Answered(Setting(k, v), k, v, outcome)
    /\ UNCHANGED <<declared, orphan>>

\* GetConfiguration: the value that the server is told.
Told(k) == conf[k].val

-----------------------------------------------------------------------------
(* Power *)

SettingsLost ==
    /\ conf' = [k \in Keys |-> NoEntry] /\ declared' = {} /\ orphan' = {}
    /\ sum' = [c \in Containers |-> 0]
    /\ stale' = [c \in Containers |-> FALSE]

\* The power is cut while container c is written, or before the request is answered.
CutInSave(f, k, c) ==
    /\ Changed(f, c)
    /\ \E doc \in {Empty, Torn, Document(f, c)} :
        /\ file' = [file EXCEPT ![c] = doc]
        /\ promise' = [j \in Keys |-> IF j = k \/ (j \in In(c) /\ doc \in Lost)
                                        THEN NoPromise ELSE promise[j]]
    /\ SettingsLost

ChangeIsCut ==
    \E k \in Keys, c \in Containers :
        \/ budget["change"] > 0 /\ \E t \in Texts : Accepts(k, t) /\ CutInSave(Changing(k, t), k, c)
        \/ budget["local"] > 0 /\ Own(k) /\ \E v \in BOOLEAN : CutInSave(Setting(k, v), k, c)

-----------------------------------------------------------------------------
(* Properties *)

SettingsTypeOK ==
    /\ \A c \in Containers :
        file[c] \in Lost \/ (DOMAIN file[c] \subseteq In(c) /\ \A k \in DOMAIN file[c] : IsEntry(file[c][k]))
    /\ \A k \in Keys :
        conf[k] = NoEntry \/ (IsEntry(conf[k]) /\ conf[k].rev \in 0..(Revisions - 1))
    /\ declared \subseteq Keys /\ orphan \subseteq declared
    /\ sum \in [Containers -> 0..(Revisions - 1)] /\ stale \in [Containers -> BOOLEAN]

\* The value that the next boot brings back.
Recalled(k) ==
    LET f == file[Declared[k].file]
    IN  IF Loads(f) /\ k \in DOMAIN f THEN f[k].val ELSE Declared[k].default

\* A value that the server was told is accepted is the one it is told when it asks, and the
\* one that the next boot brings back, over power cuts, failing writes and boots, until it
\* is changed again; only a write that fails half-way takes it away.
\* (ChangeConfiguration::processReq, ConfigurationContainerFlash::load and save)
Kept ==
    \A k \in Keys : \A v \in promise[k] :
        Recalled(k) = v /\ (up /\ conf[k] # NoEntry => Told(k) = v)

=============================================================================
