------------------------------ MODULE Environment ------------------------------
(***************************************************************************)
(* Environment variables (src/core/configuration/environment.py): what     *)
(* .env files and the system say, interpolation, the cache of get(), the   *)
(* typed getters, snapshots and freezing.  A text is a word that is good   *)
(* for some types, or a reference to a key; files are read again by        *)
(* reload() and may have changed, gone or broken meanwhile.                *)
(***************************************************************************)
EXTENDS Naturals, Sequences, SequencesExt, Functions, FiniteSets, TLC

CONSTANTS
    Keys,
    Asked, Settings,    \* calls: <<key, type>> of get(), <<key, text>> of set()
    Files, Contents,    \* contents: sequences of [key, text], as the lines of a file
    System,             \* os.environ: key -> text
    Override,           \* override=
    MaxLoaded,          \* files loaded since the last reload()
    NoFile, Broken      \* a file that is not there, that cannot be read

EnvironmentAssumption ==
    /\ {NoFile, Broken} \cap Contents = {} /\ Override \in BOOLEAN
    /\ MaxLoaded \in Nat /\ DOMAIN System \subseteq Keys
    /\ Asked \subseteq Keys \X {"str", "bool", "int"}

VARIABLES
    values, cache, loaded, frozen,
    disk,           \* file -> its contents
    saved,          \* a snapshot() the caller keeps
    reads           \* a load_file() was the last call (history)

vars == <<values, cache, loaded, frozen, disk, saved, reads>>

Word(w) == [is |-> "word", of |-> w]
Ref(k) == [is |-> "ref", of |-> k]

TypeOK ==
    /\ DOMAIN values \subseteq Keys /\ DOMAIN saved \subseteq Keys
    /\ DOMAIN cache \subseteq Asked
    /\ loaded \in Seq(Files) /\ frozen \in BOOLEAN /\ reads \in BOOLEAN
    /\ disk \in [Files -> Contents \cup {NoFile, Broken}]

-----------------------------------------------------------------------------

\* _parse_env_content(): the later of two lines counts.
Parsed(content) ==
    [k \in {content[i].key : i \in DOMAIN content} |->
        content[SelectLastInSeq(content, LAMBDA line : line.key = k)].text]

KeysOf(content) ==
    FoldLeft(LAMBDA s, line : IF Contains(s, line.key) THEN s ELSE Append(s, line.key), <<>>, content)

\* What a text refers to: the keys of the file go before those known already;
\* a reference to a key that nobody knows stays as it is.
Referent(text, result, known) ==
    IF text.is = "ref" /\ text.of \in DOMAIN result THEN result[text.of]
    ELSE IF text.is = "ref" /\ text.of \in DOMAIN known THEN known[text.of]
    ELSE text

Rounds == [n \in 1..10 |-> n]

\* _interpolate_values(): rounds over the keys of the file.
Interpolated(content, known) ==
    LET Round(result) == FoldLeft(LAMBDA r, k : [r EXCEPT ![k] = Referent(r[k], r, known)],
                                  result, KeysOf(content))
    IN  FoldLeft(LAMBDA result, n : Round(result), Parsed(content), Rounds)

\* What the values become by a file.
Merged(known, content) ==
    IF Override THEN Interpolated(content, known) @@ known ELSE known @@ Interpolated(content, known)

\* The calls of _cast_to_type() and of the typed getters: a word that is not
\* of the type is False or 0 to the first, the default to the others.
Fits(text, type) ==
    \/ type = "str"
    \/ type = "bool" /\ text \in {Word("1"), Word("off")}
    \/ type = "int" /\ text = Word("1")

Cast(text, type) == IF Fits(text, type) THEN <<type, text>> ELSE <<type, "zero">>

Typed(k, type, default) ==
    IF k \in DOMAIN values /\ Fits(values[k], type) THEN <<type, values[k]>> ELSE default

Got(k, type, default) ==
    IF <<k, type>> \in DOMAIN cache THEN cache[<<k, type>>]
    ELSE IF k \notin DOMAIN values THEN default
    ELSE Cast(values[k], type)

-----------------------------------------------------------------------------

Empty == [x \in {} |-> 0]

\* What every change leaves of the cache.
Uncached_Kept == cache
Uncached == Empty

Init ==
    /\ values = System /\ cache = Empty /\ loaded = <<>> /\ frozen = FALSE
    /\ disk = [f \in Files |-> NoFile]
    /\ saved = Empty /\ reads = FALSE

Get(k, type) ==
    /\ k \in DOMAIN values
    /\ cache' = (<<k, type>> :> Got(k, type, NoFile)) @@ cache
    /\ reads' = FALSE
    /\ UNCHANGED <<values, loaded, frozen, disk, saved>>

\* set(), unset(), clear() and rollback().
Becomes(new) ==
    /\ ~ frozen
    /\ values' = new /\ cache' = Uncached /\ reads' = FALSE
    /\ UNCHANGED <<loaded, frozen, disk, saved>>

Set(k, text) == Becomes((k :> text) @@ values)
Unset(k) == k \in DOMAIN values /\ Becomes(Restrict(values, DOMAIN values \ {k}))
Clear == Becomes(Empty)
Rollback == Becomes(saved)

Snapshot ==
    /\ saved' = values /\ reads' = FALSE
    /\ UNCHANGED <<values, cache, loaded, frozen, disk>>

Freeze ==
    /\ frozen' = ~ frozen /\ reads' = FALSE
    /\ UNCHANGED <<values, cache, loaded, disk, saved>>

Readable(f) == disk[f] \notin {NoFile, Broken}

\* load_file() does not ask whether the environment is frozen; a file that is
\* broken changes nothing.
LoadFile(f) ==
    /\ Readable(f) /\ Len(loaded) < MaxLoaded
    /\ values' = Merged(values, disk[f]) /\ cache' = Uncached
    /\ loaded' = Append(loaded, f)
    /\ reads' = TRUE
    /\ UNCHANGED <<frozen, disk, saved>>

Load(f) == ~ frozen /\ LoadFile(f)

\* reload() forgets everything and reads the system and, up to the first that
\* is broken, the files again that are still there.
Reread ==
    LET upto == SelectInSeq(loaded, LAMBDA f : disk[f] = Broken)
    IN  SelectSeq(IF upto = 0 THEN loaded ELSE SubSeq(loaded, 1, upto - 1), Readable)

Reload ==
    /\ ~ frozen
    /\ values' = FoldLeft(LAMBDA known, f : Merged(known, disk[f]), System, Reread)
    /\ loaded' = Reread
    /\ cache' = Uncached /\ reads' = FALSE
    /\ UNCHANGED <<frozen, disk, saved>>

DiskChanges(f, content) ==
    /\ disk' = [disk EXCEPT ![f] = content] /\ reads' = FALSE
    /\ UNCHANGED <<values, cache, loaded, frozen, saved>>

Next ==
    \/ \E call \in Asked : Get(call[1], call[2])
    \/ \E call \in Settings : Set(call[1], call[2]) \/ Unset(call[1])
    \/ Clear \/ Snapshot \/ Rollback \/ Freeze \/ Reload
    \/ \E f \in Files : LoadFile(f) \/ Load(f)
    \/ \E f \in Files, content \in Contents \cup {NoFile, Broken} : DiskChanges(f, content)

Spec == Init /\ [][Next]_vars

-----------------------------------------------------------------------------

\* The text at the end of the references that start at a key.
Chain(content, k) ==
    LET step[n \in Nat] == IF n = 0 THEN Parsed(content)[k]
                           ELSE Referent(step[n - 1], Parsed(content), values)
    IN  step[Cardinality(Keys) + 1]

\* get() never answers from its cache what the variable no longer says,
\* whatever was set, loaded, rolled back or read again; it agrees with the
\* typed getters on every text that is of the type; and a reference in a file
\* ends at the word at the end of its chain.
EnvironmentIsCurrent ==
    /\ \A k \in Keys, type \in {"str", "bool", "int"} :
        /\ <<k, type>> \in DOMAIN cache => k \in DOMAIN values
        /\ k \in DOMAIN values /\ Fits(values[k], type) =>
            Got(k, type, NoFile) = Typed(k, type, Broken)
    /\ \A content \in Contents : \A k \in DOMAIN Parsed(content) :
        Chain(content, k).is = "word" => Interpolated(content, values)[k] = Chain(content, k)

\* A frozen environment does not change, load_file() excepted.
StaysFrozen == frozen /\ frozen' /\ ~ reads' => values' = values
FrozenStays == [][StaysFrozen]_vars
===============================================================================
