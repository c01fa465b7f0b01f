------------------------- MODULE ConfigurationManager -------------------------
(***************************************************************************)
(* The configuration of one process (src/core/configuration/manager.py)    *)
(* and the boot of its service provider (config_service_provider.py,       *)
(* cache.py).  The manager keeps configuration groups, the defaults that   *)
(* packages register, overrides set at run time, a cache of the answers of *)
(* get(), snapshots and a frozen flag.                                     *)
(*                                                                         *)
(* A group is represented by one field of it: the keys of overrides and    *)
(* cache are "group.field", written here as the group.  A group is an      *)
(* instance of a settings class ("model") or, loaded from a file of the    *)
(* old style, a plain dict, on which every method of the class is missing; *)
(* value NoValue is a class or dict without the field.                     *)
(*                                                                         *)
(* Each call is one step: the manager is synchronous, and load_from_path   *)
(* and boot suspend at nothing that another task changes.  A loop that     *)
(* meets an error after some groups is the call with a subset of them      *)
(* done.                                                                   *)
(*                                                                         *)
(* X_Y is the definition X with a slip in it; the README says which        *)
(* property each slip breaks.                                              *)
(***************************************************************************)
EXTENDS Naturals, Sequences, FiniteSets, Functions

CONSTANTS
  Groups,         \* names of configuration groups
  Values,         \* values of a field
  Mask,           \* what to_dict writes for a SecretStr: "***SECRET***"
  Secret,         \* the groups whose field is a SecretStr
  NoValue,        \* None, and the field that a class does not have
  Defaults,       \* the defaults callers pass to get
  FileGroups,     \* the groups that the files of the config directory define
  Dicts,          \* those of them written as `config = {...}`
  Production,     \* APP_ENV is "production"
  Calls,          \* the calls that the program makes
  MaxSnapshots    \* bound on snapshots kept

ConfigurationAssumption ==
  /\ Secret \subseteq Groups /\ FileGroups \subseteq Groups /\ Dicts \subseteq FileGroups
  /\ NoValue \notin Values /\ Mask \notin Values /\ Mask # NoValue
  /\ Production \in BOOLEAN /\ MaxSnapshots \in Nat

VARIABLES
  configs,    \* _configs: group -> entry
  defaults,   \* _defaults: group -> entry
  overrides,  \* _overrides: group -> value
  cache,      \* _cache: <<group, default>> -> value
  frozen,     \* _frozen
  snapshots,  \* _snapshots
  exported,   \* the JSON file of export_json: group -> value
  cacheFile,  \* bootstrap/cache/config.json exists
  event       \* what the last call told the on_change callbacks, if anything

vars == <<configs, defaults, overrides, cache, frozen, snapshots, exported,
          cacheFile, event>>

Entry == [kind : {"model", "dict"}, value : Values \cup {Mask, NoValue}]
Model(v) == [kind |-> "model", value |-> v]
Models(c) == {g \in DOMAIN c : c[g].kind = "model"}

Partial(S, T) == UNION {[D -> T] : D \in SUBSET S}
Empty == [g \in {} |-> NoValue]
NoEvent == <<>>
Over(f, g) == [x \in DOMAIN f \cup DOMAIN g |-> IF x \in DOMAIN g THEN g[x] ELSE f[x]]
With(f, x, v) == Over(f, [y \in {x} |-> v])

Init ==
  /\ configs = Empty /\ defaults = Empty /\ overrides = Empty /\ cache = Empty
  /\ frozen = FALSE /\ snapshots = <<>> /\ exported = Empty
  /\ cacheFile = FALSE /\ event = NoEvent

(***************************************************************************)
(* get                                                                     *)
(***************************************************************************)
\* what a lookup finds: the override, else the group's field, else the default
Lookup(g, d) ==
  IF g \in DOMAIN overrides THEN overrides[g]
  ELSE IF g \in DOMAIN configs /\ configs[g].value # NoValue THEN configs[g].value
  ELSE d

\* what get returns: the cached answer comes first
Answer(g, d) == IF <<g, d>> \in DOMAIN cache THEN cache[<<g, d>>] ELSE Lookup(g, d)

\* only an answer found by walking a group is cached
Remembered(g, d) ==
  IF <<g, d>> \in DOMAIN cache \/ g \in DOMAIN overrides \/ g \notin DOMAIN configs
  THEN cache ELSE With(cache, <<g, d>>, Lookup(g, d))

Get(g, d) ==
  /\ cache' = Remembered(g, d)
  /\ event' = NoEvent
  /\ UNCHANGED <<configs, defaults, overrides, frozen, snapshots, exported, cacheFile>>

(***************************************************************************)
(* Calls that refuse a frozen configuration                                *)
(***************************************************************************)
Invalidated_NotOnSet == IF DOMAIN overrides = {} THEN cache ELSE Empty
Invalidated == Empty

Register(g, e) ==
  /\ ~frozen
  /\ configs' = With(configs, g, e)
  /\ cache' = Invalidated
  /\ event' = NoEvent
  /\ UNCHANGED <<defaults, overrides, frozen, snapshots, exported, cacheFile>>

\* the listeners hear of the old answer and the new one, when they differ
Change_Swapped(g, v) ==
  IF Answer(g, NoValue) = v THEN NoEvent
  ELSE [key |-> g, old |-> v, new |-> Answer(g, NoValue)]
Change(g, v) ==
  IF Answer(g, NoValue) = v THEN NoEvent
  ELSE [key |-> g, old |-> Answer(g, NoValue), new |-> v]

SetOverride(g, v) ==
  /\ ~frozen
  /\ overrides' = With(overrides, g, v)
  /\ cache' = Invalidated
  /\ event' = Change(g, v)
  /\ UNCHANGED <<configs, defaults, frozen, snapshots, exported, cacheFile>>

MayForget(g) == ~frozen /\ g \in DOMAIN overrides

Forget(g) ==
  /\ MayForget(g)
  /\ overrides' = Restrict(overrides, DOMAIN overrides \ {g})
  /\ cache' = Invalidated
  /\ event' = NoEvent
  /\ UNCHANGED <<configs, defaults, frozen, snapshots, exported, cacheFile>>

ClearOverrides ==
  /\ ~frozen
  /\ overrides' = Empty
  /\ cache' = Invalidated
  /\ event' = NoEvent
  /\ UNCHANGED <<configs, defaults, frozen, snapshots, exported, cacheFile>>

\* config_class() anew: the field as the environment and the class give it;
\* for a dict, the empty dict
Rebuilt(e) ==
  IF e.kind = "dict" THEN {[e EXCEPT !.value = NoValue]}
  ELSE IF e.value = NoValue THEN {e} ELSE {Model(v) : v \in Values}

Refresh(S) ==
  /\ ~frozen
  /\ \E new \in [S -> UNION {Rebuilt(configs[g]) : g \in S}] :
        /\ \A g \in S : new[g] \in Rebuilt(configs[g])
        /\ configs' = Over(configs, new)
  /\ cache' = Invalidated
  /\ event' = NoEvent
  /\ UNCHANGED <<defaults, overrides, frozen, snapshots, exported, cacheFile>>

(***************************************************************************)
(* Snapshots                                                               *)
(***************************************************************************)
\* model_dump of every group: a dict group makes the call raise
Snapshot ==
  /\ Len(snapshots) < MaxSnapshots
  /\ Models(configs) = DOMAIN configs
  /\ snapshots' = Append(snapshots, [configs |-> configs, overrides |-> overrides])
  /\ event' = NoEvent
  /\ UNCHANGED <<configs, defaults, overrides, cache, frozen, exported, cacheFile>>

ClearSnapshots ==
  /\ snapshots' = <<>>
  /\ event' = NoEvent
  /\ UNCHANGED <<configs, defaults, overrides, cache, frozen, exported, cacheFile>>

\* model_validate of the field's value by the group's present class, which
\* ignores a field it does not have and fills in one that is not given
Validated(e, v) ==
  IF e.value = NoValue THEN {e}
  ELSE IF v = NoValue THEN {Model(w) : w \in Values} ELSE {Model(v)}

\* the groups S, and no others, validated anew from data
Revalidated(S, data) ==
  \E new \in [S -> UNION {Validated(configs[g], data[g]) : g \in S}] :
     /\ \A g \in S : new[g] \in Validated(configs[g], data[g])
     /\ configs' = Over(configs, new)

SavedValues(i) == [g \in DOMAIN snapshots[i].configs |-> snapshots[i].configs[g].value]

RollbackDone(i) ==
  /\ ~frozen
  /\ DOMAIN SavedValues(i) \subseteq Models(configs)
  /\ overrides' = snapshots[i].overrides
  /\ Revalidated(DOMAIN SavedValues(i), SavedValues(i))
  /\ cache' = Invalidated
  /\ event' = NoEvent
  /\ UNCHANGED <<defaults, frozen, snapshots, exported, cacheFile>>

\* a group has become a dict since: the call raises with the overrides and
\* some groups restored, and the cache as it was
RollbackFails(i) ==
  /\ ~frozen
  /\ ~ DOMAIN SavedValues(i) \subseteq Models(configs)
  /\ overrides' = snapshots[i].overrides
  /\ \E done \in SUBSET (DOMAIN SavedValues(i) \cap Models(configs)) :
        Revalidated(done, SavedValues(i))
  /\ event' = NoEvent
  /\ UNCHANGED <<defaults, cache, frozen, snapshots, exported, cacheFile>>

(***************************************************************************)
(* Calls that do not look at the frozen flag                               *)
(***************************************************************************)
Freeze ==
  /\ ~frozen /\ frozen' = TRUE
  /\ event' = NoEvent
  /\ UNCHANGED <<configs, defaults, overrides, cache, snapshots, exported, cacheFile>>

Unfreeze ==
  /\ frozen /\ frozen' = FALSE
  /\ event' = NoEvent
  /\ UNCHANGED <<configs, defaults, overrides, cache, snapshots, exported, cacheFile>>

\* a default stands in for a group that is not there
RegisterDefault(g, e) ==
  /\ defaults' = With(defaults, g, e)
  /\ configs' = Over([x \in {g} |-> e], configs)
  /\ event' = NoEvent
  /\ UNCHANGED <<overrides, cache, frozen, snapshots, exported, cacheFile>>

\* default.merge(user): the default's class with the user's values
Merged_DefaultWins(c, g) == Model(defaults[g].value)
Merged(c, g) == Model(IF c[g].value = NoValue THEN defaults[g].value ELSE c[g].value)
Mergeable(c) == DOMAIN defaults \cap Models(c)
AfterMerge(c, S) == [g \in DOMAIN c |-> IF g \in S THEN Merged(c, g) ELSE c[g]]

\* merge_defaults: a dict group stops the loop
MergeDefaults ==
  /\ \E done \in SUBSET Mergeable(configs) :
        /\ DOMAIN defaults \cap DOMAIN configs \subseteq Models(configs) => done = Mergeable(configs)
        /\ configs' = AfterMerge(configs, done)
  /\ event' = NoEvent
  /\ UNCHANGED <<defaults, overrides, cache, frozen, snapshots, exported, cacheFile>>

\* the groups that the files of S give, whatever is registered under the names
FromFiles(S) ==
  {f \in [S -> Entry] :
     \A g \in S : f[g].kind = (IF g \in Dicts THEN "dict" ELSE "model") /\ f[g].value \in Values}

\* load_from_path: a file that fails to execute ends the loop
Load ==
  /\ \E S \in SUBSET FileGroups : \E new \in FromFiles(S) : configs' = Over(configs, new)
  /\ event' = NoEvent
  /\ UNCHANGED <<defaults, overrides, cache, frozen, snapshots, exported, cacheFile>>

\* export_json writes to_dict of every group, which a dict does not have
Dumped(g) == IF g \in Secret /\ configs[g].value # NoValue THEN Mask ELSE configs[g].value

Export ==
  /\ Models(configs) = DOMAIN configs
  /\ exported' = [g \in DOMAIN configs |-> Dumped(g)]
  /\ event' = NoEvent
  /\ UNCHANGED <<configs, defaults, overrides, cache, frozen, snapshots, cacheFile>>

Known == DOMAIN exported \cap DOMAIN configs

ImportDone ==
  /\ Known \subseteq Models(configs)
  /\ Revalidated(Known, exported)
  /\ cache' = Invalidated
  /\ event' = NoEvent
  /\ UNCHANGED <<defaults, overrides, frozen, snapshots, exported, cacheFile>>

\* the exception is printed and swallowed, the cache stays
ImportFails ==
  /\ ~ Known \subseteq Models(configs)
  /\ \E done \in SUBSET (Known \cap Models(configs)) : Revalidated(done, exported)
  /\ event' = NoEvent
  /\ UNCHANGED <<defaults, overrides, cache, frozen, snapshots, exported, cacheFile>>

(***************************************************************************)
(* The provider's boot, and the end of the process                         *)
(***************************************************************************)
\* a production boot that finds the cache file reads it and returns
BootFromCache ==
  /\ Production /\ cacheFile
  /\ event' = NoEvent
  /\ UNCHANGED <<configs, defaults, overrides, cache, frozen, snapshots, exported, cacheFile>>

\* otherwise it loads the files, of which classes that cannot be made are
\* skipped, merges the defaults, freezes and writes the cache file
BootFromFiles ==
  /\ ~(Production /\ cacheFile)
  /\ \E S \in SUBSET FileGroups : \E new \in FromFiles(S) :
        LET loaded == Over(configs, new) IN
        /\ DOMAIN defaults \cap DOMAIN loaded \subseteq Models(loaded)
        /\ Production => Models(loaded) = DOMAIN loaded
        /\ configs' = AfterMerge(loaded, Mergeable(loaded))
  /\ frozen' = (frozen \/ Production)
  /\ cacheFile' = (cacheFile \/ Production)
  /\ event' = NoEvent
  /\ UNCHANGED <<defaults, overrides, cache, snapshots, exported>>

\* it fails at a file that raises, at a dict to merge a default with, or at
\* a dict to write into the cache file, and leaves what it did before
BootFails ==
  /\ ~(Production /\ cacheFile)
  /\ \E S \in SUBSET FileGroups : \E new \in FromFiles(S) :
        LET loaded == Over(configs, new)
            mergeable == DOMAIN defaults \cap DOMAIN loaded \subseteq Models(loaded) IN
        \/ configs' = loaded /\ UNCHANGED frozen
        \/ /\ ~mergeable
           /\ \E done \in SUBSET Mergeable(loaded) : configs' = AfterMerge(loaded, done)
           /\ UNCHANGED frozen
        \/ /\ mergeable /\ Production /\ Models(loaded) # DOMAIN loaded
           /\ configs' = AfterMerge(loaded, Mergeable(loaded))
           /\ frozen' = TRUE
  /\ event' = NoEvent
  /\ UNCHANGED <<defaults, overrides, cache, snapshots, exported, cacheFile>>

\* the process ends and another starts: the files stay
Restart ==
  /\ configs' = Empty /\ defaults' = Empty /\ overrides' = Empty /\ cache' = Empty
  /\ frozen' = FALSE /\ snapshots' = <<>> /\ event' = NoEvent
  /\ UNCHANGED <<exported, cacheFile>>

Next ==
  \/ \E g \in Groups, d \in Defaults : Get(g, d)
  \/ "register" \in Calls /\ \E g \in Groups, v \in Values \cup {NoValue} : Register(g, Model(v))
  \/ "set" \in Calls /\ \E g \in Groups :
        Forget(g) \/ \E v \in Values : SetOverride(g, v)
  \/ "set" \in Calls /\ ClearOverrides
  \/ "refresh" \in Calls /\ (Refresh(DOMAIN configs) \/ \E g \in DOMAIN configs : Refresh({g}))
  \/ "snapshot" \in Calls /\ (Snapshot \/ ClearSnapshots)
  \/ "snapshot" \in Calls /\ \E i \in 1 .. Len(snapshots) : RollbackDone(i) \/ RollbackFails(i)
  \/ "freeze" \in Calls /\ (Freeze \/ Unfreeze)
  \/ "defaults" \in Calls /\ (MergeDefaults \/ \E g \in Groups, v \in Values : RegisterDefault(g, Model(v)))
  \/ "load" \in Calls /\ Load
  \/ "export" \in Calls /\ (Export \/ ImportDone \/ ImportFails)
  \/ "boot" \in Calls /\ (BootFromCache \/ BootFromFiles \/ BootFails \/ Restart)

Spec == Init /\ [][Next]_vars

(***************************************************************************)
(* Properties                                                              *)
(***************************************************************************)
Answers == Values \cup {Mask, NoValue} \cup Defaults

TypeOK ==
  /\ configs \in Partial(Groups, Entry) /\ defaults \in Partial(Groups, Entry)
  /\ overrides \in Partial(Groups, Values)
  /\ cache \in Partial(Groups \X Defaults, Answers)
  /\ frozen \in BOOLEAN /\ cacheFile \in BOOLEAN
  /\ Len(snapshots) \leq MaxSnapshots
  /\ \A i \in DOMAIN snapshots :
        snapshots[i].configs \in Partial(Groups, Entry) /\ snapshots[i].overrides \in Partial(Groups, Values)
  /\ exported \in Partial(Groups, Values \cup {Mask, NoValue})
  /\ event = NoEvent \/ event \in [key : Groups, old : Answers, new : Values]

\* get() never answers from a cache that a lookup would contradict
\* (_invalidate_cache in every call that changes groups or overrides)
CacheIsCurrent == \A k \in DOMAIN cache : cache[k] = Lookup(k[1], k[2])

\* an event tells the truth: the old value is what a lookup found before the
\* call, the new one what it finds after (set, _fire_change)
TellsTruth ==
  \A g \in Groups :
    event' # NoEvent /\ event' # event /\ event'.key = g =>
      /\ event'.old = Lookup(g, NoValue)
      /\ event'.new = Lookup(g, NoValue)'
      /\ event'.old # event'.new
EventsAreTrue == [][TellsTruth]_vars
\* a default stands back: neither register_default() nor merge_defaults()
\* changes a setting that a group has, whatever the order of the calls
YieldsDefaults ==
  MergeDefaults \/ (\E g \in Groups, v \in Values : RegisterDefault(g, Model(v))) =>
    \A g \in Models(configs) : configs[g].value # NoValue => configs'[g] = configs[g]
DefaultsYield == [][YieldsDefaults]_vars

==============================================================================
