----------------------------- MODULE AssetStore -----------------------------
(***************************************************************************)
(* The two-tier Performance Asset store of crates/asset-store/src/lib.rs:  *)
(* L1, the descriptor files under a root and the validated index of them;  *)
(* L0, the hot cache, in which static assets are pinned and generated ones *)
(* are evicted least recently used first.  Files are also edited by others *)
(* (an author, a build step) and the process may stop and start again      *)
(* between any two operations and within a preload or a persist, the two   *)
(* operations that touch several files or touch one twice.                 *)
(*                                                                         *)
(* A descriptor is its id, whether its provenance says generated, and its  *)
(* version, which stands for the identity (schema, compiler and model      *)
(* fields) and decides compatibility with the runtime.  The use ticks of   *)
(* hot_usage are unique and only ever compared, so `recency' keeps the ids *)
(* in the order of their last use.  Hit, miss and eviction counters and    *)
(* use counts are left out.                                                *)
(***************************************************************************)
EXTENDS Integers, Sequences, FiniteSets, FiniteSetsExt

CONSTANTS
    Ids,            \* asset ids, ordered as the strings are
    Versions,       \* identities a descriptor may have
    Usable,         \* the versions compatible with the runtime
    GroupOf,        \* id -> variant group
    SizeOf,         \* id -> estimate_asset_bytes
    MaxDynamic,     \* max_dynamic_assets
    MaxBytes,       \* max_dynamic_bytes
    MaxMetadata,    \* max_promotion_metadata
    MaxTime,        \* bound on the logical time of a noted use
    MaxEdits        \* bound on the edits others make to files

StoreAssumption ==
    /\ Ids \subseteq Nat \ {0} /\ IsFiniteSet(Ids)
    /\ Usable \subseteq Versions
    /\ SizeOf \in [Ids -> Nat]
    /\ {MaxDynamic, MaxBytes, MaxMetadata, MaxTime, MaxEdits} \subseteq Nat

Descriptors == [id : Ids, generated : BOOLEAN, version : Versions]
NoFile == [id |-> 0, generated |-> FALSE, version |-> "no file"]
BadFile == [NoFile EXCEPT !.version = "bad"]   \* load_asset_file fails
Paths == Ids \cup {0}    \* <id>.json for every id, and a path of another name

VARIABLES
    files,     \* the descriptor files under the root
    local,     \* the L1 index: id -> [path, version]
    cache,     \* L0: hot, pinned_ids and the order of use
    loading,   \* the ids a preload has yet to resolve
    saving,    \* the id a persist is at work on, and its next step
    meta,      \* promotion_metadata: id -> last_used_at_ms
    edits,     \* edits made by others so far
    touched,   \* history: paths edited by others since they were indexed
    inserted,  \* history: ids inserted by a caller since the last index
    dead       \* history: ids invalidated and not provided again

storeVars == <<files, local, cache, loading, saving, meta, edits, touched, inserted, dead>>

Empty == <<>>
Quiet == [id |-> 0, step |-> "none"]   \* nothing is being persisted

Put(f, key, value) == [k \in DOMAIN f \cup {key} |-> IF k = key THEN value ELSE f[k]]

\* insert_hot: an asset that is not generated is pinned; ids stay pinned.
PinnedNow(pins, d) == IF d.generated THEN pins ELSE pins \cup {d.id}

\* AssetStore::new, followed by the index_local of the files found.
StoreInit ==
    /\ files = [p \in Paths |-> NoFile]
    /\ local = Empty /\ meta = Empty
    /\ cache = [hot |-> Empty, pinned |-> {}, recency |-> <<>>]
    /\ loading = {} /\ saving = Quiet
    /\ edits = 0 /\ touched = {} /\ inserted = {} /\ dead = {}

-----------------------------------------------------------------------------
(* The hot cache                                                           *)

\* A use gets the next tick.
Touch(recency, id) == Append(SelectSeq(recency, LAMBDA i : i # id), id)

Without(f, S) == Restrict(f, DOMAIN f \ S)

Bytes(hot) == FoldSet(LAMBDA id, sum : SizeOf[id] + sum, 0, DOMAIN hot)

Dynamic(c) == DOMAIN c.hot \ c.pinned

\* The unpinned assets used before this one.
Older(c, id) ==
    {i \in Dynamic(c) : \E m, n \in DOMAIN c.recency :
        m < n /\ c.recency[m] = i /\ c.recency[n] = id}

\* evict_dynamic_to_capacity: unpinned assets, least recently used first, until
\* the count fits; then until all hot bytes fit, but for the last one.
Evict(c) ==
    LET size == Cardinality(Dynamic(c))
        first(k) == {id \in Dynamic(c) : Cardinality(Older(c, id)) < k}
        fits(k) == \/ Bytes(Without(c.hot, first(k))) <= MaxBytes
                   \/ k >= size - 1
        victims == first(Min({k \in Max({0, size - MaxDynamic})..size : fits(k)}))
    IN [c EXCEPT !.hot = Without(@, victims),
                 !.recency = SelectSeq(@, LAMBDA i : i \notin victims)]

\* insert_hot of a valid and compatible asset.
Insert(c, d) ==
    Evict([hot |-> Put(c.hot, d.id, d),
           pinned |-> PinnedNow(c.pinned, d),
           recency |-> Touch(c.recency, d.id)])

HotGet(c, id) == [c EXCEPT !.recency = Touch(@, id)]

\* AssetCompatibility::check: the versions of a descriptor fit the runtime.
Compatible(version) == version \in Usable

\* resolve_with_tier: an indexed descriptor is read again, and must still have
\* the id and the identity that were indexed.
Reload(id) ==
    /\ files[local[id].path] \in Descriptors
    /\ files[local[id].path].id = id
    /\ files[local[id].path].version = local[id].version
    /\ Compatible(local[id].version)

Resolvable(c, id) == id \in DOMAIN c.hot \/ (id \in DOMAIN local /\ Reload(id))

Resolve(c, id) ==
    IF id \in DOMAIN c.hot THEN HotGet(c, id) ELSE Insert(c, files[local[id].path])

-----------------------------------------------------------------------------
(* Operations                                                              *)

IndexOf(p) == [path |-> p, version |-> files[p].version]
Present == {p \in Paths : files[p] # NoFile}

\* index_local refuses the whole index for one bad or duplicate descriptor.
Indexable ==
    /\ \A p \in Present : files[p] # BadFile
    /\ \A p, q \in Present : files[p].id = files[q].id => p = q

Indexed ==
    [id \in {files[p].id : p \in Present} |->
        IndexOf(CHOOSE p \in Present : files[p].id = id)]

\* index_local drops the hot assets whose indexed identity has changed.
Retained(hot) ==
    Restrict(hot, {id \in DOMAIN hot :
        id \in DOMAIN Indexed => Indexed[id].version = hot[id].version})

\* index_local; on an error nothing changes.
IndexLocal ==
    /\ Indexable
    /\ local' = Indexed
    /\ cache' = [cache EXCEPT !.hot = Retained(@)]
    /\ touched' = {} /\ inserted' = {}
    /\ UNCHANGED <<files, saving, meta, edits, dead>>

InsertHot(d) ==
    /\ Compatible(d.version)
    /\ cache' = Insert(cache, d)
    /\ inserted' = inserted \cup {d.id}
    /\ dead' = dead \ {d.id}
    /\ UNCHANGED <<files, local, saving, meta, edits, touched>>

\* persist_generated_descriptor: the checks, the last of which is that there is
\* no file of the asset's name.
PersistStart(id) ==
    /\ id \in DOMAIN cache.hot /\ cache.hot[id].generated
    /\ id \notin DOMAIN local /\ files[id] = NoFile
    /\ cache' = HotGet(cache, id)
    /\ saving' = [id |-> id, step |-> "rename"]
    /\ UNCHANGED <<files, local, meta, edits, touched, inserted, dead>>

\* The temporary file is written and synced, and renamed to its final name,
\* where it replaces what others have put there since the check.
PersistRename ==
    /\ saving.step = "rename"
    /\ files' = [files EXCEPT ![saving.id] = cache.hot[saving.id]]
    /\ saving' = [saving EXCEPT !.step = "index"]
    /\ UNCHANGED <<local, cache, meta, edits, touched, inserted, dead>>

\* Creating, writing, syncing or renaming fails.  The temporary file may stay:
\* no index reads it, and the next attempt truncates it.
PersistFails ==
    /\ saving.step = "rename"
    /\ saving' = Quiet
    /\ UNCHANGED <<files, local, cache, meta, edits, touched, inserted, dead>>

\* The index entry, made from the descriptor in memory.
PersistIndex ==
    /\ saving.step = "index"
    /\ local' = Put(local, saving.id,
                    [path |-> saving.id, version |-> cache.hot[saving.id].version])
    /\ saving' = Quiet
    /\ UNCHANGED <<files, cache, meta, edits, touched, inserted, dead>>

\* The store is borrowed until the persist returns: only the files may change
\* meanwhile, and the process may stop.
PersistNext == (PersistRename \/ PersistFails \/ PersistIndex) /\ UNCHANGED loading

\* persist_generated_descriptor and apply, refused after the hot lookup.
PersistRefused(id) ==
    /\ id \in DOMAIN cache.hot
    /\ ~cache.hot[id].generated \/ id \in DOMAIN local \/ files[id] # NoFile
    /\ cache' = HotGet(cache, id)
    /\ UNCHANGED <<files, local, saving, meta, edits, touched, inserted, dead>>

\* The provenance check of invalidate_generated_asset.
Invalidatable(id) ==
    IF id \in DOMAIN local
    THEN files[local[id].path] \in Descriptors /\ files[local[id].path].generated
    ELSE id \in DOMAIN cache.hot /\ cache.hot[id].generated

\* No file but the indexed one carries the id.
OnlyIndexed(id) ==
    \A p \in Present : (files[p] # BadFile /\ files[p].id = id)
                        => id \in DOMAIN local /\ local[id].path = p

\* Mutant: only the L1 copy is removed.
InvalidateLocalOnly(id) ==
    /\ Invalidatable(id)
    /\ files' = IF id \in DOMAIN local
                THEN [files EXCEPT ![local[id].path] = NoFile] ELSE files
    /\ local' = Without(local, {id})
    /\ cache' = cache
    /\ dead' = IF OnlyIndexed(id) THEN dead \cup {id} ELSE dead
    /\ inserted' = inserted \ {id}
    /\ UNCHANGED <<saving, meta, edits, touched>>

\* invalidate_generated_asset: file, index entry and hot asset.
Invalidate(id) ==
    /\ Invalidatable(id)
    /\ files' = IF id \in DOMAIN local
                THEN [files EXCEPT ![local[id].path] = NoFile] ELSE files
    /\ local' = Without(local, {id})
    /\ cache' = [cache EXCEPT
           !.hot = Without(@, {id}),
           !.recency = IF id \in DOMAIN local THEN @ ELSE Touch(@, id)]
    /\ dead' = IF OnlyIndexed(id) THEN dead \cup {id} ELSE dead
    /\ inserted' = inserted \ {id}
    /\ UNCHANGED <<saving, meta, edits, touched>>

ResolveId(id) ==
    /\ Resolvable(cache, id)
    /\ cache' = Resolve(cache, id)
    /\ UNCHANGED <<files, local, saving, meta, edits, touched, inserted, dead>>

\* preload_compatible and preload_classes: usable entries (of some classes) in
\* id order, up to the first error.  The store is borrowed meanwhile, so only
\* the files may change and the process may stop.
PreloadStart ==
    /\ \E ids \in SUBSET {id \in DOMAIN local : Compatible(local[id].version)} :
          ids # {} /\ loading' = ids
    /\ UNCHANGED <<files, local, cache, saving, meta, edits, touched, inserted, dead>>

PreloadNext ==
    \E id \in loading :
        /\ \A i \in loading : id <= i
        /\ IF Resolvable(cache, id)
           THEN cache' = Resolve(cache, id) /\ loading' = loading \ {id}
           ELSE loading' = {} /\ UNCHANGED cache
        /\ UNCHANGED <<files, local, saving, meta, edits, touched, inserted, dead>>

\* select_variant_id: compatible members of the group in either tier, without
\* the recently used ones unless that leaves none.  The hash is any choice.
Members(c, group) ==
    {id \in DOMAIN c.hot \cup {i \in DOMAIN local : local[i].version \in Usable} :
        GroupOf[id] = group}

Candidates(c, group, used) ==
    IF Members(c, group) \subseteq used
    THEN Members(c, group) ELSE Members(c, group) \ used

\* select_variant_with_tier, whatever was used recently.
SelectVariant(group) ==
    \E id \in UNION {Candidates(cache, group, used) : used \in SUBSET Ids} : ResolveId(id)

\* evict_promotion_metadata_to_capacity: the oldest by time, then by id, go.
EvictMeta(m) ==
    LET newer(id) == {i \in DOMAIN m : m[i] > m[id] \/ (m[i] = m[id] /\ i > id)}
    IN Restrict(m, {id \in DOMAIN m : Cardinality(newer(id)) < MaxMetadata})

\* note_hot_use, for an id that need not be hot any more.
NoteHotUse(id, at) ==
    /\ cache' = [cache EXCEPT !.recency = Touch(@, id)]
    /\ meta' = EvictMeta(Put(meta, id, at))
    /\ UNCHANGED <<files, local, saving, edits, touched, inserted, dead>>

-----------------------------------------------------------------------------
(* The environment                                                         *)

\* Others write, replace or remove a descriptor file.
Edit(p, content) ==
    /\ edits < MaxEdits
    /\ content # files[p]
    /\ files' = [files EXCEPT ![p] = content]
    /\ edits' = edits + 1
    /\ touched' = touched \cup {p}
    /\ dead' = IF content \in Descriptors THEN dead \ {content.id} ELSE dead
    /\ UNCHANGED <<local, cache, loading, saving, meta, inserted>>

\* The process stops and starts: memory is gone, the files are indexed again
\* (a failing index ends the start; preloading is PreloadStart).
Restart ==
    /\ Indexable
    /\ local' = Indexed
    /\ cache' = [hot |-> Empty, pinned |-> {}, recency |-> <<>>]
    /\ loading' = {} /\ saving' = Quiet /\ meta' = Empty
    /\ touched' = {} /\ inserted' = {}
    /\ UNCHANGED <<files, edits, dead>>

StoreNext ==
    \/ Restart
    \/ \E p \in Paths, content \in Descriptors \cup {NoFile, BadFile} : Edit(p, content)
    \/ PersistNext
    \/ saving = Quiet /\ PreloadNext
    \/ /\ saving = Quiet /\ loading = {}
       /\ \/ PreloadStart
          \/ /\ \/ IndexLocal
                \/ \E d \in Descriptors : InsertHot(d)
                \/ \E id \in Ids : \/ PersistStart(id) \/ PersistRefused(id)
                                   \/ Invalidate(id) \/ ResolveId(id)
                                   \/ \E at \in 0..MaxTime : NoteHotUse(id, at)
                \/ \E group \in Range(GroupOf) : SelectVariant(group)
             /\ UNCHANGED loading

StoreSpec == StoreInit /\ [][StoreNext]_storeVars

-----------------------------------------------------------------------------
(* Properties                                                              *)

StoreTypeOK ==
    /\ files \in [Paths -> Descriptors \cup {NoFile, BadFile}]
    /\ DOMAIN local \subseteq Ids
    /\ \A id \in DOMAIN local : local[id] \in [path : Paths, version : Versions]
    /\ DOMAIN cache.hot \subseteq Ids /\ cache.pinned \subseteq Ids
    /\ \A id \in DOMAIN cache.hot : cache.hot[id] \in Descriptors /\ cache.hot[id].id = id
    /\ DOMAIN cache.hot \subseteq Range(cache.recency) /\ IsInjective(cache.recency)
    /\ Cardinality(DOMAIN meta) <= MaxMetadata
    /\ saving = Quiet \/ saving \in [id : DOMAIN cache.hot, step : {"rename", "index"}]

\* Static and preloaded assets are never evicted by the churn of generated ones
\* (the doc of HotCacheConfig): a hot asset that is not generated leaves L0
\* only when it is replaced, when a reindex finds another identity for it,
\* when its id is invalidated, or with the process.
StaticStep ==
    \A id \in DOMAIN cache.hot :
        \/ cache.hot[id].generated
        \/ id \in DOMAIN cache'.hot
        \/ IndexLocal \/ Restart \/ Invalidate(id)
StaticStays == [][StaticStep]_storeVars

\* A hot asset that was not put there by a caller since the last index has the
\* identity its index entry has, whatever was edited, reindexed, evicted and
\* resolved in between.
HotMatchesIndex ==
    \A id \in DOMAIN cache.hot \cap DOMAIN local :
        id \in inserted \/ cache.hot[id].version = local[id].version

\* An index entry is backed by a descriptor of that id and identity, unless
\* someone else has edited the file since: persisting and invalidating keep
\* file and entry together.
IndexBacked ==
    \A id \in DOMAIN local :
        \/ local[id].path \in touched
        \/ /\ files[local[id].path] \in Descriptors
           /\ files[local[id].path].id = id
           /\ files[local[id].path].version = local[id].version

\* An invalidated asset is in neither tier and comes back with no reindex or
\* restart, until someone provides it again.
NoResurrection ==
    \A id \in dead :
        /\ id \notin DOMAIN cache.hot
        /\ \A p \in Present : files[p] = BadFile \/ files[p].id # id

\* A playback that selects a variant gets one: whatever was used recently, a
\* group with a member offers a candidate, and every candidate can be resolved
\* (unless its file was edited after it was indexed).
SelectionResolves ==
    \A group \in Range(GroupOf), used \in SUBSET Ids :
        /\ Members(cache, group) # {} => Candidates(cache, group, used) # {}
        /\ \A id \in Candidates(cache, group, used) :
               Resolvable(cache, id) \/ local[id].path \in touched

\* HotCacheConfig: max_dynamic_assets is the "maximum number of generated/dynamic
\* assets resident in L0".
GeneratedBounded ==
    Cardinality({id \in DOMAIN cache.hot : cache.hot[id].generated}) <= MaxDynamic

\* HotCacheConfig: max_dynamic_bytes is the budget "for generated/dynamic
\* assets": one is evicted by an insertion only if the generated assets exceed
\* their number or their bytes.
EvictionJustified ==
    [][\A d \in Descriptors :
        LET full == Put(cache.hot, d.id, d)
            generated == {id \in DOMAIN full : full[id].generated}
        IN (InsertHot(d) /\ Cardinality(generated) <= MaxDynamic
             /\ Bytes(Restrict(full, generated)) <= MaxBytes)
           => DOMAIN cache'.hot = DOMAIN full]_storeVars
=============================================================================
