--------------------------- MODULE KnowledgeProofs ---------------------------
(***************************************************************************)
(* Proofs about what the host remembers: the asset store, by itself and    *)
(* under the adaptation engine, for every set of ids, versions, groups,    *)
(* limits and policies.                                                    *)
(***************************************************************************)
EXTENDS MCKnowledge, Sequences, FiniteSets, FiniteSetTheorems, SequenceTheorems,
        WellFoundedInduction, TLAPS

----------------------------------------------------------------------------
(* The invariant of the store.                                             *)

Desc(c) == Kept(c)!Descriptors
Contents(c) == Desc(c) \cup {Kept(c)!NoFile, Kept(c)!BadFile}
Places(c) == Kept(c)!Paths

\* Files hold descriptors or not, an index entry points to a path of the root
\* and a hot asset is kept under its own id.
Shaped(c) ==
    /\ files \in [Places(c) -> Contents(c)]
    /\ \A id \in DOMAIN local : id \in c.ids /\ local[id].path \in Places(c)
    /\ cache = [hot |-> cache.hot, pinned |-> cache.pinned, recency |-> cache.recency]
    /\ \A id \in DOMAIN cache.hot : cache.hot[id] \in Desc(c) /\ cache.hot[id].id = id

\* A hot asset that is not generated is pinned.
Pinned == \A id \in DOMAIN cache.hot : cache.hot[id].generated \/ id \in cache.pinned

\* The hot asset has the identity that was indexed, unless a caller put it there.
Matched ==
    \A id \in DOMAIN cache.hot : id \in DOMAIN local =>
        id \in inserted \/ cache.hot[id].version = local[id].version

\* An index entry has its descriptor, unless others edited the file.
Backed(c) ==
    \A id \in DOMAIN local :
        \/ local[id].path \in touched
        \/ /\ files[local[id].path] \in Desc(c)
           /\ files[local[id].path].id = id
           /\ files[local[id].path].version = local[id].version

\* What was invalidated is neither hot nor in a file.
Buried(c) ==
    \A id \in dead :
        /\ id \notin DOMAIN cache.hot
        /\ \A p \in Places(c) : files[p] \in Desc(c) => files[p].id # id

StoreInv(c) == Shaped(c) /\ Pinned /\ Matched /\ Backed(c) /\ Buried(c)

\* The asset that is being persisted is hot and not indexed, and its file is what
\* the steps so far have made of it, unless others edited it.
Written(c) ==
    \/ saving = Kept(c)!Quiet
    \/ /\ saving \in [id : c.ids, step : {"rename", "index"}]
       /\ saving.id \in DOMAIN cache.hot /\ saving.id \notin DOMAIN local
       /\ \/ saving.id \in touched
          \/ files[saving.id] = IF saving.step = "rename"
                                THEN Kept(c)!NoFile ELSE cache.hot[saving.id]

----------------------------------------------------------------------------
(* What the operators of the cache do.                                     *)

\* A descriptor is not the mark of a missing or a broken file.
LEMMA DescIs ==
    ASSUME NEW c, c.ids \subseteq Nat \ {0}
    PROVE  /\ Kept(c)!NoFile \notin Desc(c) /\ Kept(c)!BadFile \notin Desc(c)
           /\ Kept(c)!NoFile # Kept(c)!BadFile
           /\ \A d \in Desc(c) : d.id \in c.ids /\ d.generated \in BOOLEAN
           /\ ~Kept(c)!NoFile.generated /\ ~Kept(c)!BadFile.generated
           /\ c.ids \subseteq Places(c)
BY DEF Desc, Places, Kept!Descriptors, Kept!NoFile, Kept!BadFile, Kept!Paths

\* Eviction takes unpinned assets out of L0 and does nothing else to it.
LEMMA EvictIs ==
    ASSUME NEW c, NEW x, NEW h, NEW p, NEW r, x = [hot |-> h, pinned |-> p, recency |-> r]
    PROVE  LET y == Kept(c)!Evict(x)
           IN  /\ y = [hot |-> y.hot, pinned |-> y.pinned, recency |-> y.recency]
               /\ y.pinned = p
               /\ DOMAIN y.hot \subseteq DOMAIN h
               /\ \A id \in DOMAIN y.hot : y.hot[id] = h[id]
               /\ \A id \in DOMAIN h : id \in p => id \in DOMAIN y.hot
<1>1. PICK victims : /\ victims \subseteq DOMAIN h \ p
                     /\ \E q : Kept(c)!Evict(x) = [x EXCEPT !.hot = Kept(c)!Without(@, victims),
                                                            !.recency = q]
  <2> DEFINE size == Kept(c)!Cardinality(Kept(c)!Dynamic(x))
             first(k) == {id \in Kept(c)!Dynamic(x) : Kept(c)!Cardinality(Kept(c)!Older(x, id)) < k}
             fits(k) == \/ Kept(c)!Bytes(Kept(c)!Without(x.hot, first(k))) <= c.bytes
                        \/ k >= size - 1
             k0 == Kept(c)!Min({k \in Kept(c)!Max({0, size - c.dynamic}) .. size : fits(k)})
  <2>1. first(k0) \subseteq DOMAIN h \ p BY DEF Kept!Dynamic
  <2>2. Kept(c)!Evict(x) = [x EXCEPT !.hot = Kept(c)!Without(@, first(k0)),
                                     !.recency = SelectSeq(@, LAMBDA i : i \notin first(k0))]
    BY DEF Kept!Evict
  <2> QED BY <2>1, <2>2
<1> DEFINE y == Kept(c)!Evict(x)
           w == Kept(c)!Without(h, victims)
<1>2. DOMAIN w = DOMAIN h \ victims /\ \A id \in DOMAIN w : w[id] = h[id]
  BY DEF Kept!Without, Kept!Restrict
<1>3. PICK q : y = [x EXCEPT !.hot = w, !.recency = q] BY <1>1
<1> HIDE DEF w, y
<1>4. y.hot = w /\ y.pinned = p /\ y = [hot |-> w, pinned |-> p, recency |-> q] BY <1>3
<1> QED BY <1>1, <1>2, <1>4 DEF y

\* insert_hot: the asset is hot, unless eviction took it, the others stay what
\* they were, a pinned one stays, and a static one is pinned.
LEMMA InsertIs ==
    ASSUME NEW c, NEW x, NEW d,
           x = [hot |-> x.hot, pinned |-> x.pinned, recency |-> x.recency]
    PROVE  LET y == Kept(c)!Insert(x, d)
           IN  /\ y = [hot |-> y.hot, pinned |-> y.pinned, recency |-> y.recency]
               /\ y.pinned = IF d.generated THEN x.pinned ELSE x.pinned \cup {d.id}
               /\ DOMAIN y.hot \subseteq DOMAIN x.hot \cup {d.id}
               /\ \A id \in DOMAIN y.hot : y.hot[id] = IF id = d.id THEN d ELSE x.hot[id]
               /\ \A id \in DOMAIN x.hot : id \in x.pinned => id \in DOMAIN y.hot
<1> DEFINE h == Kept(c)!Put(x.hot, d.id, d)
           p == IF d.generated THEN x.pinned ELSE x.pinned \cup {d.id}
           r == Kept(c)!Touch(x.recency, d.id)
           z == [hot |-> h, pinned |-> p, recency |-> r]
           y == Kept(c)!Insert(x, d)
<1>1. y = Kept(c)!Evict(z) BY DEF Kept!Insert, Kept!PinnedNow
<1>2. /\ DOMAIN h = DOMAIN x.hot \cup {d.id}
      /\ \A id \in DOMAIN h : h[id] = IF id = d.id THEN d ELSE x.hot[id]
  BY DEF Kept!Put
<1>3. x.pinned \subseteq p OBVIOUS
<1> HIDE DEF h, p, r, y
<1>4. z = [hot |-> h, pinned |-> p, recency |-> r] OBVIOUS
<1> HIDE DEF z
<1>5. /\ y = [hot |-> y.hot, pinned |-> y.pinned, recency |-> y.recency]
      /\ y.pinned = p
      /\ DOMAIN y.hot \subseteq DOMAIN h
      /\ \A id \in DOMAIN y.hot : y.hot[id] = h[id]
      /\ \A id \in DOMAIN h : id \in p => id \in DOMAIN y.hot
  BY <1>1, <1>4, EvictIs
<1>6. y.pinned = IF d.generated THEN x.pinned ELSE x.pinned \cup {d.id} BY <1>5 DEF p
<1>7. \A id \in DOMAIN x.hot : id \in x.pinned => id \in DOMAIN y.hot BY <1>2, <1>3, <1>5
<1> QED BY <1>2, <1>5, <1>6, <1>7 DEF y

----------------------------------------------------------------------------
(* The invariant over what an operation does to the store.                 *)

\* Pinned assets stay hot.
Stays == \A id \in DOMAIN cache.hot : id \in cache.pinned => id \in DOMAIN cache'.hot

\* A use, and whatever else leaves the tiers as they are.
LEMMA TouchKeeps ==
    ASSUME NEW c, StoreInv(c), UNCHANGED <<files, local, touched, inserted, dead>>,
           NEW r, cache' = [cache EXCEPT !.recency = r]
    PROVE  StoreInv(c)' /\ Stays
<1>1. /\ cache'.hot = cache.hot /\ cache'.pinned = cache.pinned /\ cache'.recency = r
      /\ cache' = [hot |-> cache.hot, pinned |-> cache.pinned, recency |-> r]
  BY DEF StoreInv, Shaped
<1>2. Shaped(c)' BY <1>1 DEF StoreInv, Shaped, Places, Contents, Desc
<1>3. Pinned' /\ Matched' /\ Stays BY <1>1 DEF StoreInv, Pinned, Matched, Stays
<1>4. Backed(c)' /\ Buried(c)' BY <1>1 DEF StoreInv, Backed, Buried, Places, Desc
<1> QED BY <1>2, <1>3, <1>4 DEF StoreInv

\* Nothing changes.
LEMMA SameKeeps ==
    ASSUME NEW c, StoreInv(c), UNCHANGED <<files, local, cache, touched, inserted, dead>>
    PROVE  StoreInv(c)' /\ Stays
<1>1. cache' = [cache EXCEPT !.recency = cache.recency] BY DEF StoreInv, Shaped
<1> QED BY <1>1, TouchKeeps

\* An asset gets into L0: from a caller, or from the file that is indexed.
LEMMA InsertKeeps ==
    ASSUME NEW c, StoreInv(c), NEW d \in Desc(c), UNCHANGED <<files, local, touched>>,
           cache' = Kept(c)!Insert(cache, d),
           \/ inserted' = inserted \cup {d.id} /\ dead' = dead \ {d.id}
           \/ /\ UNCHANGED <<inserted, dead>> /\ d.id \in DOMAIN local
              /\ d = files[local[d.id].path] /\ d.version = local[d.id].version
    PROVE  StoreInv(c)' /\ Stays
<1> DEFINE y == cache'
<1>1. /\ y = [hot |-> y.hot, pinned |-> y.pinned, recency |-> y.recency]
      /\ y.pinned = IF d.generated THEN cache.pinned ELSE cache.pinned \cup {d.id}
      /\ DOMAIN y.hot \subseteq DOMAIN cache.hot \cup {d.id}
      /\ \A id \in DOMAIN y.hot : y.hot[id] = IF id = d.id THEN d ELSE cache.hot[id]
      /\ \A id \in DOMAIN cache.hot : id \in cache.pinned => id \in DOMAIN y.hot
  <2>1. cache = [hot |-> cache.hot, pinned |-> cache.pinned, recency |-> cache.recency]
    BY DEF StoreInv, Shaped
  <2> DEFINE z == Kept(c)!Insert(cache, d)
  <2>2. /\ z = [hot |-> z.hot, pinned |-> z.pinned, recency |-> z.recency]
        /\ z.pinned = IF d.generated THEN cache.pinned ELSE cache.pinned \cup {d.id}
        /\ DOMAIN z.hot \subseteq DOMAIN cache.hot \cup {d.id}
        /\ \A id \in DOMAIN z.hot : z.hot[id] = IF id = d.id THEN d ELSE cache.hot[id]
        /\ \A id \in DOMAIN cache.hot : id \in cache.pinned => id \in DOMAIN z.hot
    BY <2>1, InsertIs
  <2>3. y = z OBVIOUS
  <2> HIDE DEF z
  <2> QED BY <2>2, <2>3
<1>2. d.generated \in BOOLEAN BY DEF Desc, Kept!Descriptors
<1>3. Shaped(c)' BY <1>1 DEF StoreInv, Shaped, Places, Contents, Desc
<1>4. Pinned' /\ Stays BY <1>1, <1>2 DEF StoreInv, Pinned, Stays
<1>5. Matched' BY <1>1 DEF StoreInv, Matched
<1>6. Backed(c)' BY DEF StoreInv, Backed, Desc
<1>7. Buried(c)'
  <2>1. dead' \subseteq dead OBVIOUS
  <2>2. d.id \notin dead'
    <3>1. CASE UNCHANGED dead /\ d.id \in DOMAIN local /\ d = files[local[d.id].path]
      <4>1. local[d.id].path \in Places(c) BY <3>1 DEF StoreInv, Shaped
      <4> QED BY <3>1, <4>1 DEF StoreInv, Buried
    <3> QED BY <3>1
  <2> QED BY <1>1, <2>1, <2>2 DEF StoreInv, Buried, Places, Desc
<1> QED BY <1>3, <1>4, <1>5, <1>6, <1>7 DEF StoreInv

\* A lookup that succeeds.
LEMMA ResolveKeeps ==
    ASSUME NEW c, StoreInv(c), NEW id, Kept(c)!Resolvable(cache, id),
           cache' = Kept(c)!Resolve(cache, id),
           UNCHANGED <<files, local, touched, inserted, dead>>
    PROVE  StoreInv(c)' /\ Stays
<1>1. CASE id \in DOMAIN cache.hot
  <2>1. PICK r : cache' = [cache EXCEPT !.recency = r]
    BY <1>1 DEF Kept!Resolve, Kept!HotGet
  <2> QED BY <2>1, TouchKeeps
<1>2. CASE id \notin DOMAIN cache.hot
  <2> DEFINE d == files[local[id].path]
  <2>1. /\ id \in DOMAIN local /\ d \in Desc(c) /\ d.id = id /\ d.version = local[id].version
        /\ cache' = Kept(c)!Insert(cache, d)
    BY <1>2 DEF Kept!Resolve, Kept!Resolvable, Kept!Reload, Desc
  <2> QED BY <2>1, InsertKeeps
<1> QED BY <1>1, <1>2

\* A persist passes its checks.
LEMMA PersistStartKeeps ==
    ASSUME NEW c, StoreInv(c), NEW id \in c.ids, Kept(c)!PersistStart(id)
    PROVE  StoreInv(c)' /\ Stays /\ Written(c)'
<1>1. /\ id \in DOMAIN cache.hot /\ files[id] = Kept(c)!NoFile /\ id \notin DOMAIN local
      /\ cache' = [cache EXCEPT !.recency = Kept(c)!Touch(cache.recency, id)]
      /\ saving' = [id |-> id, step |-> "rename"]
      /\ UNCHANGED <<files, local, touched, inserted, dead>>
  BY DEF Kept!PersistStart, Kept!HotGet, StoreInv, Shaped
<1>2. StoreInv(c)' /\ Stays BY <1>1, TouchKeeps
<1>3. cache'.hot = cache.hot BY <1>1 DEF StoreInv, Shaped
<1>4. /\ saving' \in [id : c.ids, step : {"rename", "index"}]
      /\ saving'.id = id /\ saving'.step = "rename"
  BY <1>1
<1>5. Written(c)' BY <1>1, <1>3, <1>4 DEF Written
<1> QED BY <1>2, <1>5

\* The file gets its name, whatever was there.
LEMMA PersistRenameKeeps ==
    ASSUME NEW c, c.ids \subseteq Nat \ {0}, StoreInv(c), Written(c), Kept(c)!PersistRename
    PROVE  StoreInv(c)' /\ Stays /\ Written(c)'
<1> DEFINE id == saving.id
           d == cache.hot[id]
<1>1. /\ saving.step = "rename" /\ files' = [files EXCEPT ![id] = d]
      /\ saving' = [saving EXCEPT !.step = "index"]
      /\ UNCHANGED <<local, cache, touched, inserted, dead>>
  BY DEF Kept!PersistRename
<1>2. /\ saving \in [id : c.ids, step : {"rename", "index"}]
      /\ id \in DOMAIN cache.hot /\ id \notin DOMAIN local
      /\ id \in touched \/ files[id] = Kept(c)!NoFile
  BY <1>1 DEF Written, Kept!Quiet
<1>3. id \in Places(c) /\ Kept(c)!NoFile \notin Desc(c) BY <1>2, DescIs
<1>4. d \in Desc(c) /\ d.id = id BY <1>2 DEF StoreInv, Shaped
<1>5. files \in [Places(c) -> Contents(c)] BY DEF StoreInv, Shaped
<1>6. /\ files' \in [Places(c) -> Contents(c)] /\ files'[id] = d
      /\ \A p \in Places(c) : p # id => files'[p] = files[p]
  BY <1>1, <1>3, <1>4, <1>5 DEF Contents
<1>7. Shaped(c)' BY <1>1, <1>6 DEF StoreInv, Shaped, Places, Contents, Desc
<1>8. Pinned' /\ Matched' /\ Stays BY <1>1 DEF StoreInv, Pinned, Matched, Stays
<1>9. Backed(c)'
  <2> SUFFICES ASSUME NEW i \in DOMAIN local, local[i].path \notin touched
               PROVE  /\ files'[local[i].path] \in Desc(c)
                      /\ files'[local[i].path].id = i
                      /\ files'[local[i].path].version = local[i].version
    BY <1>1 DEF Backed, Desc
  <2>1. /\ files[local[i].path] \in Desc(c) /\ files[local[i].path].id = i
        /\ files[local[i].path].version = local[i].version
    BY DEF StoreInv, Backed
  <2>2. local[i].path # id BY <2>1, <1>2, <1>3
  <2>3. local[i].path \in Places(c) BY DEF StoreInv, Shaped
  <2> QED BY <2>1, <2>2, <2>3, <1>6
<1>10. Buried(c)'
  <2>1. id \notin dead BY <1>2 DEF StoreInv, Buried
  <2>2. \A i \in dead, p \in Places(c) : files'[p] \in Desc(c) => files'[p].id # i
    BY <2>1, <1>4, <1>6 DEF StoreInv, Buried
  <2> QED BY <1>1, <2>2 DEF StoreInv, Buried, Places, Desc
<1>11. Written(c)'
  <2>1. /\ saving' \in [id : c.ids, step : {"rename", "index"}]
        /\ saving'.id = id /\ saving'.step = "index"
    BY <1>1, <1>2
  <2> QED BY <1>1, <1>2, <1>6, <2>1 DEF Written
<1> QED BY <1>7, <1>8, <1>9, <1>10, <1>11 DEF StoreInv

\* The file is indexed.
LEMMA PersistIndexKeeps ==
    ASSUME NEW c, c.ids \subseteq Nat \ {0}, StoreInv(c), Written(c), Kept(c)!PersistIndex
    PROVE  StoreInv(c)' /\ Stays /\ Written(c)'
<1> DEFINE id == saving.id
           e == [path |-> id, version |-> cache.hot[id].version]
<1>1. /\ saving.step = "index" /\ local' = Kept(c)!Put(local, id, e)
      /\ saving' = Kept(c)!Quiet
      /\ UNCHANGED <<files, cache, touched, inserted, dead>>
  BY DEF Kept!PersistIndex
<1>2. /\ id \in c.ids /\ id \in DOMAIN cache.hot /\ id \notin DOMAIN local
      /\ id \in touched \/ files[id] = cache.hot[id]
  BY <1>1 DEF Written, Kept!Quiet
<1>3. id \in Places(c) BY <1>2, DescIs
<1>4. cache.hot[id] \in Desc(c) /\ cache.hot[id].id = id BY <1>2 DEF StoreInv, Shaped
<1>5. /\ DOMAIN local' = DOMAIN local \cup {id} /\ local'[id] = e
      /\ \A i \in DOMAIN local : local'[i] = local[i]
  BY <1>1, <1>2 DEF Kept!Put
<1>6. local'[id].path = id /\ local'[id].version = cache.hot[id].version BY <1>5
<1> HIDE DEF e
<1>7. Shaped(c)'
  <2>1. \A i \in DOMAIN local' : i \in c.ids /\ local'[i].path \in Places(c)
    BY <1>2, <1>3, <1>5, <1>6 DEF StoreInv, Shaped
  <2> QED BY <1>1, <2>1 DEF StoreInv, Shaped, Places, Contents, Desc
<1>8. Pinned' /\ Stays BY <1>1 DEF StoreInv, Pinned, Stays
<1>9. Matched' BY <1>1, <1>5, <1>6 DEF StoreInv, Matched
<1>10. Backed(c)'
  <2>1. ASSUME NEW i \in DOMAIN local', local'[i].path \notin touched
        PROVE  /\ files[local'[i].path] \in Desc(c)
               /\ files[local'[i].path].id = i
               /\ files[local'[i].path].version = local'[i].version
    <3>1. CASE i = id BY <2>1, <3>1, <1>2, <1>4, <1>6
    <3>2. CASE i # id BY <2>1, <3>2, <1>5 DEF StoreInv, Backed
    <3> QED BY <3>1, <3>2
  <2> QED BY <1>1, <2>1 DEF Backed, Desc
<1>11. Buried(c)' BY <1>1 DEF StoreInv, Buried, Places, Desc
<1>12. Written(c)' BY <1>1 DEF Written, Kept!Quiet
<1> QED BY <1>7, <1>8, <1>9, <1>10, <1>11, <1>12 DEF StoreInv

\* A persist that has started goes on.
LEMMA PersistKeeps ==
    ASSUME NEW c, c.ids \subseteq Nat \ {0}, StoreInv(c), Written(c), Kept(c)!PersistNext
    PROVE  StoreInv(c)' /\ Stays /\ Written(c)'
<1>1. CASE Kept(c)!PersistRename BY <1>1, PersistRenameKeeps
<1>2. CASE Kept(c)!PersistIndex BY <1>2, PersistIndexKeeps
<1>3. CASE Kept(c)!PersistFails
  <2>1. saving' = Kept(c)!Quiet /\ UNCHANGED <<files, local, cache, touched, inserted, dead>>
    BY <1>3 DEF Kept!PersistFails
  <2>2. Written(c)' BY <2>1 DEF Written, Kept!Quiet
  <2> QED BY <2>1, <2>2, SameKeeps
<1> QED BY <1>1, <1>2, <1>3 DEF Kept!PersistNext

\* Between two operations nothing is being persisted.
LEMMA QuietIsWritten ==
    ASSUME NEW c, saving' = Kept(c)!Quiet PROVE Written(c)'
BY DEF Written, Kept!Quiet

\* A generated asset leaves both tiers and its file.
LEMMA InvalidateKeeps ==
    ASSUME NEW c, c.ids \subseteq Nat \ {0}, StoreInv(c), NEW id \in c.ids, Kept(c)!Invalidate(id)
    PROVE  /\ StoreInv(c)' /\ id \notin DOMAIN cache'.hot /\ id \notin DOMAIN local'
           /\ \A i \in DOMAIN cache.hot : i # id => i \in DOMAIN cache'.hot
<1> DEFINE q == local[id].path
           r == IF id \in DOMAIN local THEN cache.recency ELSE Kept(c)!Touch(cache.recency, id)
<1>1. /\ files' = IF id \in DOMAIN local THEN [files EXCEPT ![q] = Kept(c)!NoFile] ELSE files
      /\ local' = Kept(c)!Without(local, {id})
      /\ cache' = [cache EXCEPT !.hot = Kept(c)!Without(@, {id}), !.recency = r]
      /\ dead' = IF Kept(c)!OnlyIndexed(id) THEN dead \cup {id} ELSE dead
      /\ inserted' = inserted \ {id} /\ touched' = touched
  BY DEF Kept!Invalidate, StoreInv, Shaped
<1> HIDE DEF r
<1>2. /\ cache'.hot = Kept(c)!Without(cache.hot, {id}) /\ cache'.pinned = cache.pinned
      /\ cache' = [hot |-> cache'.hot, pinned |-> cache'.pinned, recency |-> cache'.recency]
  BY <1>1 DEF StoreInv, Shaped
<1>3. /\ DOMAIN local' = DOMAIN local \ {id}
      /\ \A i \in DOMAIN local' : local'[i] = local[i]
      /\ DOMAIN cache'.hot = DOMAIN cache.hot \ {id}
      /\ \A i \in DOMAIN cache'.hot : cache'.hot[i] = cache.hot[i]
  BY <1>1, <1>2 DEF Kept!Without, Kept!Restrict
<1>4. Kept(c)!NoFile \notin Desc(c) /\ Kept(c)!NoFile \in Contents(c) BY DescIs DEF Contents
<1>5. files \in [Places(c) -> Contents(c)] BY DEF StoreInv, Shaped
<1>6. id \in DOMAIN local => q \in Places(c) BY DEF StoreInv, Shaped
<1>7. /\ files' \in [Places(c) -> Contents(c)]
      /\ \A p \in Places(c) : files'[p] = IF id \in DOMAIN local /\ p = q
                                          THEN Kept(c)!NoFile ELSE files[p]
  BY <1>1, <1>4, <1>5, <1>6
<1> HIDE DEF q
<1>8. Shaped(c)'
  <2>1. \A i \in DOMAIN local' : i \in c.ids /\ local'[i].path \in Places(c)
    BY <1>3 DEF StoreInv, Shaped
  <2>2. \A i \in DOMAIN cache'.hot : cache'.hot[i] \in Desc(c) /\ cache'.hot[i].id = i
    BY <1>3 DEF StoreInv, Shaped
  <2> QED BY <1>2, <1>7, <2>1, <2>2 DEF Shaped, Places, Contents, Desc
<1>9. Pinned' BY <1>2, <1>3 DEF StoreInv, Pinned
<1>10. Matched' BY <1>1, <1>3 DEF StoreInv, Matched
<1>11. Backed(c)'
  <2> SUFFICES ASSUME NEW i \in DOMAIN local', local'[i].path \notin touched
               PROVE  /\ files'[local'[i].path] \in Desc(c)
                      /\ files'[local'[i].path].id = i
                      /\ files'[local'[i].path].version = local'[i].version
    BY <1>1 DEF Backed, Desc
  <2>1. i \in DOMAIN local /\ i # id /\ local'[i] = local[i] BY <1>3
  <2>2. /\ files[local[i].path] \in Desc(c) /\ files[local[i].path].id = i
        /\ files[local[i].path].version = local[i].version
    BY <2>1 DEF StoreInv, Backed
  <2>3. local[i].path \in Places(c) BY <2>1 DEF StoreInv, Shaped
  <2>4. id \in DOMAIN local => local[i].path # q
    BY <2>1, <2>2 DEF StoreInv, Backed, q
  <2> QED BY <2>1, <2>2, <2>3, <2>4, <1>7
<1>12. Buried(c)'
  <2>1. \A i \in dead' : i \notin DOMAIN cache'.hot BY <1>1, <1>3 DEF StoreInv, Buried
  <2>2. ASSUME NEW i \in dead', NEW p \in Places(c), files'[p] \in Desc(c), files'[p].id = i
        PROVE  FALSE
    <3>1. files'[p] = files[p] /\ ~(id \in DOMAIN local /\ p = q) BY <2>2, <1>4, <1>7
    <3>2. i \notin dead BY <2>2, <3>1 DEF StoreInv, Buried
    <3>3. i = id /\ Kept(c)!OnlyIndexed(id) BY <3>2, <1>1
    <3>4. files[p] # Kept(c)!NoFile /\ files[p] # Kept(c)!BadFile BY <2>2, <3>1, DescIs
    <3>5. p \in Kept(c)!Present BY <3>4 DEF Kept!Present, Places
    <3>6. id \in DOMAIN local /\ local[id].path = p
      BY <2>2, <3>1, <3>3, <3>4, <3>5 DEF Kept!OnlyIndexed
    <3> QED BY <3>1, <3>6 DEF q
  <2> QED BY <2>1, <2>2 DEF Buried, Places, Desc
<1> QED BY <1>3, <1>8, <1>9, <1>10, <1>11, <1>12 DEF StoreInv

\* What the files say when they can be indexed.
LEMMA IndexIs ==
    ASSUME NEW c, files \in [Places(c) -> Contents(c)], Kept(c)!Indexable,
           c.ids \subseteq Nat \ {0}
    PROVE  \A id \in DOMAIN Kept(c)!Indexed :
               LET e == Kept(c)!Indexed[id]
               IN  /\ id \in c.ids /\ e.path \in Places(c) /\ files[e.path] \in Desc(c)
                   /\ files[e.path].id = id /\ files[e.path].version = e.version
<1> SUFFICES ASSUME NEW id \in DOMAIN Kept(c)!Indexed
             PROVE  LET e == Kept(c)!Indexed[id]
                    IN  /\ id \in c.ids /\ e.path \in Places(c) /\ files[e.path] \in Desc(c)
                        /\ files[e.path].id = id /\ files[e.path].version = e.version
  OBVIOUS
<1> DEFINE q == CHOOSE p \in Kept(c)!Present : files[p].id = id
<1>1. /\ id \in {files[p].id : p \in Kept(c)!Present}
      /\ Kept(c)!Indexed[id] = Kept(c)!IndexOf(q)
  BY DEF Kept!Indexed
<1>2. q \in Kept(c)!Present /\ files[q].id = id BY <1>1
<1> HIDE DEF q
<1>3. q \in Places(c) /\ files[q] # Kept(c)!NoFile BY <1>2 DEF Kept!Present, Places
<1>4. files[q] # Kept(c)!BadFile BY <1>2 DEF Kept!Indexable
<1>5. files[q] \in Desc(c) BY <1>3, <1>4 DEF Contents
<1>6. files[q].id \in c.ids BY <1>5, DescIs
<1>7. /\ Kept(c)!Indexed[id].path = q /\ Kept(c)!Indexed[id].version = files[q].version
  BY <1>1 DEF Kept!IndexOf
<1> QED BY <1>2, <1>3, <1>5, <1>6, <1>7

\* The files are indexed again: the hot assets that no longer fit go.
LEMMA IndexKeeps ==
    ASSUME NEW c, c.ids \subseteq Nat \ {0}, StoreInv(c), Kept(c)!IndexLocal
    PROVE  StoreInv(c)'
<1> DEFINE w == Kept(c)!Retained(cache.hot)
<1>1. /\ Kept(c)!Indexable /\ local' = Kept(c)!Indexed
      /\ cache' = [cache EXCEPT !.hot = w]
      /\ touched' = {} /\ inserted' = {} /\ UNCHANGED <<files, dead>>
  BY DEF Kept!IndexLocal
<1>2. /\ DOMAIN w \subseteq DOMAIN cache.hot /\ \A id \in DOMAIN w : w[id] = cache.hot[id]
      /\ \A id \in DOMAIN w : id \in DOMAIN Kept(c)!Indexed =>
             Kept(c)!Indexed[id].version = cache.hot[id].version
  BY DEF Kept!Retained, Kept!Restrict
<1> HIDE DEF w
<1>3. /\ cache'.hot = w /\ cache'.pinned = cache.pinned
      /\ cache' = [hot |-> cache'.hot, pinned |-> cache'.pinned, recency |-> cache'.recency]
  BY <1>1 DEF StoreInv, Shaped
<1>4. \A id \in DOMAIN local' :
          /\ id \in c.ids /\ local'[id].path \in Places(c) /\ files[local'[id].path] \in Desc(c)
          /\ files[local'[id].path].id = id /\ files[local'[id].path].version = local'[id].version
  BY <1>1, IndexIs DEF StoreInv, Shaped
<1>5. Shaped(c)' BY <1>1, <1>2, <1>3, <1>4 DEF StoreInv, Shaped, Places, Contents, Desc
<1>6. Pinned' BY <1>2, <1>3 DEF StoreInv, Pinned
<1>7. Matched' BY <1>1, <1>2, <1>3 DEF Matched
<1>8. Backed(c)' BY <1>1, <1>4 DEF Backed, Desc
<1>9. Buried(c)' BY <1>1, <1>2, <1>3 DEF StoreInv, Buried, Places, Desc
<1> QED BY <1>5, <1>6, <1>7, <1>8, <1>9 DEF StoreInv

\* A new process indexes the files and has nothing hot.
LEMMA RestartKeeps ==
    ASSUME NEW c, c.ids \subseteq Nat \ {0}, StoreInv(c), Kept(c)!Restart
    PROVE  StoreInv(c)'
<1>1. /\ Kept(c)!Indexable /\ local' = Kept(c)!Indexed
      /\ cache' = [hot |-> <<>>, pinned |-> {}, recency |-> <<>>]
      /\ touched' = {} /\ UNCHANGED <<files, dead>>
  BY DEF Kept!Restart, Kept!Empty
<1>2. DOMAIN cache'.hot = {} BY <1>1
<1>3. \A id \in DOMAIN local' :
          /\ id \in c.ids /\ local'[id].path \in Places(c) /\ files[local'[id].path] \in Desc(c)
          /\ files[local'[id].path].id = id /\ files[local'[id].path].version = local'[id].version
  BY <1>1, IndexIs DEF StoreInv, Shaped
<1>4. Shaped(c)' BY <1>1, <1>2, <1>3 DEF StoreInv, Shaped, Places, Contents, Desc
<1>5. Pinned' /\ Matched' BY <1>2 DEF Pinned, Matched
<1>6. Backed(c)' BY <1>1, <1>3 DEF Backed, Desc
<1>7. Buried(c)' BY <1>1, <1>2 DEF StoreInv, Buried, Places, Desc
<1> QED BY <1>4, <1>5, <1>6, <1>7 DEF StoreInv

\* Others change a file.
LEMMA EditKeeps ==
    ASSUME NEW c, StoreInv(c), NEW p \in Places(c), NEW content \in Contents(c),
           Kept(c)!Edit(p, content)
    PROVE  StoreInv(c)' /\ Stays /\ (Written(c) => Written(c)')
<1>1. /\ files' = [files EXCEPT ![p] = content] /\ touched' = touched \cup {p}
      /\ dead' = IF content \in Desc(c) THEN dead \ {content.id} ELSE dead
      /\ UNCHANGED <<local, cache, saving, inserted>>
  BY DEF Kept!Edit, Desc
<1>2. /\ files' \in [Places(c) -> Contents(c)] /\ files'[p] = content
      /\ \A q \in Places(c) : q # p => files'[q] = files[q]
  BY <1>1 DEF StoreInv, Shaped
<1>3. Shaped(c)' BY <1>1, <1>2 DEF StoreInv, Shaped, Places, Contents, Desc
<1>4. Pinned' /\ Matched' /\ Stays BY <1>1 DEF StoreInv, Pinned, Matched, Stays
<1>5. Backed(c)' BY <1>1, <1>2 DEF StoreInv, Shaped, Backed, Desc
<1>6. Buried(c)' BY <1>1, <1>2 DEF StoreInv, Buried, Places, Desc
<1>7. ASSUME Written(c) PROVE Written(c)'
  <2>1. CASE saving = Kept(c)!Quiet BY <1>1, <2>1, QuietIsWritten
  <2>2. CASE saving # Kept(c)!Quiet
    <3>1. saving.id \in c.ids BY <1>7, <2>2 DEF Written
    <3>2. saving.id \in Places(c) BY <3>1 DEF Places, Kept!Paths
    <3> QED BY <1>1, <1>2, <1>7, <2>2, <3>2 DEF Written, Kept!NoFile
  <2> QED BY <2>1, <2>2
<1> QED BY <1>3, <1>4, <1>5, <1>6, <1>7 DEF StoreInv

\* The store before its files are first indexed.
LEMMA StoreInvInit ==
    ASSUME NEW c, Kept(c)!StoreInit PROVE StoreInv(c) /\ Written(c)
<1>1. /\ files = [p \in Places(c) |-> Kept(c)!NoFile] /\ DOMAIN local = {}
      /\ cache = [hot |-> <<>>, pinned |-> {}, recency |-> <<>>] /\ dead = {}
  BY DEF Kept!StoreInit, Kept!Empty, Places
<1>2. DOMAIN cache.hot = {} BY <1>1
<1>3. Shaped(c) BY <1>1, <1>2 DEF Shaped, Contents
<1>4. Written(c) BY DEF Written, Kept!StoreInit
<1> QED BY <1>1, <1>2, <1>3, <1>4 DEF StoreInv, Pinned, Matched, Backed, Buried

\* Where pinned assets stay, static ones do.
LEMMA StaticFromStays ==
    ASSUME NEW c, StoreInv(c), Stays PROVE Kept(c)!StaticStep
BY DEF StoreInv, Pinned, Stays, Kept!StaticStep

\* Invalidating an asset takes no other one.
LEMMA InvalidateStatic ==
    ASSUME NEW c, c.ids \subseteq Nat \ {0}, StoreInv(c), NEW id \in c.ids, Kept(c)!Invalidate(id)
    PROVE  StoreInv(c)' /\ Kept(c)!StaticStep
<1>1. StoreInv(c)' /\ \A i \in DOMAIN cache.hot : i # id => i \in DOMAIN cache'.hot
  BY InvalidateKeeps
<1>2. \A i \in DOMAIN cache.hot : Kept(c)!Invalidate(i) \/ i \in DOMAIN cache'.hot
  BY <1>1
<1> QED BY <1>1, <1>2 DEF Kept!StaticStep

\* A reindex or a restart.
LEMMA RenewKeeps ==
    ASSUME NEW c, c.ids \subseteq Nat \ {0}, StoreInv(c), Kept(c)!IndexLocal \/ Kept(c)!Restart
    PROVE  StoreInv(c)' /\ Kept(c)!StaticStep
<1>1. StoreInv(c)' BY IndexKeeps, RestartKeeps
<1>2. Kept(c)!StaticStep BY DEF Kept!StaticStep
<1> QED BY <1>1, <1>2

\* A caller hands over an asset.
LEMMA InsertHotKeeps ==
    ASSUME NEW c, StoreInv(c), NEW d \in Desc(c), Kept(c)!InsertHot(d)
    PROVE  StoreInv(c)' /\ Stays
<1>1. /\ cache' = Kept(c)!Insert(cache, d) /\ UNCHANGED <<files, local, touched>>
      /\ inserted' = inserted \cup {d.id} /\ dead' = dead \ {d.id}
  BY DEF Kept!InsertHot
<1> QED BY <1>1, InsertKeeps

\* Persisting that is refused after the lookup.
LEMMA RefusedKeeps ==
    ASSUME NEW c, StoreInv(c), NEW id, Kept(c)!PersistRefused(id)
    PROVE  StoreInv(c)' /\ Stays
<1>1. /\ cache' = [cache EXCEPT !.recency = Kept(c)!Touch(cache.recency, id)]
      /\ UNCHANGED <<files, local, touched, inserted, dead>>
  BY DEF Kept!PersistRefused, Kept!HotGet, StoreInv, Shaped
<1> QED BY <1>1, TouchKeeps

\* A use that is noted.
LEMMA NoteKeeps ==
    ASSUME NEW c, StoreInv(c), NEW id, NEW at, Kept(c)!NoteHotUse(id, at)
    PROVE  StoreInv(c)' /\ Stays
<1>1. /\ cache' = [cache EXCEPT !.recency = Kept(c)!Touch(cache.recency, id)]
      /\ UNCHANGED <<files, local, touched, inserted, dead>>
  BY DEF Kept!NoteHotUse, StoreInv, Shaped
<1> QED BY <1>1, TouchKeeps

\* A lookup by id.
LEMMA ResolveIdKeeps ==
    ASSUME NEW c, StoreInv(c), NEW id, Kept(c)!ResolveId(id)
    PROVE  StoreInv(c)' /\ Stays
<1>1. /\ Kept(c)!Resolvable(cache, id) /\ cache' = Kept(c)!Resolve(cache, id)
      /\ UNCHANGED <<files, local, touched, inserted, dead>>
  BY DEF Kept!ResolveId
<1> QED BY <1>1, ResolveKeeps

\* One asset of a preload.
LEMMA PreloadKeeps ==
    ASSUME NEW c, StoreInv(c), Kept(c)!PreloadNext PROVE StoreInv(c)' /\ Stays
<1>1. PICK id : /\ UNCHANGED <<files, local, touched, inserted, dead>>
                /\ IF Kept(c)!Resolvable(cache, id)
                   THEN cache' = Kept(c)!Resolve(cache, id) ELSE UNCHANGED cache
  BY DEF Kept!PreloadNext
<1>2. CASE Kept(c)!Resolvable(cache, id) BY <1>1, <1>2, ResolveKeeps
<1>3. CASE ~Kept(c)!Resolvable(cache, id) BY <1>1, <1>3, SameKeeps
<1> QED BY <1>2, <1>3

\* The invariant over an operation of the store.
LEMMA StoreKeeps ==
    ASSUME NEW c, c.ids \subseteq Nat \ {0}, StoreInv(c), Written(c), Kept(c)!StoreNext
    PROVE  StoreInv(c)' /\ Written(c)' /\ Kept(c)!StaticStep
<1> DEFINE calm == saving = Kept(c)!Quiet
           result == StoreInv(c)' /\ Written(c)' /\ Kept(c)!StaticStep
<1>1. ASSUME StoreInv(c)', Stays, Written(c)' PROVE result
  BY <1>1, StaticFromStays
<1>2. CASE Kept(c)!Restart
  <2>1. saving' = Kept(c)!Quiet BY <1>2 DEF Kept!Restart
  <2> QED BY <1>2, <2>1, RenewKeeps, QuietIsWritten
<1>3. ASSUME NEW p \in Places(c), NEW content \in Contents(c), Kept(c)!Edit(p, content)
      PROVE  result
  BY <1>1, <1>3, EditKeeps
<1>4. CASE Kept(c)!PersistNext BY <1>1, <1>4, PersistKeeps
<1>5. CASE calm /\ Kept(c)!PreloadNext
  <2>1. saving' = Kept(c)!Quiet BY <1>5 DEF Kept!PreloadNext
  <2> QED BY <1>1, <1>5, <2>1, PreloadKeeps, QuietIsWritten
<1>6. CASE calm /\ Kept(c)!PreloadStart
  <2>1. UNCHANGED <<files, local, cache, saving, touched, inserted, dead>>
    BY <1>6 DEF Kept!PreloadStart
  <2> QED BY <1>1, <1>6, <2>1, SameKeeps, QuietIsWritten
<1>7. CASE calm /\ Kept(c)!IndexLocal
  <2>1. saving' = Kept(c)!Quiet BY <1>7 DEF Kept!IndexLocal
  <2> QED BY <1>7, <2>1, RenewKeeps, QuietIsWritten
<1>8. ASSUME calm, NEW d \in Desc(c), Kept(c)!InsertHot(d) PROVE result
  <2>1. saving' = Kept(c)!Quiet BY <1>8 DEF Kept!InsertHot
  <2> QED BY <1>1, <1>8, <2>1, InsertHotKeeps, QuietIsWritten
<1>9. ASSUME NEW id \in c.ids, Kept(c)!PersistStart(id) PROVE result
  BY <1>1, <1>9, PersistStartKeeps
<1>10. ASSUME calm, NEW id \in c.ids, Kept(c)!PersistRefused(id) PROVE result
  <2>1. saving' = Kept(c)!Quiet BY <1>10 DEF Kept!PersistRefused
  <2> QED BY <1>1, <1>10, <2>1, RefusedKeeps, QuietIsWritten
<1>11. ASSUME calm, NEW id \in c.ids, Kept(c)!Invalidate(id) PROVE result
  <2>1. saving' = Kept(c)!Quiet BY <1>11 DEF Kept!Invalidate
  <2> QED BY <1>11, <2>1, InvalidateStatic, QuietIsWritten
<1>12. ASSUME calm, NEW id, Kept(c)!ResolveId(id) PROVE result
  <2>1. saving' = Kept(c)!Quiet BY <1>12 DEF Kept!ResolveId
  <2> QED BY <1>1, <1>12, <2>1, ResolveIdKeeps, QuietIsWritten
<1>13. ASSUME calm, NEW id \in c.ids, NEW at \in 0 .. c.time, Kept(c)!NoteHotUse(id, at)
       PROVE  result
  <2>1. saving' = Kept(c)!Quiet BY <1>13 DEF Kept!NoteHotUse
  <2> QED BY <1>1, <1>13, <2>1, NoteKeeps, QuietIsWritten
<1>14. ASSUME calm, NEW group, Kept(c)!SelectVariant(group) PROVE result
  <2>1. PICK id : Kept(c)!ResolveId(id) BY <1>14 DEF Kept!SelectVariant
  <2> QED BY <2>1, <1>12, <1>14
<1>15. \/ Kept(c)!Restart \/ Kept(c)!PersistNext
       \/ \E p \in Places(c), content \in Contents(c) : Kept(c)!Edit(p, content)
       \/ calm /\ Kept(c)!PreloadNext
       \/ calm /\ Kept(c)!PreloadStart
       \/ calm /\ Kept(c)!IndexLocal
       \/ calm /\ \E d \in Desc(c) : Kept(c)!InsertHot(d)
       \/ calm /\ \E id \in c.ids :
             \/ Kept(c)!PersistStart(id) \/ Kept(c)!PersistRefused(id)
             \/ Kept(c)!Invalidate(id) \/ Kept(c)!ResolveId(id)
             \/ \E at \in 0 .. c.time : Kept(c)!NoteHotUse(id, at)
       \/ calm /\ \E group : Kept(c)!SelectVariant(group)
  BY DEF Kept!StoreNext, Places, Contents, Desc
<1>16. result
  <2> HIDE DEF calm
  <2>1. ASSUME calm, NEW id \in c.ids,
               \/ Kept(c)!PersistStart(id) \/ Kept(c)!PersistRefused(id)
               \/ Kept(c)!Invalidate(id) \/ Kept(c)!ResolveId(id)
               \/ \E at \in 0 .. c.time : Kept(c)!NoteHotUse(id, at)
        PROVE  result
    BY <2>1, <1>9, <1>10, <1>11, <1>12, <1>13
  <2> QED BY <2>1, <1>2, <1>3, <1>4, <1>5, <1>6, <1>7, <1>8, <1>14, <1>15
<1> QED BY <1>16

\* What the invariant says.
LEMMA StoreInvSays ==
    ASSUME NEW c, StoreInv(c)
    PROVE  /\ Kept(c)!HotMatchesIndex /\ Kept(c)!IndexBacked
           /\ Kept(c)!NoResurrection /\ Kept(c)!SelectionResolves
<1>1. Kept(c)!HotMatchesIndex BY DEF StoreInv, Matched, Kept!HotMatchesIndex
<1>2. Kept(c)!IndexBacked BY DEF StoreInv, Backed, Desc, Kept!IndexBacked
<1>3. Kept(c)!NoResurrection
  <2> SUFFICES ASSUME NEW id \in dead
               PROVE  /\ id \notin DOMAIN cache.hot
                      /\ \A p \in Kept(c)!Present :
                            files[p] = Kept(c)!BadFile \/ files[p].id # id
    BY DEF Kept!NoResurrection
  <2>1. ASSUME NEW p \in Kept(c)!Present, files[p] # Kept(c)!BadFile PROVE files[p] \in Desc(c)
    <3>1. p \in Places(c) /\ files[p] # Kept(c)!NoFile BY DEF Kept!Present, Places
    <3> QED BY <2>1, <3>1 DEF StoreInv, Shaped, Contents
  <2>2. \A p \in Kept(c)!Present : p \in Places(c) BY DEF Kept!Present, Places
  <2> QED BY <2>1, <2>2 DEF StoreInv, Buried
<1>4. Kept(c)!SelectionResolves
  <2> SUFFICES ASSUME NEW group, NEW used
               PROVE  /\ Kept(c)!Members(cache, group) # {} =>
                            Kept(c)!Candidates(cache, group, used) # {}
                      /\ \A id \in Kept(c)!Candidates(cache, group, used) :
                            Kept(c)!Resolvable(cache, id) \/ local[id].path \in touched
    BY DEF Kept!SelectionResolves
  <2>1. Kept(c)!Members(cache, group) # {} => Kept(c)!Candidates(cache, group, used) # {}
    BY DEF Kept!Candidates
  <2>2. Kept(c)!Candidates(cache, group, used) \subseteq Kept(c)!Members(cache, group)
    BY DEF Kept!Candidates
  <2>3. ASSUME NEW id \in Kept(c)!Members(cache, group), id \notin DOMAIN cache.hot
        PROVE  id \in DOMAIN local /\ local[id].version \in c.usable
    BY <2>3 DEF Kept!Members
  <2>4. ASSUME NEW id \in DOMAIN local, local[id].version \in c.usable,
               local[id].path \notin touched
        PROVE  Kept(c)!Resolvable(cache, id)
    BY <2>4 DEF StoreInv, Backed, Desc, Kept!Resolvable, Kept!Reload, Kept!Compatible
  <2>5. \A id \in DOMAIN cache.hot : Kept(c)!Resolvable(cache, id) BY DEF Kept!Resolvable
  <2> QED BY <2>1, <2>2, <2>3, <2>4, <2>5
<1> QED BY <1>1, <1>2, <1>3, <1>4

----------------------------------------------------------------------------
(* The invariant of the engine.                                            *)

Tally == [uses : Nat, positive : Nat, negative : Nat]
Zero == [uses |-> 0, positive |-> 0, negative |-> 0]
Fields == {"uses", "positive", "negative"}
Counted(id) == IF id \in DOMAIN feedback THEN feedback[id] ELSE Zero

\* Counts are numbers.
Tallied(c) ==
    /\ votes \in [c.ids -> Tally]
    /\ \A id \in DOMAIN feedback : feedback[id] \in Tally

\* The windows hold ids that are counted.
Windows(c, r, counted) ==
    \A g \in DOMAIN r :
        r[g] \in Seq(c.ids) /\ \A k \in DOMAIN r[g] : r[g][k] \in counted
Fed(c) == Windows(c, recent, DOMAIN feedback)

\* What is counted was recorded, and what was recorded is counted unless it
\* was evicted.
Current(c) ==
    \A id \in c.ids :
        IF id \in lost
        THEN \A f \in Fields : Counted(id)[f] <= votes[id][f]
        ELSE Counted(id) = votes[id]

EngineInv(c) == Tallied(c) /\ Fed(c) /\ Current(c)

----------------------------------------------------------------------------
(* Windows without an id.                                                  *)

\* The model counts as the library does.
LEMMA KeptCounts == ASSUME NEW c, NEW S PROVE Kept(c)!Cardinality(S) = Cardinality(S)
BY DEF Kept!Cardinality, Cardinality

\* A non-empty set of numbers has a least one.
LEMMA LeastOf ==
    ASSUME NEW S, S \subseteq Nat, S # {}
    PROVE  \E x \in S : \A y \in S : x <= y
<1>1. PICK x \in S : \A y \in S : ~ (<<y, x>> \in OpToRel(<, Nat))
  BY NatLessThanWellFounded, WFMin
<1>2. ASSUME NEW y \in S PROVE x <= y
  <2>1. x \in Nat /\ y \in Nat OBVIOUS
  <2>2. y < x => <<y, x>> \in OpToRel(<, Nat) BY <2>1 DEF OpToRel
  <2>3. ~ (y < x) BY <1>1, <2>2, Zenon
  <2> QED BY <2>1, <2>3
<1> QED BY <1>2

\* Some member of a finite set of numbers has n members up to it.
LEMMA RankIs ==
    ASSUME NEW m \in Nat, NEW S, S \subseteq 1 .. m, NEW n \in 1 .. Cardinality(S)
    PROVE  \E i \in S : Cardinality({j \in S : j <= i}) = n
<1> DEFINE upto(i) == {j \in S : j <= i}
           T == {i \in 1 .. m : Cardinality(upto(i)) >= n}
<1>0. \A j \in S : j \in Nat /\ 1 <= j /\ j <= m OBVIOUS
<1>1. IsFiniteSet(S)
  <2>1. 1 \in Int /\ m \in Int OBVIOUS
  <2>2. IsFiniteSet(1 .. m) BY <2>1, FS_Interval
  <2> QED BY <2>2, FS_Subset
<1>2. \A i : IsFiniteSet(upto(i)) /\ Cardinality(upto(i)) \in Nat
  <2>1. \A i : upto(i) \subseteq S OBVIOUS
  <2> HIDE DEF upto
  <2> QED BY <2>1, <1>1, FS_Subset, FS_CardinalityType
<1>3. m \in T
  <2>1. upto(m) = S BY <1>0
  <2>2. m # 0
    <3> SUFFICES ASSUME m = 0 PROVE FALSE OBVIOUS
    <3>1. S = {}
      <4>1. \A j \in S : FALSE BY <1>0
      <4> QED BY <4>1
    <3>2. Cardinality(S) = 0 BY <3>1, FS_EmptySet
    <3> QED BY <3>2
  <2>3. Cardinality(upto(m)) >= n
    <3>1. Cardinality(S) \in Nat BY <1>1, FS_CardinalityType
    <3> QED BY <2>1, <3>1
  <2> QED BY <2>2, <2>3
<1>4. PICK i \in T : \A j \in T : i <= j
  <2>1. T \subseteq 1 .. m /\ T # {} BY <1>3
  <2>2. 1 .. m \subseteq Nat OBVIOUS
  <2> HIDE DEF T
  <2> QED BY <2>1, <2>2, LeastOf
<1>5. i \in 1 .. m /\ Cardinality(upto(i)) >= n OBVIOUS
<1>6. Cardinality(upto(i - 1)) < n
  <2>1. CASE i = 1
    <3>1. upto(i - 1) = {}
      <4>1. \A j \in S : ~ (j <= i - 1) BY <1>0, <2>1
      <4> QED BY <4>1
    <3>2. Cardinality({}) = 0 BY FS_EmptySet
    <3>3. Cardinality(upto(i - 1)) = 0 BY <3>1, <3>2, Zenon
    <3>4. Cardinality(S) \in Nat BY <1>1, FS_CardinalityType
    <3>5. 0 < n BY <3>4
    <3> HIDE DEF upto
    <3> QED BY <3>3, <3>5
  <2>2. CASE i # 1
    <3>1. i - 1 \in 1 .. m BY <2>2, <1>5
    <3>2. i - 1 \notin T
      <4>1. ~ (i <= i - 1) BY <1>5
      <4> HIDE DEF T
      <4> QED BY <4>1, <1>4
    <3>3. ~ (Cardinality(upto(i - 1)) >= n) BY <3>1, <3>2
    <3>4. Cardinality(upto(i - 1)) \in Nat BY <1>2
    <3> QED BY <3>3, <3>4
  <2> QED BY <2>1, <2>2
<1>7. i \in S
  <2> SUFFICES ASSUME i \notin S PROVE FALSE OBVIOUS
  <2>1. \A j \in S : j <= i <=> j <= i - 1 BY <1>0, <1>5
  <2>3. upto(i) = upto(i - 1) BY <2>1
  <2>2. Cardinality(upto(i)) \in Nat BY <1>2
  <2> HIDE DEF upto
  <2> QED BY <2>2, <2>3, <1>5, <1>6
<1>8. Cardinality(upto(i)) = Cardinality(upto(i - 1)) + 1
  <2>0. \A j \in S : j <= i <=> j <= i - 1 \/ j = i BY <1>0, <1>5
  <2>2. ~ (i <= i - 1) BY <1>5
  <2>1. upto(i) = upto(i - 1) \cup {i} /\ i \notin upto(i - 1) BY <2>0, <2>2, <1>7
  <2> HIDE DEF upto
  <2> QED BY <2>1, <1>2, FS_AddElement
<1>9. Cardinality(upto(i)) = n
  <2>1. Cardinality(upto(i)) \in Nat /\ Cardinality(upto(i - 1)) \in Nat BY <1>2
  <2> HIDE DEF upto
  <2> QED BY <2>1, <1>5, <1>6, <1>8
<1> QED BY <1>7, <1>9

\* A window without an id has what it had, but for the id.
LEMMA PurgedIs ==
    ASSUME NEW c, NEW T, NEW window \in Seq(T), NEW id
    PROVE  LET q == Kept(c)!Purged(window, id)
           IN  /\ q \in Seq(T)
               /\ \A n \in DOMAIN q : q[n] # id /\ \E j \in DOMAIN window : q[n] = window[j]
<1> DEFINE kept == {i \in DOMAIN window : window[i] # id}
           at(n) == CHOOSE i \in kept : Kept(c)!Cardinality({j \in kept : j <= i}) = n
           q == Kept(c)!Purged(window, id)
<1>0. q = [n \in 1 .. Kept(c)!Cardinality(kept) |-> window[at(n)]] BY DEF Kept!Purged
<1>1. q = [n \in 1 .. Cardinality(kept) |-> window[at(n)]]
  <2> HIDE DEF q, at, kept
  <2> QED BY <1>0, KeptCounts
<1>2. Len(window) \in Nat /\ DOMAIN window = 1 .. Len(window) OBVIOUS
<1>3. kept \subseteq 1 .. Len(window) BY <1>2
<1>4. Cardinality(kept) \in Nat
  <2>1. 1 \in Int /\ Len(window) \in Int BY <1>2
  <2>2. IsFiniteSet(1 .. Len(window)) BY <2>1, FS_Interval
  <2> HIDE DEF kept
  <2> QED BY <2>2, <1>3, FS_Subset, FS_CardinalityType
<1>5. \A n \in 1 .. Cardinality(kept) : at(n) \in kept
  <2> HIDE DEF kept
  <2>1. \A n \in 1 .. Cardinality(kept) : \E i \in kept : Cardinality({j \in kept : j <= i}) = n
    BY <1>2, <1>3, RankIs
  <2>2. \A n \in 1 .. Cardinality(kept) :
           \E i \in kept : Kept(c)!Cardinality({j \in kept : j <= i}) = n
    BY <2>1, KeptCounts
  <2> QED BY <2>2
<1>6. \A n \in 1 .. Cardinality(kept) : q[n] = window[at(n)] BY <1>1
<1> HIDE DEF at, q
<1>7. \A n \in 1 .. Cardinality(kept) : at(n) \in DOMAIN window /\ window[at(n)] # id BY <1>5
<1>8. \A n \in 1 .. Cardinality(kept) : q[n] \in T BY <1>6, <1>7
<1>9. DOMAIN q = 1 .. Cardinality(kept) BY <1>1
<1>10. q \in Seq(T)
  <2> HIDE DEF kept
  <2>1. q = [n \in 1 .. Cardinality(kept) |-> q[n]] BY <1>1, <1>9
  <2> QED BY <2>1, <1>4, <1>8, SeqDef
<1> QED BY <1>6, <1>7, <1>9, <1>10 DEF q

\* Dropping an id from every window leaves ids that are counted without it.
LEMMA DropIs ==
    ASSUME NEW c, NEW r, NEW id, NEW counted, Windows(c, r, counted)
    PROVE  Windows(c, Kept(c)!DropRecent(r, id), counted \ {id})
<1> DEFINE d == Kept(c)!DropRecent(r, id)
<1>1. \A g \in DOMAIN d : g \in DOMAIN r /\ d[g] = Kept(c)!Purged(r[g], id)
  BY DEF Kept!DropRecent
<1> HIDE DEF d
<1>2. ASSUME NEW g \in DOMAIN d
      PROVE  d[g] \in Seq(c.ids) /\ \A k \in DOMAIN d[g] : d[g][k] \in counted \ {id}
  <2>1. r[g] \in Seq(c.ids) /\ \A k \in DOMAIN r[g] : r[g][k] \in counted
    BY <1>1, <1>2 DEF Windows
  <2> DEFINE w == r[g]
             q == Kept(c)!Purged(w, id)
  <2>2. d[g] = q BY <1>1, <1>2
  <2>3. w \in Seq(c.ids) /\ \A k \in DOMAIN w : w[k] \in counted BY <2>1
  <2> HIDE DEF w
  <2>4. /\ q \in Seq(c.ids)
        /\ \A n \in DOMAIN q : q[n] # id /\ \E j \in DOMAIN w : q[n] = w[j]
    BY <2>3, PurgedIs
  <2> HIDE DEF q
  <2> QED BY <2>2, <2>3, <2>4
<1> QED BY <1>2 DEF Windows, d

----------------------------------------------------------------------------
(* The invariant over the engine's steps.                                  *)

\* The engine's counts as the model reads them.
LEMMA FeedbackIs == ASSUME NEW c, NEW id PROVE Kept(c)!FeedbackOf(id) = Counted(id)
BY DEF Kept!FeedbackOf, Kept!None, Counted, Zero

\* The counts that are left once there is room for one more.
Room(c, id) ==
    IF Kept(c)!Full(id) THEN DOMAIN feedback \ {Kept(c)!Victim} ELSE DOMAIN feedback

\* Counting adds one to what was counted of the id and makes room if it must.
LEMMA CountIs ==
    ASSUME NEW c, NEW id \in c.ids, NEW field \in Fields, Tallied(c), Kept(c)!Count(id, field)
    PROVE  /\ DOMAIN feedback' = Room(c, id) \cup {id}
           /\ \A i \in Room(c, id) : i # id => feedback'[i] = feedback[i]
           /\ feedback'[id] = [Counted(id) EXCEPT ![field] = @ + 1]
           /\ votes' = [votes EXCEPT ![id][field] = @ + 1]
           /\ lost' = IF Kept(c)!Full(id) THEN lost \cup {Kept(c)!Victim} ELSE lost
<1> DEFINE full == Kept(c)!Full(id)
           v == Kept(c)!Victim
           room == IF full THEN Kept(c)!Without(feedback, {v}) ELSE feedback
           old == IF id \in DOMAIN room THEN room[id] ELSE Kept(c)!None
<1>1. /\ feedback' = Kept(c)!Put(room, id, [old EXCEPT ![field] = @ + 1])
      /\ votes' = [votes EXCEPT ![id][field] = @ + 1]
      /\ lost' = IF full THEN lost \cup {v} ELSE lost
  BY DEF Kept!Count
<1>2. full => id \notin DOMAIN feedback BY DEF Kept!Full
<1> HIDE DEF full, v
<1>3. DOMAIN room = Room(c, id) /\ \A i \in DOMAIN room : room[i] = feedback[i]
  BY DEF Room, Kept!Without, Kept!Restrict, full, v
<1>4. id \in DOMAIN room <=> id \in DOMAIN feedback
  <2>1. CASE full BY <2>1, <1>2 DEF Kept!Without, Kept!Restrict
  <2>2. CASE ~full BY <2>2
  <2> QED BY <2>1, <2>2
<1>5. old = Counted(id) BY <1>3, <1>4 DEF Counted, Zero, Kept!None
<1> HIDE DEF room, old
<1>6. /\ DOMAIN feedback' = DOMAIN room \cup {id}
      /\ \A i \in DOMAIN room : i # id => feedback'[i] = room[i]
      /\ feedback'[id] = [old EXCEPT ![field] = @ + 1]
  BY <1>1 DEF Kept!Put
<1> QED BY <1>1, <1>3, <1>5, <1>6 DEF full, v

\* Recording a use or a label keeps the counts of every id current.
LEMMA CountKeeps ==
    ASSUME NEW c, NEW id \in c.ids, NEW field \in Fields, Tallied(c), Current(c),
           Kept(c)!Count(id, field)
    PROVE  Tallied(c)' /\ Current(c)' /\ DOMAIN feedback' = Room(c, id) \cup {id}
<1> DEFINE v == Kept(c)!Victim
           full == Kept(c)!Full(id)
<1>1. /\ DOMAIN feedback' = Room(c, id) \cup {id}
      /\ \A i \in Room(c, id) : i # id => feedback'[i] = feedback[i]
      /\ feedback'[id] = [Counted(id) EXCEPT ![field] = @ + 1]
      /\ votes' = [votes EXCEPT ![id][field] = @ + 1]
      /\ lost' = IF full THEN lost \cup {v} ELSE lost
  BY CountIs
<1>2. Room(c, id) = IF full THEN DOMAIN feedback \ {v} ELSE DOMAIN feedback BY DEF Room
<1> HIDE DEF v, full
<1>3. votes \in [c.ids -> Tally] /\ \A i \in DOMAIN feedback : feedback[i] \in Tally
  BY DEF Tallied
<1>4. \A i : Counted(i) \in Tally BY <1>3 DEF Counted, Zero, Tally
<1>5. ASSUME NEW t \in Tally
      PROVE  /\ [t EXCEPT ![field] = @ + 1] \in Tally
             /\ [t EXCEPT ![field] = @ + 1][field] = t[field] + 1
             /\ \A f \in Fields : f # field => [t EXCEPT ![field] = @ + 1][f] = t[f]
  BY DEF Tally, Fields
<1>6. votes' = [votes EXCEPT ![id] = [votes[id] EXCEPT ![field] = @ + 1]] BY <1>1
<1>7. /\ votes'[id] = [votes[id] EXCEPT ![field] = @ + 1]
      /\ \A i \in c.ids : i # id => votes'[i] = votes[i]
  BY <1>3, <1>6
<1>8. Tallied(c)'
  <2>1. votes[id] \in Tally BY <1>3
  <2>2. votes' \in [c.ids -> Tally] BY <2>1, <1>3, <1>5, <1>6
  <2>3. feedback'[id] \in Tally BY <1>1, <1>4, <1>5
  <2>4. \A i \in DOMAIN feedback' : feedback'[i] \in Tally BY <2>3, <1>1, <1>2, <1>3
  <2> QED BY <2>2, <2>4 DEF Tallied
<1>9. Current(c)'
  <2> SUFFICES ASSUME NEW i \in c.ids
               PROVE  IF i \in lost' THEN \A f \in Fields : Counted(i)'[f] <= votes'[i][f]
                                     ELSE Counted(i)' = votes'[i]
    BY DEF Current
  <2>1. IF i \in lost THEN \A f \in Fields : Counted(i)[f] <= votes[i][f]
                      ELSE Counted(i) = votes[i]
    BY DEF Current
  <2>2. \A f \in Fields : Counted(i)[f] \in Nat /\ votes[i][f] \in Nat
    BY <1>3, <1>4 DEF Tally, Fields
  <2>3. \A f \in Fields : Counted(i)[f] <= votes[i][f] BY <2>1, <2>2
  <2>4. i \in lost => i \in lost' BY <1>1
  <2>5. CASE i = id
    <3>1. Counted(i)' = [Counted(i) EXCEPT ![field] = @ + 1] BY <2>5, <1>1 DEF Counted
    <3>2. votes'[i] = [votes[i] EXCEPT ![field] = @ + 1] BY <2>5, <1>7
    <3>3. Counted(i) = votes[i] => Counted(i)' = votes'[i] BY <3>1, <3>2
    <3>4. \A f \in Fields : Counted(i)'[f] <= votes'[i][f]
      <4>1. votes[i] \in Tally /\ Counted(i) \in Tally BY <1>3, <1>4
      <4>2. ASSUME NEW f \in Fields, f = field PROVE Counted(i)'[f] <= votes'[i][f]
        <5>1. Counted(i)'[f] = Counted(i)[f] + 1 /\ votes'[i][f] = votes[i][f] + 1
          BY <4>1, <4>2, <3>1, <3>2, <1>5
        <5> QED BY <5>1, <2>2, <2>3
      <4>3. ASSUME NEW f \in Fields, f # field PROVE Counted(i)'[f] <= votes'[i][f]
        <5>1. Counted(i)'[f] = Counted(i)[f] /\ votes'[i][f] = votes[i][f]
          BY <4>1, <4>3, <3>1, <3>2, <1>5
        <5> QED BY <5>1, <2>3
      <4> QED BY <4>2, <4>3
    <3> QED BY <3>3, <3>4, <2>1, <2>4
  <2>6. CASE i # id
    <3>1. votes'[i] = votes[i] BY <2>6, <1>7
    <3>2. CASE full /\ i = v /\ i \in DOMAIN feedback
      <4>1. Counted(i)' = Zero /\ i \in lost' BY <3>2, <2>6, <1>1, <1>2 DEF Counted
      <4> QED BY <4>1, <3>1, <2>2 DEF Zero, Fields
    <3>3. CASE ~ (full /\ i = v /\ i \in DOMAIN feedback)
      <4>1. Counted(i)' = Counted(i) BY <3>3, <2>6, <1>1, <1>2 DEF Counted
      <4> QED BY <4>1, <3>1, <2>1, <2>3, <2>4
    <3> QED BY <3>2, <3>3
  <2> QED BY <2>5, <2>6
<1> QED BY <1>1, <1>8, <1>9

\* The windows after room was made.
LEMMA RoomFed ==
    ASSUME NEW c, NEW id, Fed(c)
    PROVE  Windows(c, Kept(c)!RecentAfterRoom(id), Room(c, id))
<1>1. CASE Kept(c)!Full(id)
  <2>1. /\ Kept(c)!RecentAfterRoom(id) = Kept(c)!DropRecent(recent, Kept(c)!Victim)
        /\ Room(c, id) = DOMAIN feedback \ {Kept(c)!Victim}
    BY <1>1 DEF Kept!RecentAfterRoom, Room
  <2> QED BY <2>1, DropIs DEF Fed
<1>2. CASE ~Kept(c)!Full(id) BY <1>2 DEF Kept!RecentAfterRoom, Room, Fed
<1> QED BY <1>1, <1>2

\* The end of a window that got an id.
LEMMA EndIs ==
    ASSUME NEW T, NEW w \in Seq(T), NEW size \in Nat, size <= Len(w)
    PROVE  LET q == SubSeq(w, Len(w) - size + 1, Len(w))
           IN  q \in Seq(T) /\ \A k \in DOMAIN q : \E j \in DOMAIN w : q[k] = w[j]
<1> DEFINE q == SubSeq(w, Len(w) - size + 1, Len(w))
<1>1. Len(w) \in Nat /\ DOMAIN w = 1 .. Len(w) OBVIOUS
<1>2. q = [k \in 1 .. size |-> w[k + Len(w) - size]]
  <2>1. q = [k \in 1 .. (Len(w) - (Len(w) - size + 1) + 1) |-> w[(Len(w) - size + 1) + k - 1]]
    OBVIOUS
  <2>2. Len(w) - (Len(w) - size + 1) + 1 = size BY <1>1
  <2>3. \A k \in 1 .. size : (Len(w) - size + 1) + k - 1 = k + Len(w) - size BY <1>1
  <2> QED BY <2>1, <2>2, <2>3
<1>3. \A k \in 1 .. size : k + Len(w) - size \in DOMAIN w BY <1>1
<1>4. \A k \in 1 .. size : w[k + Len(w) - size] \in T BY <1>3
<1> HIDE DEF q
<1>5. DOMAIN q = 1 .. size /\ \A k \in DOMAIN q : q[k] = w[k + Len(w) - size] BY <1>2
<1>6. q \in Seq(T) BY <1>2, <1>4, SeqDef
<1> QED BY <1>3, <1>5, <1>6 DEF q

\* A use joins the window of its group.
LEMMA PushIs ==
    ASSUME NEW c, c.policy.window \in Nat, NEW r, NEW group, NEW id \in c.ids, NEW counted,
           Windows(c, r, counted), Kept(c)!PushRecent(r, group, id)
    PROVE  Windows(c, recent', counted \cup {id})
<1> DEFINE order == Kept(c)!OrderOf(r)
           full == group \notin DOMAIN r /\ Kept(c)!Cardinality(DOMAIN r) >= c.policy.groups
           room == IF full THEN Kept(c)!Without(r, {Head(order)}) ELSE r
           pushed == Append(IF group \in DOMAIN room THEN room[group] ELSE <<>>, id)
           size == Kept(c)!Min({Len(pushed), c.policy.window})
           q == SubSeq(pushed, Len(pushed) - size + 1, Len(pushed))
<1>1. recent' = Kept(c)!Put(room, group, q) BY DEF Kept!PushRecent
<1>2. \A g \in DOMAIN room : g \in DOMAIN r /\ room[g] = r[g]
  BY DEF Kept!Without, Kept!Restrict
<1> HIDE DEF room
<1>3. \A g \in DOMAIN room :
          room[g] \in Seq(c.ids) /\ \A k \in DOMAIN room[g] : room[g][k] \in counted
  BY <1>2 DEF Windows
<1>4. pushed \in Seq(c.ids) /\ \A k \in DOMAIN pushed : pushed[k] \in counted \cup {id}
  <2> DEFINE old == IF group \in DOMAIN room THEN room[group] ELSE <<>>
  <2>1. old \in Seq(c.ids) /\ \A k \in DOMAIN old : old[k] \in counted
    <3>1. CASE group \in DOMAIN room BY <3>1, <1>3
    <3>2. CASE group \notin DOMAIN room
      <4>1. old = <<>> BY <3>2
      <4> HIDE DEF old
      <4> QED BY <4>1
    <3> QED BY <3>1, <3>2
  <2> HIDE DEF old
  <2>2. /\ Append(old, id) \in Seq(c.ids) /\ Len(Append(old, id)) = Len(old) + 1
        /\ \A k \in 1 .. Len(old) : Append(old, id)[k] = old[k]
        /\ Append(old, id)[Len(old) + 1] = id
    BY <2>1
  <2>3. Len(old) \in Nat /\ DOMAIN old = 1 .. Len(old) BY <2>1
  <2>4. DOMAIN Append(old, id) = 1 .. Len(old) + 1 BY <2>2
  <2>5. \A k \in DOMAIN Append(old, id) : Append(old, id)[k] \in counted \cup {id}
    BY <2>1, <2>2, <2>3, <2>4
  <2>6. pushed = Append(old, id) BY DEF old
  <2> QED BY <2>2, <2>5, <2>6
<1> HIDE DEF pushed
<1>5. size \in Nat /\ size <= Len(pushed)
  <2>1. Len(pushed) \in Nat BY <1>4
  <2>2. \A m, n \in Nat : Kept(c)!Min({m, n}) \in Nat /\ Kept(c)!Min({m, n}) <= m
    <3> SUFFICES ASSUME NEW m \in Nat, NEW n \in Nat
                 PROVE  Kept(c)!Min({m, n}) \in Nat /\ Kept(c)!Min({m, n}) <= m
      OBVIOUS
    <3>1. \E x \in {m, n} : \A y \in {m, n} : x <= y
      <4>1. m <= n \/ n <= m OBVIOUS
      <4> QED BY <4>1
    <3>2. /\ Kept(c)!Min({m, n}) \in {m, n}
          /\ \A y \in {m, n} : Kept(c)!Min({m, n}) <= y
      BY <3>1 DEF Kept!Min
    <3> QED BY <3>2
  <2> QED BY <2>1, <2>2
<1> HIDE DEF size
<1>6. q \in Seq(c.ids) /\ \A k \in DOMAIN q : \E j \in DOMAIN pushed : q[k] = pushed[j]
  BY <1>4, <1>5, EndIs
<1> HIDE DEF q
<1>7. \A g \in DOMAIN recent' : recent'[g] = IF g = group THEN q ELSE room[g]
  BY <1>1 DEF Kept!Put
<1>8. \A g \in DOMAIN recent' : g = group \/ g \in DOMAIN room BY <1>1 DEF Kept!Put
<1> QED BY <1>3, <1>4, <1>6, <1>7, <1>8 DEF Windows

\* A use or a label is recorded.
LEMMA RecordKeeps ==
    ASSUME NEW c, c.policy.window \in Nat, EngineInv(c), NEW id \in c.ids,
           Kept(c)!RecordUse(id) \/ \E positive \in BOOLEAN : Kept(c)!RecordQuality(id, positive)
    PROVE  EngineInv(c)'
<1>1. PICK field \in Fields : Kept(c)!Count(id, field)
  BY DEF Kept!RecordUse, Kept!RecordQuality, Fields
<1>2. Tallied(c)' /\ Current(c)' /\ DOMAIN feedback' = Room(c, id) \cup {id}
  BY <1>1, CountKeeps DEF EngineInv
<1>3. Windows(c, Kept(c)!RecentAfterRoom(id), Room(c, id)) BY RoomFed DEF EngineInv
<1>4. Windows(c, recent', Room(c, id) \cup {id})
  <2>1. CASE Kept(c)!RecordUse(id)
    <3>1. Kept(c)!PushRecent(Kept(c)!RecentAfterRoom(id), c.groups[id], id)
      BY <2>1 DEF Kept!RecordUse
    <3> QED BY <3>1, <1>3, PushIs
  <2>2. CASE \E positive \in BOOLEAN : Kept(c)!RecordQuality(id, positive)
    <3>1. recent' = Kept(c)!RecentAfterRoom(id) BY <2>2 DEF Kept!RecordQuality
    <3> QED BY <3>1, <1>3 DEF Windows
  <2> QED BY <2>1, <2>2
<1>5. Fed(c)' BY <1>2, <1>4 DEF Fed, Windows
<1> QED BY <1>2, <1>5 DEF EngineInv

\* Nothing of the engine changes but its log.
LEMMA RememberedKeeps ==
    ASSUME NEW c, EngineInv(c), UNCHANGED <<feedback, recent, votes, lost>>
    PROVE  EngineInv(c)'
BY DEF EngineInv, Tallied, Fed, Windows, Current, Counted

\* An asset is forgotten with everything that was counted for it.
LEMMA ForgetKeeps ==
    ASSUME NEW c, EngineInv(c), NEW id \in c.ids, Kept(c)!Forget(id),
           votes' = [votes EXCEPT ![id] = Kept(c)!None], lost' = lost \ {id}
    PROVE  EngineInv(c)'
<1>1. feedback' = Kept(c)!Without(feedback, {id}) /\ recent' = Kept(c)!DropRecent(recent, id)
  BY DEF Kept!Forget
<1>2. /\ DOMAIN feedback' = DOMAIN feedback \ {id}
      /\ \A i \in DOMAIN feedback' : feedback'[i] = feedback[i]
  BY <1>1 DEF Kept!Without, Kept!Restrict
<1>3. votes \in [c.ids -> Tally] /\ Zero \in Tally /\ Kept(c)!None = Zero
  BY DEF EngineInv, Tallied, Tally, Zero, Kept!None
<1>4. /\ votes' \in [c.ids -> Tally] /\ votes'[id] = Zero
      /\ \A i \in c.ids : i # id => votes'[i] = votes[i]
  BY <1>3
<1>5. Tallied(c)' BY <1>2, <1>4 DEF EngineInv, Tallied
<1>6. Fed(c)'
  <2>1. Windows(c, recent', DOMAIN feedback \ {id}) BY <1>1, DropIs DEF EngineInv, Fed
  <2> QED BY <2>1, <1>2 DEF Fed, Windows
<1>7. Counted(id)' = Zero /\ \A i : i # id => Counted(i)' = Counted(i) BY <1>2 DEF Counted
<1>8. Current(c)' BY <1>4, <1>7 DEF EngineInv, Current
<1> QED BY <1>5, <1>6, <1>8 DEF EngineInv

\* A new engine has counted nothing.
LEMMA EngineInvFresh ==
    ASSUME NEW c, DOMAIN feedback = {}, DOMAIN recent = {},
           votes = [id \in c.ids |-> Kept(c)!None], lost = {}
    PROVE  EngineInv(c)
BY DEF EngineInv, Tallied, Fed, Windows, Current, Counted, Tally, Zero, Kept!None

----------------------------------------------------------------------------
(* The store under the engine.                                             *)

\* The invariant of the part that moves.
KeptInv(c) == StoreInv(c) /\ Written(c) /\ EngineInv(c)

\* What a step keeps.
KeptStep(c) == KeptInv(c)' /\ Kept(c)!StaticStep

\* What the limits are.
LEMMA LimitsAre ==
    ASSUME NEW c, Kept(c)!StoreAssumption, Kept(c)!PolicyAssumption
    PROVE  c.ids \subseteq Nat \ {0} /\ c.policy.window \in Nat /\ c.policy.negative \in Nat \ {0}
BY DEF Kept!StoreAssumption, Kept!PolicyAssumption

\* The engine's own state stays.
Unseen == UNCHANGED <<feedback, recent, votes, lost>>

\* A step of the store that the engine does not see.
LEMMA UnseenKeeps ==
    ASSUME NEW c, EngineInv(c), Unseen, StoreInv(c)', Written(c)', Kept(c)!StaticStep
    PROVE  KeptStep(c)
<1>1. EngineInv(c)' BY RememberedKeeps DEF Unseen
<1> QED BY <1>1 DEF KeptStep, KeptInv

\* Applying the policy to a generated asset.
LEMMA ApplyKeeps ==
    ASSUME NEW c, c.ids \subseteq Nat \ {0}, KeptInv(c), saving = Kept(c)!Quiet,
           NEW id \in c.ids, Kept(c)!Apply(id)
    PROVE  KeptStep(c)
<1>0. StoreInv(c) /\ EngineInv(c) BY DEF KeptInv
<1>1. CASE Kept(c)!ApplyKeep(id) \/ Kept(c)!ApplyInvalidateRefused(id)
  <2>1. /\ cache' = [cache EXCEPT !.recency = Kept(c)!Touch(cache.recency, id)]
        /\ UNCHANGED <<files, local, saving, touched, inserted, dead>>
        /\ UNCHANGED <<feedback, recent, votes, lost>>
    BY <1>0, <1>1 DEF Kept!ApplyKeep, Kept!ApplyInvalidateRefused, Kept!HotGet, Kept!Remembered,
       StoreInv, Shaped
  <2>2. StoreInv(c)' /\ Stays BY <2>1, <1>0, TouchKeeps
  <2>3. EngineInv(c)' BY <2>1, <1>0, RememberedKeeps
  <2>4. Written(c)' BY <2>1, QuietIsWritten
  <2> QED BY <2>2, <2>3, <2>4, <1>0, StaticFromStays DEF KeptStep, KeptInv
<1>2. CASE Kept(c)!ApplyPromote(id)
  <2>1. /\ Kept(c)!PersistStart(id) \/ Kept(c)!PersistRefused(id)
        /\ UNCHANGED <<feedback, recent, votes, lost>>
    BY <1>2 DEF Kept!ApplyPromote, Kept!Remembered
  <2>2. Kept(c)!PersistRefused(id) => saving' = Kept(c)!Quiet BY DEF Kept!PersistRefused
  <2>3. StoreInv(c)' /\ Stays /\ Written(c)'
    BY <2>1, <2>2, <1>0, PersistStartKeeps, RefusedKeeps, QuietIsWritten
  <2>4. EngineInv(c)' BY <2>1, <1>0, RememberedKeeps
  <2> QED BY <2>3, <2>4, <1>0, StaticFromStays DEF KeptStep, KeptInv
<1>3. CASE Kept(c)!ApplyInvalidate(id)
  <2>1. /\ Kept(c)!Invalidate(id) /\ Kept(c)!Forget(id)
        /\ votes' = [votes EXCEPT ![id] = Kept(c)!None] /\ lost' = lost \ {id}
    BY <1>3 DEF Kept!ApplyInvalidate
  <2>2. StoreInv(c)' /\ Kept(c)!StaticStep BY <2>1, <1>0, InvalidateStatic
  <2>3. EngineInv(c)' BY <2>1, <1>0, ForgetKeeps
  <2>4. saving' = Kept(c)!Quiet BY <2>1 DEF Kept!Invalidate
  <2> QED BY <2>2, <2>3, <2>4, QuietIsWritten DEF KeptStep, KeptInv
<1> QED BY <1>1, <1>2, <1>3 DEF Kept!Apply

\* The invariant over a step of the engine.
LEMMA EngineKeeps ==
    ASSUME NEW c, c.ids \subseteq Nat \ {0}, c.policy.window \in Nat, KeptInv(c), Kept(c)!Next
    PROVE  KeptStep(c)
<1> DEFINE calm == saving = Kept(c)!Quiet
           settled == saving' = Kept(c)!Quiet
<1>0. StoreInv(c) /\ Written(c) /\ EngineInv(c) BY DEF KeptInv
<1>1. ASSUME StoreInv(c)', Stays, Unseen, Written(c)' PROVE KeptStep(c)
  BY <1>0, <1>1, UnseenKeeps, StaticFromStays
<1>2. ASSUME calm, NEW d \in Desc(c), Kept(c)!InsertHot(d), Unseen PROVE KeptStep(c)
  <2>1. settled BY <1>2 DEF Kept!InsertHot
  <2> QED BY <1>0, <1>1, <1>2, <2>1, InsertHotKeeps, QuietIsWritten
<1>3. ASSUME calm, NEW id, Kept(c)!ResolveId(id), Unseen PROVE KeptStep(c)
  <2>1. settled BY <1>3 DEF Kept!ResolveId
  <2> QED BY <1>0, <1>1, <1>3, <2>1, ResolveIdKeeps, QuietIsWritten
<1>4. ASSUME NEW p \in Places(c), NEW d \in Desc(c), Kept(c)!Edit(p, d), Unseen
      PROVE  KeptStep(c)
  <2>1. d \in Contents(c) BY DEF Contents
  <2> QED BY <1>0, <1>1, <1>4, <2>1, EditKeeps
<1>5. ASSUME calm, Kept(c)!IndexLocal, Unseen PROVE KeptStep(c)
  <2>1. settled BY <1>5 DEF Kept!IndexLocal
  <2> QED BY <1>0, <1>5, <2>1, RenewKeeps, UnseenKeeps, QuietIsWritten
<1>6. ASSUME calm, NEW id \in c.ids, Kept(c)!RecordUse(id) PROVE KeptStep(c)
  <2>1. Kept(c)!NoteHotUse(id, 0) BY <1>6 DEF Kept!RecordUse
  <2>2. StoreInv(c)' /\ Stays BY <2>1, <1>0, NoteKeeps
  <2>3. EngineInv(c)' BY <1>0, <1>6, RecordKeeps
  <2>4. settled BY <1>6, <2>1 DEF Kept!NoteHotUse
  <2> QED BY <2>2, <2>3, <2>4, <1>0, StaticFromStays, QuietIsWritten DEF KeptStep, KeptInv
<1>7. ASSUME calm, NEW id \in c.ids, NEW positive \in BOOLEAN,
             Kept(c)!RecordQuality(id, positive)
      PROVE  KeptStep(c)
  <2>1. UNCHANGED <<files, local, cache, saving, touched, inserted, dead>>
    BY <1>7 DEF Kept!RecordQuality, Kept!storeVars
  <2>2. StoreInv(c)' /\ Stays BY <2>1, <1>0, SameKeeps
  <2>3. EngineInv(c)' BY <1>0, <1>7, RecordKeeps
  <2>4. settled BY <1>7, <2>1
  <2> QED BY <2>2, <2>3, <2>4, <1>0, StaticFromStays, QuietIsWritten DEF KeptStep, KeptInv
<1>8. CASE Kept(c)!RestartAll
  <2>1. Kept(c)!Restart BY <1>8 DEF Kept!RestartAll
  <2>2. StoreInv(c)' /\ Kept(c)!StaticStep BY <2>1, <1>0, RenewKeeps
  <2>3. /\ DOMAIN feedback' = {} /\ DOMAIN recent' = {}
        /\ votes' = [id \in c.ids |-> Kept(c)!None] /\ lost' = {}
    BY <1>8 DEF Kept!RestartAll, Kept!Empty
  <2>4. EngineInv(c)'
    BY <2>3 DEF EngineInv, Tallied, Fed, Windows, Current, Counted, Tally, Zero, Kept!None
  <2>5. settled BY <2>1 DEF Kept!Restart
  <2> QED BY <2>2, <2>4, <2>5, QuietIsWritten DEF KeptStep, KeptInv
<1>9. ASSUME calm, NEW id \in c.ids, Kept(c)!Apply(id) PROVE KeptStep(c)
  BY <1>9, ApplyKeeps
<1>10. CASE Kept(c)!PersistNext /\ Unseen BY <1>0, <1>1, <1>10, PersistKeeps
<1>11. \/ calm /\ \E d \in Desc(c) : Kept(c)!InsertHot(d) /\ Unseen
       \/ calm /\ \E id \in c.ids :
             \/ Kept(c)!ResolveId(id) /\ Unseen
             \/ Kept(c)!RecordUse(id) \/ Kept(c)!Apply(id)
             \/ \E positive \in BOOLEAN : Kept(c)!RecordQuality(id, positive)
       \/ calm /\ Kept(c)!IndexLocal /\ Unseen
       \/ \E p \in Places(c), d \in Desc(c) : Kept(c)!Edit(p, d) /\ Unseen
       \/ Kept(c)!RestartAll
       \/ Kept(c)!PersistNext /\ Unseen
  BY DEF Kept!Next, Kept!Step, Kept!engineVars, Unseen, Places, Desc
<1>12. KeptStep(c)
  <2> HIDE DEF calm
  <2> QED BY <1>2, <1>3, <1>4, <1>5, <1>6, <1>7, <1>8, <1>9, <1>10, <1>11
<1> QED BY <1>12

\* A rejected asset goes.
LEMMA RejectedGoesAway ==
    ASSUME NEW c, c.ids \subseteq Nat \ {0}, KeptInv(c), c.policy.negative \in Nat \ {0}
    PROVE  Kept(c)!RejectedStep
<1> SUFFICES ASSUME NEW id \in c.ids, votes[id].negative >= c.policy.negative, id \notin lost,
                    Kept(c)!Apply(id)
             PROVE  \/ id \notin DOMAIN cache'.hot /\ id \notin DOMAIN local'
                    \/ /\ id \in DOMAIN local /\ ~files[local[id].path].generated
                       /\ local' = local
  BY DEF Kept!RejectedStep
<1>1. Kept(c)!FeedbackOf(id) = votes[id]
  BY FeedbackIs DEF KeptInv, EngineInv, Current
<1>2. Kept(c)!Verdict(Kept(c)!FeedbackOf(id)) = "invalidate"
  BY <1>1 DEF Kept!Verdict, Kept!Rejected
<1>3. Kept(c)!ApplyInvalidate(id) \/ Kept(c)!ApplyInvalidateRefused(id)
  BY <1>2 DEF Kept!Apply, Kept!ApplyKeep, Kept!ApplyPromote
<1>4. CASE Kept(c)!ApplyInvalidate(id)
  <2>1. Kept(c)!Invalidate(id) BY <1>4 DEF Kept!ApplyInvalidate
  <2> QED BY <2>1, InvalidateKeeps DEF KeptInv
<1>5. CASE Kept(c)!ApplyInvalidateRefused(id)
  <2>1. /\ ~Kept(c)!Invalidatable(id) /\ id \in DOMAIN cache.hot /\ cache.hot[id].generated
        /\ local' = local
    BY <1>5 DEF Kept!ApplyInvalidateRefused, Kept!Evaluated
  <2>2. id \in DOMAIN local BY <2>1 DEF Kept!Invalidatable
  <2>3. local[id].path \in Places(c) BY <2>2 DEF KeptInv, StoreInv, Shaped
  <2>4. files[local[id].path] \in Contents(c) BY <2>3 DEF KeptInv, StoreInv, Shaped
  <2>5. CASE files[local[id].path] \in Desc(c)
    BY <2>1, <2>2, <2>5 DEF Kept!Invalidatable, Desc
  <2>6. CASE files[local[id].path] \in {Kept(c)!NoFile, Kept(c)!BadFile}
    BY <2>1, <2>2, <2>6, DescIs
  <2> QED BY <2>4, <2>5, <2>6 DEF Contents
<1> QED BY <1>3, <1>4, <1>5

\* What the engine's part of the invariant says.
LEMMA EngineInvSays ==
    ASSUME NEW c, EngineInv(c)
    PROVE  Kept(c)!RecentHasFeedback /\ Kept(c)!FeedbackIsCurrent
<1>1. Kept(c)!RecentHasFeedback
  BY DEF EngineInv, Fed, Windows, Kept!RecentHasFeedback, Kept!Range
<1>2. Kept(c)!FeedbackIsCurrent
  <2> SUFFICES ASSUME NEW id \in c.ids
               PROVE  IF id \in lost
                      THEN /\ Counted(id).uses <= votes[id].uses
                           /\ Counted(id).positive <= votes[id].positive
                           /\ Counted(id).negative <= votes[id].negative
                      ELSE Counted(id) = votes[id]
    BY FeedbackIs DEF Kept!FeedbackIsCurrent
  <2> QED BY DEF EngineInv, Current, Fields
<1> QED BY <1>1, <1>2

----------------------------------------------------------------------------
(* The theorems.                                                           *)

\* The invariant of whichever store moves.
KeptHolds == \A c \in Moving : KeptInv(c)

\* At the start.
LEMMA KeptHoldsInit == Init => KeptHolds
<1> SUFFICES ASSUME Init, NEW c \in Moving PROVE KeptInv(c) BY DEF KeptHolds
<1>1. part \in {"store", "engine"} /\ c = limits BY DEF Moving
<1>2. Kept(c)!Init BY <1>1 DEF Init
<1>3. Kept(c)!StoreInit /\ Kept(c)!EngineInit BY <1>2 DEF Kept!Init
<1>4. StoreInv(c) /\ Written(c) BY <1>3, StoreInvInit
<1>5. /\ DOMAIN feedback = {} /\ DOMAIN recent = {}
      /\ votes = [id \in c.ids |-> Kept(c)!None] /\ lost = {}
  BY <1>3 DEF Kept!EngineInit, Kept!Empty
<1>6. EngineInv(c) BY <1>5, EngineInvFresh
<1> QED BY <1>4, <1>6 DEF KeptInv

\* While another part moves, or nothing does.
LEMMA KeptHoldsKept ==
    KeptHolds /\ UNCHANGED <<part, limits, storeVars, engineVars>> => KeptHolds'
<1> SUFFICES ASSUME KeptHolds, UNCHANGED <<part, limits, storeVars, engineVars>>,
                    NEW c \in Moving'
             PROVE  KeptInv(c)'
  BY DEF KeptHolds
<1>1. /\ c \in Moving /\ Unseen
      /\ UNCHANGED <<files, local, cache, saving, touched, inserted, dead>>
  BY DEF Moving, storeVars, engineVars, Unseen
<1>2. StoreInv(c) /\ Written(c) /\ EngineInv(c) BY <1>1 DEF KeptHolds, KeptInv
<1>3. StoreInv(c)' BY <1>1, <1>2, SameKeeps
<1>4. Written(c)' BY <1>1, <1>2 DEF Written, Kept!Quiet, Kept!NoFile
<1>5. EngineInv(c)' BY <1>1, <1>2, RememberedKeeps DEF Unseen
<1> QED BY <1>3, <1>4, <1>5 DEF KeptInv

\* A step of the store or of the engine.
LEMMA MovingStep ==
    ASSUME KeptHolds, Next, NEW c \in Moving
    PROVE  KeptStep(c) /\ Kept(c)!RejectedStep
<1>1. KeptInv(c) /\ c \in StoreLimits \cup EngineLimits /\ c = limits
  BY DEF KeptHolds, Moving
<1>2. c.ids \subseteq Nat \ {0} /\ c.policy.window \in Nat /\ c.policy.negative \in Nat \ {0}
  BY <1>1, KeptAssumption, LimitsAre
<1>3. CASE part = "store"
  <2>1. Kept(c)!StoreNext /\ UNCHANGED engineVars BY <1>1, <1>3 DEF Next
  <2>2. StoreInv(c)' /\ Written(c)' /\ Kept(c)!StaticStep
    BY <2>1, <1>1, <1>2, StoreKeeps DEF KeptInv
  <2>3. Unseen BY <2>1 DEF engineVars, Unseen
  <2> QED BY <2>2, <2>3, <1>1, <1>2, UnseenKeeps, RejectedGoesAway DEF KeptInv
<1>4. CASE part = "engine"
  <2>1. Kept(c)!Next BY <1>1, <1>4 DEF Next
  <2> QED BY <2>1, <1>1, <1>2, EngineKeeps, RejectedGoesAway
<1> QED BY <1>3, <1>4 DEF Moving

\* The invariant over a step.
LEMMA KeptHoldsStep == KeptHolds /\ Next => KeptHolds'
<1> SUFFICES ASSUME KeptHolds, Next, NEW c \in Moving' PROVE KeptInv(c)' BY DEF KeptHolds
<1>1. c \in Moving BY DEF Moving, Next
<1> QED BY <1>1, MovingStep DEF KeptStep

\* The cache holds what the index says, the index what is on disk, an
\* invalidated asset does not come back and a selection resolves, for every set
\* of ids and all limits, whatever is edited, reindexed, evicted, preloaded and
\* restarted in between (asset-store/src/lib.rs).
THEOREM StoreIsSound == Spec => []StoreSound
<1>1. KeptHolds /\ [Next]_<<part, limits, memoryVars, storeVars, engineVars>> => KeptHolds'
  BY KeptHoldsStep, KeptHoldsKept
<1>2. KeptHolds => StoreSound
  BY StoreInvSays DEF KeptHolds, KeptInv, StoreSound
<1> QED BY <1>1, <1>2, KeptHoldsInit, PTL DEF Spec

\* The history of variants names only counted assets, and the counts of an id
\* are exactly what was recorded for the asset that has it now, or less where
\* they were evicted, for every policy and retention (adaptation/src/lib.rs).
THEOREM CountsAreCurrent == Spec => []EngineSound
<1>1. KeptHolds /\ [Next]_<<part, limits, memoryVars, storeVars, engineVars>> => KeptHolds'
  BY KeptHoldsStep, KeptHoldsKept
<1>2. KeptHolds => EngineSound
  BY EngineInvSays DEF KeptHolds, KeptInv, EngineSound
<1> QED BY <1>1, <1>2, KeptHoldsInit, PTL DEF Spec

\* No operation takes a static asset out of the hot tier but a reindex, a restart
\* or its own invalidation, and an asset with too many negative labels leaves
\* both tiers, for every value of the limits (asset-store/src/lib.rs,
\* adaptation/src/lib.rs).
THEOREM OnlyRightOnesGo == Spec => RightOnesGo
<1>1. KeptHolds /\ [Next]_<<part, limits, memoryVars, storeVars, engineVars>> => KeptHolds'
  BY KeptHoldsStep, KeptHoldsKept
<1>2. KeptHolds /\ [Next]_<<part, limits, memoryVars, storeVars, engineVars>> =>
         [\A c \in Moving : Kept(c)!StaticStep /\ Kept(c)!RejectedStep
         ]_<<part, limits, storeVars, engineVars>>
  BY MovingStep DEF KeptStep
<1> QED BY <1>1, <1>2, KeptHoldsInit, PTL DEF Spec, RightOnesGo
=============================================================================
