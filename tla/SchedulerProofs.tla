--------------------------- MODULE SchedulerProofs ---------------------------
(***************************************************************************)
(* Proofs about Scheduler for every set of plans, every configuration and  *)
(* every time range.  IndInv is the inductive invariant.  The actions      *)
(* change the live items in four ways only (retire a slot, start a slot,   *)
(* give way, append an item); one lemma per way says what it preserves,    *)
(* and the step lemmas below cite it for each action.                      *)
(***************************************************************************)
EXTENDS Scheduler, SequenceTheorems, WellFoundedInduction, TLAPS

-----------------------------------------------------------------------------
(* Numbers, sets and sequences.                                            *)

\* A non-empty set of naturals has a least element, and Min is it.
LEMMA MinExists ==
    ASSUME NEW S, S \subseteq Nat, S # {}
    PROVE  Min(S) \in S /\ \A y \in S : Min(S) <= y
<1>1. PICK x \in S : \A y \in S : ~ (<<y, x>> \in OpToRel(<, Nat))
  BY NatLessThanWellFounded, WFMin
<1>2. ASSUME NEW y \in S PROVE x <= y
  <2>1. x \in Nat /\ y \in Nat
    OBVIOUS
  <2>2. y < x => <<y, x>> \in OpToRel(<, Nat)
    BY <2>1 DEF OpToRel
  <2>3. ~ (y < x)
    BY <1>1, <2>2, Zenon
  <2> QED BY <2>1, <2>3
<1> QED BY <1>2 DEF Min

\* A non-empty bounded set of naturals has a greatest element, and Max is it.
LEMMA MaxExists ==
    ASSUME NEW S, NEW n \in Nat, S \subseteq 0..n, S # {}
    PROVE  Max(S) \in S /\ \A y \in S : Max(S) >= y
<1> DEFINE T == {n - y : y \in S}
<1>1. T \subseteq Nat
  BY SMT
<1>2. T # {}
  <2>1. PICK s \in S : TRUE
    OBVIOUS
  <2>2. n - s \in T
    OBVIOUS
  <2> QED BY <2>2
<1> HIDE DEF T
<1>3. Min(T) \in T /\ \A y \in T : Min(T) <= y
  BY <1>1, <1>2, MinExists
<1>4. PICK x \in S : Min(T) = n - x
  BY <1>3 DEF T
<1>5. \A y \in S : n - x <= n - y
  BY <1>3, <1>4 DEF T
<1>6. \A y \in S : x >= y
  BY <1>5
<1> QED BY <1>6 DEF Max

\* Saturating addition stays in range and never moves a time back.
LEMMA SatAddOK ==
    ASSUME NEW a \in Times, NEW b \in Times
    PROVE  SatAdd(a, b) \in Times /\ SatAdd(a, b) >= a
BY TimeAssumption DEF SatAdd, Times

LEMMA LaterOK ==
    ASSUME NEW a \in Times, NEW b \in Times
    PROVE  Later(a, b) \in Times /\ Later(a, b) >= a /\ Later(a, b) >= b
BY TimeAssumption DEF Later, Times

\* The end of a plan, and the effective end of an item, are times; a
\* cancellation can only shorten the interval.
LEMMA EndAtOK ==
    ASSUME NEW p \in PlanType
    PROVE  EndAt(p) \in Times /\ EndAt(p) >= p.start
BY SatAddOK DEF EndAt, PlanType

LEMMA EffectiveEndOK ==
    ASSUME NEW item \in ItemType
    PROVE  /\ EffectiveEnd(item) \in Times
           /\ EffectiveEnd(item) <= EndAt(item.plan)
           /\ item.cancel # None => EffectiveEnd(item) <= item.cancel
<1>1. item.plan \in PlanType /\ item.cancel \in Times \cup {None}
  BY DEF ItemType
<1>2. EndAt(item.plan) \in Times
  BY <1>1, EndAtOK
<1> QED BY <1>1, <1>2, TimeAssumption DEF EffectiveEnd, Earlier, Times

\* The boundary at which a rival gives way lies within its interval, and one
\* that is inside is a safe point.
LEMMA BoundaryOK ==
    ASSUME NEW item \in ItemType, NEW request \in Times
    PROVE  /\ Boundary(item, request) \in Times
           /\ Boundary(item, request) <= EndAt(item.plan)
           /\ Boundary(item, request) < EndAt(item.plan) =>
                 /\ item.plan.interruptible
                 /\ \E o \in item.plan.points :
                       Boundary(item, request) = SatAdd(item.plan.start, o)
<1> DEFINE p == item.plan
<1> DEFINE B == SafeBoundaries(p, request)
<1>1. p \in PlanType
  BY DEF ItemType
<1>2. EndAt(p) \in Times
  BY <1>1, EndAtOK
<1>3. B \subseteq Nat /\ \A b \in B : /\ b \in Times /\ b < EndAt(p)
                                      /\ \E o \in p.points : b = SatAdd(p.start, o)
  <2>1. \A o \in p.points : SatAdd(p.start, o) \in Times
    BY <1>1, SatAddOK DEF PlanType
  <2> QED BY <2>1, TimeAssumption DEF SafeBoundaries, Times
<1>4. CASE ~p.interruptible \/ B = {}
  <2>1. Boundary(item, request) = EndAt(p)
    BY <1>4 DEF Boundary, NextSafeBoundary
  <2> QED BY <1>2, <2>1, TimeAssumption DEF Times
<1>5. CASE p.interruptible /\ B # {}
  <2>1. Boundary(item, request) = Min(B)
    BY <1>5 DEF Boundary, NextSafeBoundary
  <2>2. Min(B) \in B
    BY <1>3, <1>5, MinExists
  <2> QED BY <1>2, <1>3, <1>5, <2>1, <2>2, TimeAssumption DEF Times
<1> QED BY <1>4, <1>5

\* A function on 1..n is a sequence of length n.
LEMMA FunctionIsSeq ==
    ASSUME NEW S, NEW n \in Nat, NEW f \in [1..n -> S]
    PROVE  f \in Seq(S) /\ Len(f) = n
<1>1. f \in Seq(S)
  BY SeqDef
<1>2. DOMAIN f = 1..Len(f) /\ Len(f) \in Nat
  BY <1>1, LenProperties
<1> QED BY <1>1, <1>2

\* swap_remove keeps every other element, each at one position.
LEMMA SwapRemoveOK ==
    ASSUME NEW S, NEW s \in Seq(S), NEW k \in DOMAIN s
    PROVE  /\ SwapRemove(s, k) \in Seq(S)
           /\ Len(SwapRemove(s, k)) = Len(s) - 1
           /\ DOMAIN SwapRemove(s, k) = 1..(Len(s) - 1)
           /\ \A j \in 1..(Len(s) - 1) :
                 SwapRemove(s, k)[j] = IF j = k THEN s[Len(s)] ELSE s[j]
<1>1. Len(s) \in Nat /\ DOMAIN s = 1..Len(s) /\ \A j \in 1..Len(s) : s[j] \in S
  BY LenProperties
<1>2. SwapRemove(s, k) \in [1..(Len(s) - 1) -> S]
  BY <1>1 DEF SwapRemove
<1>3. Len(s) - 1 \in Nat
  BY <1>1
<1>4. SwapRemove(s, k) \in Seq(S)
  BY <1>2, <1>3, SeqDef
<1>5. DOMAIN SwapRemove(s, k) = 1..(Len(s) - 1)
  BY DEF SwapRemove
<1>6. Len(SwapRemove(s, k)) = Len(s) - 1
  BY <1>3, <1>4, <1>5, LenProperties
<1> QED BY <1>4, <1>5, <1>6 DEF SwapRemove

\* The history after a retirement holds the new entry or older ones only.
LEMMA TrimHistoryOK ==
    ASSUME NEW S, NEW h \in Seq(S)
    PROVE  /\ TrimHistory(h) \in Seq(S)
           /\ Len(TrimHistory(h)) <= Len(h)
           /\ RetainAll \/ Len(TrimHistory(h)) <= HistoryCapacity
           /\ \A j \in DOMAIN TrimHistory(h) :
                 \E i \in DOMAIN h : TrimHistory(h)[j] = h[i]
<1>1. Len(h) \in Nat /\ DOMAIN h = 1..Len(h) /\ \A j \in 1..Len(h) : h[j] \in S
  BY LenProperties
<1>2. CASE RetainAll \/ Len(h) <= HistoryCapacity
  BY <1>1, <1>2 DEF TrimHistory
<1>3. CASE ~(RetainAll \/ Len(h) <= HistoryCapacity)
  <2> DEFINE m == Len(h) - HistoryCapacity + 1
  <2> DEFINE t == SubSeq(h, m, Len(h))
  <2>1. m \in 1..(Len(h) + 1) /\ m \in Int /\ Len(h) \in Int
    BY <1>1, <1>3, ConfigAssumption
  <2>2. \A i \in m..Len(h) : h[i] \in S
    BY <1>1, <2>1
  <2>3. /\ t \in Seq(S)
        /\ Len(t) = IF m <= Len(h) THEN Len(h) - m + 1 ELSE 0
        /\ \A i \in 1..(Len(h) - m + 1) : t[i] = h[m + i - 1]
    BY <2>1, <2>2, SubSeqProperties
  <2>4. TrimHistory(h) = t
    BY <1>3 DEF TrimHistory
  <2>5. Len(t) = HistoryCapacity
    BY <1>1, <1>3, <2>1, <2>3, ConfigAssumption
  <2>6. DOMAIN t = 1..HistoryCapacity
    BY <2>3, <2>5, LenProperties
  <2> HIDE DEF t
  <2>7. ASSUME NEW j \in DOMAIN t
        PROVE  t[j] = h[m + j - 1] /\ m + j - 1 \in DOMAIN h
    <3>1. j \in 1..HistoryCapacity /\ Len(h) - m + 1 = HistoryCapacity
      BY <1>1, <2>6, ConfigAssumption
    <3>2. m + j - 1 \in 1..Len(h)
      BY <1>1, <2>1, <3>1, ConfigAssumption
    <3> QED BY <1>1, <2>3, <3>1, <3>2
  <2> QED BY <1>1, <1>3, <2>3, <2>4, <2>5, <2>7, ConfigAssumption
<1> QED BY <1>2, <1>3

\* Dropping the key at k and moving the last key to k keeps an index exact.
LEMMA ReindexOK ==
    ASSUME NEW S, NEW keys \in Seq(S), NEW k \in DOMAIN keys, NEW f,
           Indexes(f, keys)
    PROVE  Indexes(Reindex(f, keys, k), SwapRemove(keys, k))
<1> DEFINE n == Len(keys)
<1> DEFINE t == SwapRemove(keys, k)
<1> DEFINE g == Reindex(f, keys, k)
<1>1. n \in Nat /\ DOMAIN keys = 1..n /\ k \in 1..n
  BY LenProperties
<1>2. DOMAIN t = 1..(n - 1) /\ \A j \in 1..(n - 1) : t[j] = IF j = k THEN keys[n] ELSE keys[j]
  BY SwapRemoveOK
<1>3. DOMAIN f = {keys[j] : j \in 1..n} /\ \A j \in 1..n : f[keys[j]] = j
  BY <1>1 DEF Indexes
<1>6. \A i, j \in 1..n : keys[i] = keys[j] => i = j
  BY <1>3
<1>4. CASE k < n
  <2>1. DOMAIN g = (DOMAIN f \ {keys[k]}) \cup {keys[n]}
    BY <1>4 DEF Reindex, Put, Drop
  <2>2. \A x \in DOMAIN g : g[x] = IF x = keys[n] THEN k ELSE f[x]
    BY <1>4 DEF Reindex, Put, Drop
  <2>3. DOMAIN g = {t[j] : j \in 1..(n - 1)}
    BY <1>1, <1>2, <1>3, <1>4, <2>1
  <2>4. ASSUME NEW j \in 1..(n - 1) PROVE g[t[j]] = j
    <3>1. t[j] \in DOMAIN g
      BY <2>3
    <3>2. g[t[j]] = IF t[j] = keys[n] THEN k ELSE f[t[j]]
      BY <2>2, <3>1
    <3>3. CASE j = k
      BY <1>2, <3>2, <3>3
    <3>4. CASE j # k
      <4>1. t[j] = keys[j]
        BY <1>2, <3>4
      <4>2. j \in 1..n /\ n \in 1..n /\ j # n
        <5> HIDE DEF n
        <5> QED BY <1>1
      <4> QED BY <1>3, <1>6, <3>2, <4>1, <4>2
    <3> QED BY <3>3, <3>4
  <2> QED BY <1>2, <2>3, <2>4 DEF Indexes
<1>5. CASE k = n
  <2>1. DOMAIN g = DOMAIN f \ {keys[k]} /\ \A x \in DOMAIN g : g[x] = f[x]
    BY <1>1, <1>5 DEF Reindex, Drop
  <2>2. \A j \in 1..(n - 1) : t[j] = keys[j]
    BY <1>1, <1>2, <1>5
  <2>3. DOMAIN g = {t[j] : j \in 1..(n - 1)}
    BY <1>1, <1>3, <1>5, <2>1, <2>2
  <2>4. ASSUME NEW j \in 1..(n - 1) PROVE g[t[j]] = j
    <3>1. t[j] \in DOMAIN g /\ t[j] = keys[j] /\ j \in 1..n
      BY <1>1, <2>2, <2>3
    <3> QED BY <1>3, <2>1, <3>1
  <2> QED BY <1>2, <2>3, <2>4 DEF Indexes
<1> QED BY <1>1, <1>4, <1>5

\* A new key at the end keeps an index exact.
LEMMA PutOK ==
    ASSUME NEW S, NEW keys \in Seq(S), NEW key \in S, NEW f,
           Indexes(f, keys), \A j \in DOMAIN keys : keys[j] # key
    PROVE  Indexes(Put(f, key, Len(keys) + 1), Append(keys, key))
<1> DEFINE n == Len(keys)
<1> DEFINE t == Append(keys, key)
<1> DEFINE g == Put(f, key, n + 1)
<1>1. n \in Nat /\ DOMAIN keys = 1..n
  BY LenProperties
<1>2. /\ t \in Seq(S) /\ Len(t) = n + 1
      /\ t[n + 1] = key /\ \A j \in 1..n : t[j] = keys[j]
  BY AppendProperties
<1>3. DOMAIN t = 1..(n + 1)
  BY <1>2, LenProperties
<1>4. DOMAIN f = {keys[j] : j \in 1..n} /\ \A j \in 1..n : f[keys[j]] = j
  BY <1>1 DEF Indexes
<1>5. DOMAIN g = DOMAIN f \cup {key} /\ \A x \in DOMAIN g : g[x] = IF x = key THEN n + 1 ELSE f[x]
  BY DEF Put
<1> HIDE DEF t, g
<1>6. DOMAIN g = {t[j] : j \in 1..(n + 1)}
  BY <1>1, <1>2, <1>4, <1>5
<1>7. \A j \in 1..(n + 1) : g[t[j]] = j
  BY <1>1, <1>2, <1>4, <1>5
<1> QED BY <1>3, <1>6, <1>7 DEF Indexes, t, g

-----------------------------------------------------------------------------
(* The four ways in which the live items change.                           *)

\* Where the item at position j of the compacted collection came from.
Origin(k, j) == IF j = k THEN Len(items) ELSE j

\* Retiring slot k: the other items stay, each at one position, both indexes
\* follow, and the history gains the retired item or, at capacity, rotates.
LEMMA RetireOK ==
    ASSUME TypeOK, IndexConsistent,
           NEW k \in DOMAIN items, NEW item \in ItemType, NEW t \in Times,
           item.plan = items[k].plan,
           Retire(k, item, t)
    PROVE  /\ items' \in Seq(ItemType)
           /\ Len(items') = Len(items) - 1
           /\ DOMAIN items' = 1..(Len(items) - 1)
           /\ \A j \in DOMAIN items' : /\ Origin(k, j) \in DOMAIN items \ {k}
                                       /\ items'[j] = items[Origin(k, j)]
           /\ \A i, j \in DOMAIN items' : i # j => Origin(k, i) # Origin(k, j)
           /\ IndexConsistent'
           /\ history' \in Seq(HistoryType)
           /\ evicted' \in Nat
           /\ Len(history') + evicted' = Len(history) + evicted + 1
           /\ RetainAll \/ Len(history') <= HistoryCapacity
           /\ \A h \in DOMAIN history' :
                 \/ history'[h] = [terminalAt |-> t, item |-> item]
                 \/ \E i \in DOMAIN history : history'[h] = history[i]
<1> USE DEF TypeOK
<1>1. /\ Len(items) \in Nat /\ DOMAIN items = 1..Len(items) /\ k \in 1..Len(items)
      /\ \A j \in 1..Len(items) : items[j] \in ItemType
  BY LenProperties
<1>2. /\ items' \in Seq(ItemType) /\ Len(items') = Len(items) - 1
      /\ DOMAIN items' = 1..(Len(items) - 1)
      /\ \A j \in 1..(Len(items) - 1) :
            items'[j] = IF j = k THEN items[Len(items)] ELSE items[j]
  BY SwapRemoveOK DEF Retire
<1>3. \A j \in DOMAIN items' : /\ Origin(k, j) \in DOMAIN items \ {k}
                               /\ items'[j] = items[Origin(k, j)]
  BY <1>1, <1>2 DEF Origin
<1>4. \A i, j \in DOMAIN items' : i # j => Origin(k, i) # Origin(k, j)
  BY <1>1, <1>2 DEF Origin
<1>5. IndexConsistent'
  <2>1. /\ Gens(items) \in Seq(Nat) /\ EventIds(items) \in Seq(Events)
        /\ DOMAIN Gens(items) = DOMAIN items /\ DOMAIN EventIds(items) = DOMAIN items
    <3>1. Gens(items) \in [1..Len(items) -> Nat]
      BY <1>1 DEF Gens, ItemType, PlanType
    <3>2. EventIds(items) \in [1..Len(items) -> Events]
      BY <1>1 DEF EventIds, ItemType, PlanType
    <3>3. Gens(items) \in Seq(Nat) /\ EventIds(items) \in Seq(Events)
      BY <1>1, <3>1, <3>2, FunctionIsSeq
    <3> QED BY <3>3 DEF Gens, EventIds
  <2>2. /\ Len(Gens(items)) = Len(items) /\ Len(EventIds(items)) = Len(items)
    BY <1>1, <2>1, LenProperties
  <2>3. SwapRemove(Gens(items), k) = Gens(items')
    BY <1>1, <1>2, <2>1, <2>2 DEF SwapRemove, Gens
  <2>4. SwapRemove(EventIds(items), k) = EventIds(items')
    <3>1. \A j \in DOMAIN items : EventIds(items)[j] = items[j].plan.event
      BY DEF EventIds
    <3>2. EventIds(items') = [j \in 1..(Len(items) - 1) |-> items'[j].plan.event]
      BY <1>2 DEF EventIds
    <3> QED BY <1>1, <1>2, <2>2, <3>1, <3>2 DEF SwapRemove
  <2>5. Indexes(liveGen', Gens(items'))
    BY <2>1, <2>3, ReindexOK DEF IndexConsistent, Retire
  <2>6. Indexes(liveEvent', EventIds(items'))
    BY <2>1, <2>4, ReindexOK DEF IndexConsistent, Retire
  <2> QED BY <2>5, <2>6 DEF IndexConsistent
<1>6. /\ history' \in Seq(HistoryType)
      /\ evicted' \in Nat
      /\ Len(history') + evicted' = Len(history) + evicted + 1
      /\ RetainAll \/ Len(history') <= HistoryCapacity
      /\ \A h \in DOMAIN history' :
            \/ history'[h] = [terminalAt |-> t, item |-> item]
            \/ \E i \in DOMAIN history : history'[h] = history[i]
  <2> DEFINE e == [terminalAt |-> t, item |-> item]
  <2> DEFINE g == Append(history, e)
  <2>1. e \in HistoryType
    BY DEF HistoryType
  <2>2. /\ g \in Seq(HistoryType) /\ Len(g) = Len(history) + 1
        /\ g[Len(history) + 1] = e /\ \A i \in 1..Len(history) : g[i] = history[i]
    BY <2>1, AppendProperties
  <2>3. DOMAIN g = 1..(Len(history) + 1) /\ Len(history) \in Nat
        /\ DOMAIN history = 1..Len(history)
    BY <2>2, LenProperties
  <2>4. history' = TrimHistory(g) /\ evicted' = evicted + (Len(history) + 1 - Len(history'))
    BY DEF Retire
  <2> HIDE DEF e, g
  <2>5. /\ history' \in Seq(HistoryType) /\ Len(history') <= Len(g)
        /\ RetainAll \/ Len(history') <= HistoryCapacity
        /\ \A j \in DOMAIN history' : \E i \in DOMAIN g : history'[j] = g[i]
    <3>1. /\ TrimHistory(g) \in Seq(HistoryType) /\ Len(TrimHistory(g)) <= Len(g)
          /\ RetainAll \/ Len(TrimHistory(g)) <= HistoryCapacity
          /\ \A j \in DOMAIN TrimHistory(g) : \E i \in DOMAIN g : TrimHistory(g)[j] = g[i]
      BY <2>2, TrimHistoryOK
    <3> QED BY <2>4, <3>1
  <2>6. Len(history') \in Nat
    BY <2>5, LenProperties
  <2>7. evicted' \in Nat /\ Len(history') + evicted' = Len(history) + evicted + 1
    BY <2>2, <2>3, <2>4, <2>5, <2>6
  <2>8. \A j \in DOMAIN history' :
            history'[j] = e \/ \E i \in DOMAIN history : history'[j] = history[i]
    BY <2>2, <2>3, <2>5
  <2> QED BY <2>5, <2>7, <2>8 DEF e
<1> QED BY <1>2, <1>3, <1>4, <1>5, <1>6

\* What an exact index resolves is typed as the items are.
LEMMA IndexTyped ==
    ASSUME NEW s \in Seq(ItemType), NEW f, NEW g,
           Indexes(f, Gens(s)), Indexes(g, EventIds(s))
    PROVE  /\ \A x \in DOMAIN f : x \in Nat /\ f[x] \in Nat
           /\ \A x \in DOMAIN g : x \in Events /\ g[x] \in Nat
<1>1. DOMAIN s = 1..Len(s) /\ Len(s) \in Nat /\ \A k \in 1..Len(s) : s[k] \in ItemType
  BY LenProperties
<1>2. \A k \in DOMAIN s : s[k].plan.gen \in Nat /\ s[k].plan.event \in Events
  BY <1>1 DEF ItemType, PlanType
<1>3. /\ DOMAIN Gens(s) = DOMAIN s /\ \A k \in DOMAIN s : Gens(s)[k] = s[k].plan.gen
      /\ DOMAIN EventIds(s) = DOMAIN s
      /\ \A k \in DOMAIN s : EventIds(s)[k] = s[k].plan.event
  BY DEF Gens, EventIds
<1>4. ASSUME NEW x \in DOMAIN f PROVE x \in Nat /\ f[x] \in Nat
  <2>1. PICK k \in DOMAIN s : x = Gens(s)[k]
    BY <1>3 DEF Indexes
  <2>2. f[x] = k
    BY <1>3, <2>1 DEF Indexes
  <2> QED BY <1>1, <1>2, <1>3, <2>1, <2>2
<1>5. ASSUME NEW x \in DOMAIN g PROVE x \in Events /\ g[x] \in Nat
  <2>1. PICK k \in DOMAIN s : x = EventIds(s)[k]
    BY <1>3 DEF Indexes
  <2>2. g[x] = k
    BY <1>3, <2>1 DEF Indexes
  <2> QED BY <1>1, <1>2, <1>3, <2>1, <2>2
<1> QED BY <1>4, <1>5

\* Exact indexes mean that live generations and events are distinct.
LEMMA LiveDistinct ==
    ASSUME TypeOK, IndexConsistent, NEW j \in DOMAIN items, NEW k \in DOMAIN items, j # k
    PROVE  /\ items[j].plan.gen # items[k].plan.gen
           /\ items[j].plan.event # items[k].plan.event
<1>1. /\ liveGen[items[j].plan.gen] = j /\ liveGen[items[k].plan.gen] = k
      /\ liveEvent[items[j].plan.event] = j /\ liveEvent[items[k].plan.event] = k
  BY DEF IndexConsistent, Indexes, Gens, EventIds
<1> QED BY <1>1

\* A retirement that records the truth preserves the core.
LEMMA RetireCore ==
    ASSUME TypeOK, LiveOK, Core,
           NEW k \in DOMAIN items, NEW item \in ItemType, NEW t \in Times,
           item.plan = items[k].plan,
           \/ item.status = "completed" /\ item.cancel = None /\ t = EndAt(item.plan)
           \/ item.status = "cancelled" /\ item.cancel # None /\ t = item.cancel,
           Retire(k, item, t), UNCHANGED <<generation, exported>>
    PROVE  /\ Core'
           /\ \A h \in DOMAIN history' : history'[h].item.plan.gen \in 1..generation
<1> DEFINE e == [terminalAt |-> t, item |-> item]
<1>1. /\ Len(items') = Len(items) - 1
      /\ \A j \in DOMAIN items' : /\ Origin(k, j) \in DOMAIN items \ {k}
                                  /\ items'[j] = items[Origin(k, j)]
      /\ \A i, j \in DOMAIN items' : i # j => Origin(k, i) # Origin(k, j)
      /\ IndexConsistent'
      /\ Len(history') + evicted' = Len(history) + evicted + 1
      /\ RetainAll \/ Len(history') <= HistoryCapacity
      /\ \A h \in DOMAIN history' :
            history'[h] = e \/ \E i \in DOMAIN history : history'[h] = history[i]
      /\ Len(items) \in Nat /\ Len(history) \in Nat /\ evicted \in Nat /\ exported \in Nat
      /\ evicted' \in Nat /\ Len(history') \in Nat
  BY RetireOK, LenProperties DEF Core, TypeOK
<1>2. Exclusivity'
  <2> SUFFICES ASSUME NEW i \in DOMAIN items', NEW j \in DOMAIN items', i # j,
                      \/ items'[i].plan.exclusive \/ items'[j].plan.exclusive
                      \/ items'[i].plan.channels \cap items'[j].plan.channels # {}
               PROVE  \/ EffectiveEnd(items'[i]) <= items'[j].plan.start
                      \/ EffectiveEnd(items'[j]) <= items'[i].plan.start
    BY DEF Exclusivity
  <2>1. /\ Origin(k, i) \in DOMAIN items /\ Origin(k, j) \in DOMAIN items
        /\ items'[i] = items[Origin(k, i)] /\ items'[j] = items[Origin(k, j)]
        /\ Origin(k, i) # Origin(k, j)
    BY <1>1
  <2> QED BY <2>1 DEF Core, Exclusivity
<1>3. CancelAtSafePoint'
  <2> SUFFICES ASSUME NEW j \in DOMAIN items', items'[j].cancel # None
               PROVE  LET p == items'[j].plan
                      IN  /\ items'[j].status = "playing" /\ p.interruptible
                          /\ items'[j].cancel < EndAt(p)
                          /\ \E o \in p.points : items'[j].cancel = SatAdd(p.start, o)
    BY DEF CancelAtSafePoint
  <2>1. Origin(k, j) \in DOMAIN items /\ items'[j] = items[Origin(k, j)]
    BY <1>1
  <2> QED BY <2>1 DEF Core, CancelAtSafePoint
<1>4. TerminalTruth'
  BY <1>1 DEF Core, TerminalTruth
<1>5. \A h \in DOMAIN history' : history'[h].item.plan.gen \in 1..generation
  BY <1>1 DEF LiveOK
<1>6. \A h \in DOMAIN history', j \in DOMAIN items' :
          history'[h].item.plan.gen # items'[j].plan.gen
  <2> SUFFICES ASSUME NEW h \in DOMAIN history', NEW j \in DOMAIN items'
               PROVE  history'[h].item.plan.gen # items'[j].plan.gen
    OBVIOUS
  <2>1. Origin(k, j) \in DOMAIN items /\ Origin(k, j) # k /\ items'[j] = items[Origin(k, j)]
    BY <1>1
  <2>2. CASE history'[h] = e
    BY <2>1, <2>2, LiveDistinct DEF Core
  <2>3. CASE \E i \in DOMAIN history : history'[h] = history[i]
    BY <2>1, <2>3 DEF Core, Conservation
  <2> QED BY <1>1, <2>2, <2>3
<1>7. generation' = Len(items') + Len(history') + evicted' + exported'
  <2>1. generation = Len(items) + Len(history) + evicted + exported
    BY DEF Core, Conservation
  <2>2. generation' = generation /\ exported' = exported
    OBVIOUS
  <2>3. /\ Len(items') = Len(items) - 1
        /\ Len(history') + evicted' = Len(history) + evicted + 1
        /\ Len(items) \in Nat /\ Len(history) \in Nat /\ evicted \in Nat
        /\ exported \in Nat /\ evicted' \in Nat /\ Len(history') \in Nat
    BY <1>1
  <2>4. Len(items') + Len(history') + evicted' + exported
          = Len(items) + Len(history) + evicted + exported
    <3> DEFINE l == Len(items)
               m == Len(items')
               h == Len(history)
               g == Len(history')
               v == evicted
               w == evicted'
               x == exported
    <3> SUFFICES m + g + w + x = l + h + v + x
      OBVIOUS
    <3>1. /\ m = l - 1 /\ g + w = h + v + 1
          /\ l \in Nat /\ h \in Nat /\ v \in Nat /\ x \in Nat /\ w \in Nat /\ g \in Nat
      BY <2>3
    <3> HIDE DEF l, m, h, g, v, w, x
    <3> QED BY ONLY <3>1, SMT
  <2> QED BY <2>1, <2>2, <2>4, Zenon
<1> QED BY <1>1, <1>2, <1>3, <1>4, <1>5, <1>6, <1>7 DEF Core, Conservation

\* The core speaks of the live items, the indexes and the history only.
LEMMA CoreUnchanged ==
    ASSUME Core, UNCHANGED <<items, liveGen, liveEvent, history, generation, evicted, exported>>
    PROVE  Core'
BY DEF Core, IndexConsistent, Exclusivity, Conservation, CancelAtSafePoint, TerminalTruth

-----------------------------------------------------------------------------
(* The invariant holds initially and every step preserves it.              *)

LEMMA InitIndInv == Init => IndInv
<1> SUFFICES ASSUME Init PROVE IndInv
  OBVIOUS
<1>1. /\ items = <<>> /\ Len(items) = 0 /\ DOMAIN items = {}
      /\ history = <<>> /\ Len(history) = 0 /\ DOMAIN history = {}
  BY DEF Init
<1>2. DOMAIN liveGen = {} /\ DOMAIN liveEvent = {}
  BY DEF Init
<1>3. TypeOK
  BY <1>1, <1>2, TimeAssumption, ConfigAssumption DEF Init, TypeOK, Times
<1>4. FrameOK /\ LiveOK /\ PlacedBehindPlaying /\ WalkSettled
  BY <1>1 DEF Init, FrameOK, LiveOK, PlacedBehindPlaying, WalkSettled
<1>5. IndexConsistent
  BY <1>1, <1>2 DEF IndexConsistent, Indexes, Gens, EventIds
<1>6. Exclusivity /\ CancelAtSafePoint /\ TerminalTruth
  BY <1>1 DEF Exclusivity, CancelAtSafePoint, TerminalTruth
<1>7. Conservation
  BY <1>1, ConfigAssumption DEF Init, Conservation
<1> QED BY <1>3, <1>4, <1>5, <1>6, <1>7 DEF IndInv, Core

\* A call that begins: time and items are as they were, the walk has passed
\* no slot yet.
LEMMA BeginStep ==
    ASSUME IndInv, NEW name \in {"advance", "complete_all", "schedule", "stop_all", "stop_current"},
           NEW t \in Times, NEW p \in PlanType \cup {None},
           name = "schedule" => p \in PlanType /\ generation < MaxGeneration,
           Begin(name, t, p), lastRejection' \in {None, lastRejection}
    PROVE  IndInv'
<1> USE DEF IndInv
<1>1. Core'
  BY CoreUnchanged DEF Begin
<1>2. TypeOK'
  <2>1. cooldowns' \in [Assets -> Times \cup {None}]
    BY DEF Begin, PruneCooldowns, TypeOK
  <2> QED BY <2>1 DEF Begin, TypeOK
<1>3. FrameOK'
  BY DEF Begin, FrameOK
<1>4. LiveOK'
  <2>1. Target' >= now
    BY LaterOK, TimeAssumption DEF Target, Begin, TypeOK, Times
  <2>2. \A k \in DOMAIN items : items[k].plan.start \in Times /\ Target' \in Times /\ now \in Times
    <3>1. Target' \in Times
      BY LaterOK DEF Target, Begin, TypeOK
    <3>2. \A k \in DOMAIN items : items[k] \in ItemType
      BY LenProperties DEF TypeOK
    <3> QED BY <3>1, <3>2 DEF TypeOK, ItemType, PlanType
  <2>3. pc = "idle" /\ pc' = "advance" /\ UNCHANGED <<items, history, generation>>
    BY DEF Begin
  <2> QED BY <2>1, <2>2, <2>3 DEF LiveOK, Times
<1>5. PlacedBehindPlaying' /\ WalkSettled'
  <2>1. pc' = "advance" /\ idx' = 1 /\ UNCHANGED items
    BY DEF Begin
  <2>2. \A k \in DOMAIN items' : k \in Nat \ {0}
    BY <2>1, LenProperties DEF TypeOK
  <2> QED BY <2>1, <2>2 DEF PlacedBehindPlaying, WalkSettled
<1> QED BY <1>1, <1>2, <1>3, <1>4, <1>5

\* Draining hands the history out and counts it.
LEMMA DrainStep == ASSUME IndInv, DrainHistory PROVE IndInv'
<1> USE DEF IndInv
<1>1. Len(history) \in Nat /\ history' = <<>> /\ Len(history') = 0 /\ DOMAIN history' = {}
  BY LenProperties DEF DrainHistory, TypeOK
<1>2. TypeOK'
  BY <1>1 DEF DrainHistory, TypeOK, frame
<1>3. FrameOK' /\ PlacedBehindPlaying' /\ WalkSettled'
  BY DEF DrainHistory, FrameOK, PlacedBehindPlaying, WalkSettled, frame, Target
<1>4. LiveOK'
  BY <1>1 DEF DrainHistory, LiveOK, frame, Target
<1>5. Core'
  <2>1. IndexConsistent' /\ Exclusivity' /\ CancelAtSafePoint'
    BY DEF DrainHistory, Core, IndexConsistent, Exclusivity, CancelAtSafePoint
  <2>2. TerminalTruth'
    BY <1>1 DEF TerminalTruth
  <2>3. Conservation'
    <3>1. generation = Len(items) + Len(history) + evicted + exported
      BY DEF Core, Conservation
    <3>2. Len(items) \in Nat /\ evicted \in Nat /\ exported \in Nat
      BY LenProperties DEF TypeOK
    <3>3. generation' = Len(items') + Len(history') + evicted' + exported'
      BY <1>1, <3>1, <3>2 DEF DrainHistory
    <3> QED BY <1>1, <3>3, ConfigAssumption DEF Conservation
  <2> QED BY <2>1, <2>2, <2>3 DEF Core
<1> QED BY <1>2, <1>3, <1>4, <1>5

\* The shape of the live items.
LEMMA ItemsTyped ==
    ASSUME TypeOK
    PROVE  /\ Len(items) \in Nat /\ DOMAIN items = 1..Len(items)
           /\ \A k \in DOMAIN items :
                 /\ items[k] \in ItemType /\ items[k].plan \in PlanType
                 /\ items[k].plan.start \in Times /\ EffectiveEnd(items[k]) \in Times
           /\ Target \in Times /\ Target >= now
<1>1. /\ Len(items) \in Nat /\ DOMAIN items = 1..Len(items)
      /\ \A k \in DOMAIN items : items[k] \in ItemType
  BY LenProperties DEF TypeOK
<1>2. \A k \in DOMAIN items : /\ items[k].plan \in PlanType /\ items[k].plan.start \in Times
                              /\ EffectiveEnd(items[k]) \in Times
  BY <1>1, EffectiveEndOK DEF ItemType, PlanType
<1>3. Target \in Times /\ Target >= now
  BY LaterOK DEF Target, TypeOK
<1> QED BY <1>1, <1>2, <1>3

\* The walk retires the slot it is at.
LEMMA AdvanceRetireStep == ASSUME IndInv, AdvanceRetire PROVE IndInv'
<1> USE DEF IndInv
<1> DEFINE it == items[idx]
<1> DEFINE end == EffectiveEnd(it)
<1> DEFINE new == [it EXCEPT !.status = TerminalStatus(it)]
<1>1. idx \in DOMAIN items /\ pc = "advance"
  BY ItemsTyped DEF AdvanceRetire, TypeOK
<1>2. it \in ItemType /\ it.plan \in PlanType /\ end \in Times /\ EndAt(it.plan) \in Times
  BY <1>1, ItemsTyped, EndAtOK
<1>3. new \in ItemType /\ new.plan = it.plan /\ new.cancel = it.cancel
      /\ new.status = TerminalStatus(it)
  BY <1>2 DEF ItemType, TerminalStatus
<1>4. \/ new.status = "completed" /\ new.cancel = None /\ end = EndAt(new.plan)
      \/ new.status = "cancelled" /\ new.cancel # None /\ end = new.cancel
  <2>1. CASE it.cancel = None
    BY <1>3, <2>1 DEF TerminalStatus, EffectiveEnd
  <2>2. CASE it.cancel # None
    <3>1. it.cancel < EndAt(it.plan) /\ it.cancel \in Times
      BY <1>1, <1>2, <2>2 DEF Core, CancelAtSafePoint, ItemType
    <3>2. end = it.cancel
      BY <1>2, <2>2, <3>1, TimeAssumption DEF EffectiveEnd, Earlier, Times
    <3> QED BY <1>3, <2>2, <3>1, <3>2 DEF TerminalStatus
  <2> QED BY <2>1, <2>2
<1>5. Retire(idx, new, end) /\ UNCHANGED <<generation, exported>>
  BY DEF AdvanceRetire
<1> HIDE DEF new, end
<1>6. /\ items' \in Seq(ItemType) /\ DOMAIN items' = 1..(Len(items) - 1)
      /\ \A j \in DOMAIN items' : /\ Origin(idx, j) \in DOMAIN items \ {idx}
                                  /\ items'[j] = items[Origin(idx, j)]
      /\ IndexConsistent' /\ history' \in Seq(HistoryType) /\ evicted' \in Nat
  BY <1>1, <1>2, <1>3, <1>5, RetireOK DEF Core
<1>7. Core' /\ \A h \in DOMAIN history' : history'[h].item.plan.gen \in 1..generation
  BY <1>1, <1>2, <1>3, <1>4, <1>5, RetireCore
<1>8. TypeOK'
  <2>1. lastTerminal' \in Times
    BY <1>2, LaterOK DEF AdvanceRetire, TypeOK, end
  <2>2. /\ \A g \in DOMAIN liveGen' : g \in Nat /\ liveGen'[g] \in Nat
        /\ \A e \in DOMAIN liveEvent' : e \in Events /\ liveEvent'[e] \in Nat
    BY <1>6, IndexTyped DEF IndexConsistent
  <2> QED BY <1>6, <2>1, <2>2 DEF AdvanceRetire, IndexAfterRetire, TypeOK
<1>9. UNCHANGED <<pc, op, at, cur, pass, idx, now, generation>>
  BY DEF AdvanceRetire, IndexAfterRetire
<1>10. FrameOK' /\ PlacedBehindPlaying'
  BY <1>1, <1>9 DEF FrameOK, PlacedBehindPlaying
<1>11. LiveOK'
  BY <1>6, <1>7, <1>9 DEF LiveOK, Target
<1>12. WalkSettled'
  <2>1. \A j \in DOMAIN items' : j < idx => j \in DOMAIN items /\ items'[j] = items[j]
    BY <1>6, ItemsTyped DEF Origin, TypeOK
  <2> QED BY <1>1, <1>9, <2>1 DEF WalkSettled, Target
<1> QED BY <1>7, <1>8, <1>10, <1>11, <1>12

\* Changing the status of live items only keeps the core, provided that the
\* items with a pending cancellation still play.
LEMMA StatusCore ==
    ASSUME Core, DOMAIN items' = DOMAIN items, Len(items') = Len(items),
           \A k \in DOMAIN items :
               /\ items'[k].plan = items[k].plan /\ items'[k].cancel = items[k].cancel
               /\ items[k].status = "playing" => items'[k].status = "playing",
           UNCHANGED <<liveGen, liveEvent, history, generation, evicted, exported>>
    PROVE  Core'
<1>1. Gens(items') = Gens(items) /\ EventIds(items') = EventIds(items)
  BY DEF Gens, EventIds
<1>2. IndexConsistent'
  BY <1>1 DEF Core, IndexConsistent
<1>3. \A k \in DOMAIN items : EffectiveEnd(items'[k]) = EffectiveEnd(items[k])
  BY DEF EffectiveEnd
<1>4. Exclusivity'
  BY <1>3 DEF Core, Exclusivity
<1>5. CancelAtSafePoint'
  BY DEF Core, CancelAtSafePoint
<1>6. Conservation' /\ TerminalTruth'
  BY DEF Core, Conservation, TerminalTruth
<1> QED BY <1>2, <1>4, <1>5, <1>6 DEF Core

\* The walk keeps the slot it is at, and starts it when it is due.
LEMMA AdvanceKeepStep == ASSUME IndInv, AdvanceKeep PROVE IndInv'
<1> USE DEF IndInv
<1>1. idx \in DOMAIN items /\ pc = "advance" /\ ~Ended(items[idx])
  BY ItemsTyped DEF AdvanceKeep, TypeOK
<1>2. /\ items' \in Seq(ItemType) /\ DOMAIN items' = DOMAIN items /\ Len(items') = Len(items)
      /\ \A k \in DOMAIN items :
            /\ items'[k].plan = items[k].plan /\ items'[k].cancel = items[k].cancel
            /\ items'[k].status = IF k = idx /\ Due(items[idx]) THEN "playing"
                                  ELSE items[k].status
  <2>1. CASE ~Due(items[idx])
    BY <2>1 DEF AdvanceKeep, TypeOK
  <2>2. CASE Due(items[idx])
    <3> DEFINE new == [items[idx] EXCEPT !.status = "playing"]
    <3>1. new \in ItemType /\ new.plan = items[idx].plan /\ new.cancel = items[idx].cancel
          /\ new.status = "playing"
      BY <1>1, ItemsTyped DEF ItemType
    <3>2. items' = [items EXCEPT ![idx] = new]
      BY <2>2 DEF AdvanceKeep
    <3> HIDE DEF new
    <3>3. /\ items' \in Seq(ItemType) /\ Len(items') = Len(items)
          /\ \A j \in 1..Len(items) : items'[j] = IF j = idx THEN new ELSE items[j]
      BY <1>1, <3>1, <3>2, ItemsTyped, ExceptSeq DEF TypeOK
    <3>4. DOMAIN items' = DOMAIN items
      BY <3>2
    <3> QED BY <1>1, <2>2, <3>1, <3>3, <3>4, ItemsTyped
  <2> QED BY <2>1, <2>2
<1>3. UNCHANGED <<liveGen, liveEvent, history, generation, evicted, exported, now,
                  pc, op, at, cur, pass>> /\ idx' = idx + 1
  BY DEF AdvanceKeep
<1>4. Core'
  BY <1>2, <1>3, StatusCore
<1>5. TypeOK'
  BY <1>2 DEF AdvanceKeep, TypeOK
<1>6. FrameOK' /\ PlacedBehindPlaying'
  BY <1>1, <1>2, <1>3 DEF FrameOK, PlacedBehindPlaying
<1>7. LiveOK'
  BY <1>1, <1>2, <1>3 DEF LiveOK, Target, Due
<1>8. WalkSettled'
  <2> SUFFICES ASSUME NEW k \in DOMAIN items, k < idx + 1
               PROVE  IF items'[k].plan.start <= Target
                      THEN items'[k].status = "playing" /\ EffectiveEnd(items'[k]) > Target
                      ELSE items'[k].status = "queued"
    BY <1>2, <1>3 DEF WalkSettled, Target
  <2>1. EffectiveEnd(items'[k]) = EffectiveEnd(items[k])
    BY <1>2 DEF EffectiveEnd
  <2>2. CASE k = idx
    <3>1. EffectiveEnd(items[k]) \in Nat /\ Target \in Nat /\ items[k].plan.start \in Nat
      BY ItemsTyped, TimeAssumption DEF Times
    <3>2. CASE items[k].plan.start <= Target
      BY <1>1, <1>2, <2>1, <2>2, <3>1, <3>2 DEF Ended, Due
    <3>3. CASE ~(items[k].plan.start <= Target)
      BY <1>1, <1>2, <2>2, <3>3 DEF LiveOK, Due
    <3> QED BY <3>2, <3>3
  <2>3. CASE k # idx
    <3>1. k < idx
      BY <2>3, ItemsTyped DEF TypeOK
    <3> QED BY <1>1, <1>2, <2>1, <2>3, <3>1 DEF WalkSettled
  <2> QED BY <2>2, <2>3
<1> QED BY <1>4, <1>5, <1>6, <1>7, <1>8

\* The walk is over and time moves.
LEMMA AdvanceDoneStep == ASSUME IndInv, AdvanceDone PROVE IndInv'
<1> USE DEF IndInv
<1>1. Core'
  BY CoreUnchanged DEF AdvanceDone
<1>2. pc = "advance" /\ now' = Target /\ Target \in Times
      /\ UNCHANGED <<items, history, generation>>
  BY ItemsTyped DEF AdvanceDone
<1>3. pc' \in {"idle", "schedule", "stop_all", "stop_current"}
      /\ (pc' # "idle" => pc' = op /\ idx' = 1 /\ UNCHANGED <<op, at, cur, pass>>)
      /\ (pc' = "idle" => op' = "none" /\ at' = 0 /\ cur' = None /\ idx' = 1 /\ pass' = {})
  BY <1>2 DEF AdvanceDone, FrameOK, TypeOK, IdleFrame
<1>4. TypeOK'
  <2>1. op' \in {"none", op} /\ at' \in Times /\ cur' \in PlanType \cup {None}
        /\ idx' = 1 /\ pass' \subseteq Nat
    <3>1. CASE pc' = "idle"
      BY <1>3, <3>1, TimeAssumption DEF Times
    <3>2. CASE pc' # "idle"
      <4>1. op' = op /\ at' = at /\ cur' = cur /\ pass' = pass /\ idx' = 1
        BY <1>3, <3>2
      <4> QED BY <4>1 DEF TypeOK
    <3> QED BY <3>1, <3>2
  <2> QED BY <1>2, <1>3, <2>1 DEF AdvanceDone, TypeOK
<1>5. FrameOK'
  BY <1>2, <1>3 DEF FrameOK
<1>6. LiveOK'
  BY <1>2, <1>3 DEF LiveOK
<1>7. PlacedBehindPlaying' /\ WalkSettled'
  BY <1>3 DEF PlacedBehindPlaying, WalkSettled
<1> QED BY <1>1, <1>4, <1>5, <1>6, <1>7

\* A refusal, and the end of a stop, only empty the frame.
LEMMA ReturnStep ==
    ASSUME IndInv, pc # "advance", pc' = "idle", IdleFrame,
           lastRejection' \in {lastRejection, "duplicate_event", "cooldown", "priority"},
           UNCHANGED <<items, liveGen, liveEvent, history, cooldowns, generation,
                       now, lastTerminal, evicted, exported>>
    PROVE  IndInv'
<1> USE DEF IndInv
<1>1. Core'
  BY CoreUnchanged
<1>2. TypeOK'
  BY TimeAssumption DEF TypeOK, IdleFrame, Times
<1>3. FrameOK' /\ PlacedBehindPlaying' /\ WalkSettled'
  BY DEF FrameOK, PlacedBehindPlaying, WalkSettled, IdleFrame
<1>4. LiveOK'
  BY DEF LiveOK
<1> QED BY <1>1, <1>2, <1>3, <1>4

\* The handoff is the latest boundary of the rivals.
LEMMA HandoffOK ==
    ASSUME TypeOK, NEW p \in PlanType, Rivals(p) # {}
    PROVE  /\ Handoff(p) \in Times
           /\ \A k \in Rivals(p) : Boundary(items[k], at) <= Handoff(p)
<1> DEFINE B == {Boundary(items[k], at) : k \in Rivals(p)}
<1>1. \A k \in Rivals(p) : Boundary(items[k], at) \in Times
  BY ItemsTyped, BoundaryOK DEF Rivals, TypeOK
<1>2. B \subseteq 0..TimeMax /\ B # {}
  BY <1>1 DEF Times
<1>3. Max(B) \in B /\ \A y \in B : Max(B) >= y
  BY <1>2, MaxExists, TimeAssumption
<1>4. Handoff(p) = Max(B)
  BY DEF Handoff
<1> HIDE DEF B
<1>5. \A k \in Rivals(p) : Boundary(items[k], at) \in B
  BY DEF B
<1> QED BY <1>1, <1>2, <1>3, <1>4, <1>5, TimeAssumption DEF Times

\* The candidate start is a time at or after the handoff.
LEMMA CandidateStartOK ==
    ASSUME TypeOK, NEW p \in PlanType
    PROVE  /\ CandidateStart(p) \in Times
           /\ Rivals(p) # {} => CandidateStart(p) >= Handoff(p)
<1>1. p.start \in Times /\ at \in Times /\ now \in Times /\ Spacing \in Times
      /\ lastTerminal \in Times \cup {None}
  BY TimeAssumption DEF PlanType, TypeOK
<1>2. RequestedStart(p) \in Times
  BY <1>1, LaterOK DEF RequestedStart
<1>3. CASE Rivals(p) # {}
  <2>1. Handoff(p) \in Times
    BY <1>3, HandoffOK
  <2>2. SpacedAfter(p, Handoff(p)) \in Times /\ SpacedAfter(p, Handoff(p)) >= Handoff(p)
    <3>1. CASE p.rank = Operator
      BY <2>1, <3>1, TimeAssumption DEF SpacedAfter, Times
    <3>2. CASE p.rank # Operator
      BY <1>1, <2>1, <3>2, SatAddOK DEF SpacedAfter
    <3> QED BY <3>1, <3>2
  <2>3. CandidateStart(p) = Later(RequestedStart(p), SpacedAfter(p, Handoff(p)))
    BY <1>3 DEF CandidateStart
  <2>4. CandidateStart(p) \in Times /\ CandidateStart(p) >= SpacedAfter(p, Handoff(p))
    BY <1>2, <2>2, <2>3, LaterOK
  <2> QED BY <2>1, <2>2, <2>4, TimeAssumption DEF Times
<1>4. CASE Rivals(p) = {}
  BY <1>1, <1>2, <1>4, SatAddOK, LaterOK DEF CandidateStart
<1> QED BY <1>3, <1>4

\* Rivals give way at their boundary; nothing else about an item changes.
LEMMA GiveWayOK ==
    ASSUME TypeOK, Core, NEW p \in PlanType
    PROVE  /\ GiveWay(p) \in Seq(ItemType)
           /\ Len(GiveWay(p)) = Len(items) /\ DOMAIN GiveWay(p) = DOMAIN items
           /\ \A k \in DOMAIN items :
                 LET new == GiveWay(p)[k]
                 IN  /\ new.plan = items[k].plan /\ new.status = items[k].status
                     /\ EffectiveEnd(new) <= EffectiveEnd(items[k])
                     /\ k \in Rivals(p) => EffectiveEnd(new) <= Boundary(items[k], at)
                     /\ new.cancel # None =>
                           /\ new.status = "playing" /\ new.plan.interruptible
                           /\ new.cancel < EndAt(new.plan)
                           /\ \E o \in new.plan.points : new.cancel = SatAdd(new.plan.start, o)
<1> DEFINE G == GiveWay(p)
<1>1. ASSUME NEW k \in DOMAIN items
      PROVE  LET new == GiveWay(p)[k]
             IN  /\ new \in ItemType
                 /\ new.plan = items[k].plan /\ new.status = items[k].status
                 /\ EffectiveEnd(new) <= EffectiveEnd(items[k])
                 /\ k \in Rivals(p) => EffectiveEnd(new) <= Boundary(items[k], at)
                 /\ new.cancel # None =>
                       /\ new.status = "playing" /\ new.plan.interruptible
                       /\ new.cancel < EndAt(new.plan)
                       /\ \E o \in new.plan.points : new.cancel = SatAdd(new.plan.start, o)
  <2> DEFINE it == items[k]
  <2> DEFINE b == Boundary(it, at)
  <2> DEFINE new == GiveWay(p)[k]
  <2>1. it \in ItemType /\ it.plan \in PlanType /\ at \in Times /\ EndAt(it.plan) \in Times
        /\ EffectiveEnd(it) \in Times /\ EffectiveEnd(it) <= EndAt(it.plan)
        /\ it.cancel \in Times \cup {None}
    BY ItemsTyped, EndAtOK, EffectiveEndOK DEF TypeOK, ItemType
  <2>2. b \in Times /\ b <= EndAt(it.plan)
        /\ (b < EndAt(it.plan) => /\ it.plan.interruptible
                                  /\ \E o \in it.plan.points : b = SatAdd(it.plan.start, o))
    BY <2>1, BoundaryOK
  <2>3. it.cancel # None => /\ it.status = "playing" /\ it.plan.interruptible
                            /\ it.cancel < EndAt(it.plan)
                            /\ \E o \in it.plan.points : it.cancel = SatAdd(it.plan.start, o)
    BY DEF Core, CancelAtSafePoint
  <2>4. CASE k \in Rivals(p) /\ b < EndAt(it.plan)
    <3> DEFINE c == CancelBy(it, b)
    <3>1. new = [it EXCEPT !.cancel = c]
      BY <2>4 DEF GiveWay
    <3>2. c \in Times /\ c <= b /\ (c = b \/ c = it.cancel) /\ (it.cancel # None => c <= it.cancel)
      BY <2>1, <2>2, TimeAssumption DEF CancelBy, Earlier, Times
    <3> HIDE DEF c
    <3>3. new \in ItemType /\ new.plan = it.plan /\ new.status = it.status /\ new.cancel = c
      BY <2>1, <3>1, <3>2 DEF ItemType
    <3>4. c # None
      BY <3>2, TimeAssumption DEF Times
    <3>5. EffectiveEnd(new) = c
      BY <2>1, <2>2, <2>4, <3>2, <3>3, <3>4, TimeAssumption DEF EffectiveEnd, Earlier, Times
    <3>6. EffectiveEnd(new) <= EffectiveEnd(it)
      BY <2>1, <2>2, <2>4, <3>2, <3>5, TimeAssumption DEF EffectiveEnd, Earlier, Times
    <3>7. it.status = "playing"
      BY <2>4 DEF Rivals
    <3>8. c < EndAt(it.plan) /\ \E o \in it.plan.points : c = SatAdd(it.plan.start, o)
      BY <2>1, <2>2, <2>3, <2>4, <3>2, <3>4, TimeAssumption DEF Times
    <3> HIDE DEF it, b, new
    <3>9. it.plan.interruptible
      BY <2>2, <2>4
    <3> QED BY <3>2, <3>3, <3>5, <3>6, <3>7, <3>8, <3>9 DEF it, b, new
  <2>5. CASE ~(k \in Rivals(p) /\ b < EndAt(it.plan))
    <3>1. new = it
      BY <2>5 DEF GiveWay
    <3>2. k \in Rivals(p) => EffectiveEnd(it) <= b
      BY <2>1, <2>2, <2>5, TimeAssumption DEF Times
    <3>3. EffectiveEnd(it) <= EffectiveEnd(it)
      BY <2>1, TimeAssumption DEF Times
    <3> QED BY <2>1, <2>3, <3>1, <3>2, <3>3
  <2> QED BY <2>4, <2>5
<1>2. G \in [1..Len(items) -> ItemType] /\ Len(items) \in Nat /\ DOMAIN items = 1..Len(items)
  <2>1. G = [k \in DOMAIN items |-> G[k]]
    BY DEF GiveWay
  <2> QED BY <1>1, <2>1, ItemsTyped
<1>3. G \in Seq(ItemType) /\ Len(G) = Len(items) /\ DOMAIN G = DOMAIN items
  BY <1>2, FunctionIsSeq
<1> QED BY <1>1, <1>3

\* Arbitration puts the plan behind every playing item it competes with.
LEMMA ArbitrateStep == ASSUME IndInv, Arbitrate PROVE IndInv'
<1> USE DEF IndInv
<1> DEFINE s == CandidateStart(cur)
<1> DEFINE G == GiveWay(cur)
<1>1. pc = "schedule" /\ cur \in PlanType /\ op = "schedule" /\ pass = {}
  BY DEF Arbitrate, FrameOK
<1>2. s \in Times /\ (Rivals(cur) # {} => s >= Handoff(cur))
  BY <1>1, CandidateStartOK
<1>3. /\ cur' \in PlanType /\ cur'.start = s /\ cur'.event = cur.event
      /\ cur'.exclusive = cur.exclusive /\ cur'.channels = cur.channels
  BY <1>1, <1>2 DEF Arbitrate, PlanType
<1>4. /\ items' = G /\ pc' = "resolve" /\ UNCHANGED <<op, at, pass, idx, now, generation>>
      /\ UNCHANGED <<liveGen, liveEvent, history, evicted, exported>>
  BY DEF Arbitrate
<1>5. /\ items' \in Seq(ItemType) /\ Len(items') = Len(items) /\ DOMAIN items' = DOMAIN items
      /\ \A k \in DOMAIN items :
            /\ items'[k].plan = items[k].plan /\ items'[k].status = items[k].status
            /\ EffectiveEnd(items'[k]) <= EffectiveEnd(items[k])
            /\ k \in Rivals(cur) => EffectiveEnd(items'[k]) <= Boundary(items[k], at)
            /\ items'[k].cancel # None =>
                  /\ items'[k].status = "playing" /\ items'[k].plan.interruptible
                  /\ items'[k].cancel < EndAt(items'[k].plan)
                  /\ \E o \in items'[k].plan.points :
                        items'[k].cancel = SatAdd(items'[k].plan.start, o)
  BY <1>1, <1>4, GiveWayOK
<1> HIDE DEF s, G
<1>6. TypeOK'
  BY <1>3, <1>5 DEF Arbitrate, TypeOK
<1>7. FrameOK' /\ WalkSettled'
  BY <1>1, <1>3, <1>4, <1>5 DEF FrameOK, WalkSettled
<1>8. LiveOK'
  BY <1>1, <1>4, <1>5 DEF LiveOK
<1>9. PlacedBehindPlaying'
  <2> SUFFICES ASSUME NEW k \in DOMAIN items
               PROVE  /\ items'[k].plan.event # cur'.event
                      /\ (items'[k].status = "playing" /\ PlansConflict(items'[k].plan, cur'))
                         => EffectiveEnd(items'[k]) <= cur'.start
    BY <1>5 DEF PlacedBehindPlaying
  <2>1. items'[k].plan.event # cur'.event
    BY <1>3, <1>5 DEF Arbitrate, Duplicate
  <2>2. ASSUME items'[k].status = "playing", PlansConflict(items'[k].plan, cur')
        PROVE  EffectiveEnd(items'[k]) <= cur'.start
    <3>1. k \in Rivals(cur)
      BY <1>3, <1>5, <2>2 DEF Rivals, PlansConflict
    <3>2. Boundary(items[k], at) <= Handoff(cur) /\ Handoff(cur) \in Times /\ s >= Handoff(cur)
      BY <1>1, <1>2, <3>1, HandoffOK
    <3>3. items[k] \in ItemType /\ items'[k] \in ItemType
      BY <1>5, ItemsTyped, ElementOfSeq, LenProperties
    <3>4. Boundary(items[k], at) \in Times /\ EffectiveEnd(items'[k]) \in Times
      BY <3>3, BoundaryOK, EffectiveEndOK DEF TypeOK
    <3> QED BY <1>2, <1>3, <1>5, <3>1, <3>2, <3>4, TimeAssumption DEF Times
  <2> QED BY <2>1, <2>2
<1>10. Core'
  <2>1. Gens(items') = Gens(items) /\ EventIds(items') = EventIds(items)
    BY <1>5 DEF Gens, EventIds
  <2>2. IndexConsistent'
    BY <1>4, <2>1 DEF Core, IndexConsistent
  <2>3. Exclusivity'
    <3> SUFFICES ASSUME NEW i \in DOMAIN items, NEW j \in DOMAIN items, i # j,
                        \/ items'[i].plan.exclusive \/ items'[j].plan.exclusive
                        \/ items'[i].plan.channels \cap items'[j].plan.channels # {}
                 PROVE  \/ EffectiveEnd(items'[i]) <= items'[j].plan.start
                        \/ EffectiveEnd(items'[j]) <= items'[i].plan.start
      BY <1>5 DEF Exclusivity
    <3>1. \/ EffectiveEnd(items[i]) <= items[j].plan.start
          \/ EffectiveEnd(items[j]) <= items[i].plan.start
      BY <1>5 DEF Core, Exclusivity
    <3>2. /\ EffectiveEnd(items[i]) \in Nat /\ EffectiveEnd(items[j]) \in Nat
          /\ items[i].plan.start \in Nat /\ items[j].plan.start \in Nat
      BY ItemsTyped, TimeAssumption DEF Times
    <3>3. items'[i] \in ItemType /\ items'[j] \in ItemType
      BY <1>5, LenProperties
    <3>4. EffectiveEnd(items'[i]) \in Nat /\ EffectiveEnd(items'[j]) \in Nat
      BY <3>3, EffectiveEndOK, TimeAssumption DEF Times
    <3> QED BY <1>5, <3>1, <3>2, <3>4
  <2>4. CancelAtSafePoint'
    BY <1>5 DEF CancelAtSafePoint
  <2>5. Conservation' /\ TerminalTruth'
    BY <1>4, <1>5 DEF Core, Conservation, TerminalTruth
  <2> QED BY <2>2, <2>3, <2>4, <2>5 DEF Core
<1> QED BY <1>6, <1>7, <1>8, <1>9, <1>10

\* The steps of a pass that touch no item.
LEMMA PassFrameStep ==
    ASSUME IndInv, StartPass \/ EndPass
    PROVE  IndInv'
<1> USE DEF IndInv
<1>1. pc \in {"resolve", "pass"} /\ pc' \in {"resolve", "pass"} /\ UNCHANGED state
      /\ UNCHANGED <<op, at, cur, idx>>
      /\ pass' \subseteq DOMAIN items /\ (pc' # "pass" => pass' = {})
  BY DEF StartPass, EndPass, Overlapped, frame
<1>2. UNCHANGED <<items, liveGen, liveEvent, history, cooldowns, generation,
                  lastRejection, now, lastTerminal, evicted, exported>>
  BY <1>1 DEF state
<1>3. Core'
  BY <1>2, CoreUnchanged
<1>4. TypeOK'
  BY <1>1, <1>2, ItemsTyped DEF TypeOK
<1>5. FrameOK' /\ LiveOK' /\ PlacedBehindPlaying' /\ WalkSettled'
  BY <1>1, <1>2 DEF FrameOK, LiveOK, PlacedBehindPlaying, WalkSettled
<1> QED BY <1>3, <1>4, <1>5

\* The position a pass visits exists, and the positions left lie before it.
LEMMA VisitingOK ==
    ASSUME TypeOK, FrameOK, pass # {}
    PROVE  /\ Visiting \in pass /\ Visiting \in DOMAIN items
           /\ \A k \in pass \ {Visiting} : k \in 1..(Visiting - 1)
<1>1. pass \subseteq 0..Len(items) /\ Len(items) \in Nat /\ DOMAIN items = 1..Len(items)
      /\ pass \subseteq 1..Len(items)
  BY ItemsTyped DEF FrameOK
<1>2. Visiting \in pass /\ \A y \in pass : Visiting >= y
  BY <1>1, MaxExists DEF Visiting
<1> QED BY <1>1, <1>2

\* A plan that is pushed back stays behind the playing items.
LEMMA PushBackStep == ASSUME IndInv, PushBack PROVE IndInv'
<1> USE DEF IndInv
<1> DEFINE v == Visiting
<1> DEFINE s == PushedBack(cur, items[v])
<1>1. pc = "pass" /\ pass # {} /\ cur \in PlanType /\ op = "schedule"
      /\ pc' = "pass" /\ pass' = pass \ {v} /\ cur' = [cur EXCEPT !.start = s]
      /\ UNCHANGED <<op, at, idx>> /\ UNCHANGED state
  BY DEF PushBack, FrameOK
<1>2. UNCHANGED <<items, liveGen, liveEvent, history, cooldowns, generation,
                  lastRejection, now, lastTerminal, evicted, exported>>
  BY <1>1 DEF state
<1>3. v \in DOMAIN items
  BY <1>1, VisitingOK
<1>4. cur.start \in Times /\ EffectiveEnd(items[v]) \in Times /\ Spacing \in Times
  BY <1>1, <1>3, ItemsTyped, TimeAssumption DEF PlanType
<1>5. s \in Times /\ s >= cur.start
  <2> DEFINE m == Later(cur.start, EffectiveEnd(items[v]))
  <2>1. m \in Times /\ m >= cur.start
    BY <1>4, LaterOK
  <2>2. SatAdd(m, Spacing) \in Times /\ SatAdd(m, Spacing) >= m
    BY <1>4, <2>1, SatAddOK
  <2>3. s = m \/ s = SatAdd(m, Spacing)
    BY DEF PushedBack, SpacedAfter
  <2> HIDE DEF m, s
  <2> QED BY <1>4, <2>1, <2>2, <2>3, TimeAssumption DEF Times
<1> HIDE DEF s, v
<1>6. /\ cur' \in PlanType /\ cur'.start = s /\ cur'.event = cur.event
      /\ cur'.exclusive = cur.exclusive /\ cur'.channels = cur.channels
  BY <1>1, <1>5 DEF PlanType
<1>7. Core'
  BY <1>2, CoreUnchanged
<1>8. TypeOK'
  BY <1>1, <1>2, <1>6 DEF TypeOK
<1>9. FrameOK' /\ LiveOK' /\ WalkSettled'
  BY <1>1, <1>2, <1>6 DEF FrameOK, LiveOK, WalkSettled
<1>10. PlacedBehindPlaying'
  <2> SUFFICES ASSUME NEW k \in DOMAIN items
               PROVE  /\ items[k].plan.event # cur'.event
                      /\ (items[k].status = "playing" /\ PlansConflict(items[k].plan, cur'))
                         => EffectiveEnd(items[k]) <= cur'.start
    BY <1>2 DEF PlacedBehindPlaying
  <2>1. /\ items[k].plan.event # cur.event
        /\ (items[k].status = "playing" /\ PlansConflict(items[k].plan, cur))
           => EffectiveEnd(items[k]) <= cur.start
    BY <1>1 DEF PlacedBehindPlaying
  <2>2. PlansConflict(items[k].plan, cur') <=> PlansConflict(items[k].plan, cur)
    BY <1>6 DEF PlansConflict
  <2>3. EffectiveEnd(items[k]) \in Times
    BY ItemsTyped
  <2> QED BY <1>4, <1>5, <1>6, <2>1, <2>2, <2>3, TimeAssumption DEF Times
<1> QED BY <1>7, <1>8, <1>9, <1>10

\* A cancellation at a given time retires the slot truthfully.
LEMMA CancelRetire ==
    ASSUME IndInv, NEW k \in DOMAIN items, NEW t \in Times,
           Retire(k, [items[k] EXCEPT !.status = "cancelled", !.cancel = t], t),
           UNCHANGED <<generation, exported>>
    PROVE  /\ items' \in Seq(ItemType) /\ DOMAIN items' = 1..(Len(items) - 1)
           /\ \A j \in DOMAIN items' : /\ Origin(k, j) \in DOMAIN items \ {k}
                                       /\ items'[j] = items[Origin(k, j)]
           /\ history' \in Seq(HistoryType) /\ evicted' \in Nat
           /\ \A g \in DOMAIN liveGen' : g \in Nat /\ liveGen'[g] \in Nat
           /\ \A e \in DOMAIN liveEvent' : e \in Events /\ liveEvent'[e] \in Nat
           /\ Core'
           /\ \A h \in DOMAIN history' : history'[h].item.plan.gen \in 1..generation
<1> USE DEF IndInv
<1> DEFINE new == [items[k] EXCEPT !.status = "cancelled", !.cancel = t]
<1>1. items[k] \in ItemType /\ t # None
  BY ItemsTyped, TimeAssumption DEF Times
<1>2. new \in ItemType /\ new.plan = items[k].plan /\ new.status = "cancelled" /\ new.cancel = t
  BY <1>1 DEF ItemType
<1>3. Retire(k, new, t)
  OBVIOUS
<1> HIDE DEF new
<1>4. /\ items' \in Seq(ItemType) /\ DOMAIN items' = 1..(Len(items) - 1)
      /\ \A j \in DOMAIN items' : /\ Origin(k, j) \in DOMAIN items \ {k}
                                  /\ items'[j] = items[Origin(k, j)]
      /\ IndexConsistent' /\ history' \in Seq(HistoryType) /\ evicted' \in Nat
  BY <1>2, <1>3, RetireOK DEF Core
<1>5. Core' /\ \A h \in DOMAIN history' : history'[h].item.plan.gen \in 1..generation
  BY <1>1, <1>2, <1>3, RetireCore
<1>6. /\ \A g \in DOMAIN liveGen' : g \in Nat /\ liveGen'[g] \in Nat
      /\ \A e \in DOMAIN liveEvent' : e \in Events /\ liveEvent'[e] \in Nat
  BY <1>4, IndexTyped DEF IndexConsistent
<1> QED BY <1>4, <1>5, <1>6

\* Giving a planned cooldown back leaves the cooldowns typed.
LEMMA CancelQueuedCooldowns ==
    ASSUME TypeOK, NEW k \in DOMAIN items, NEW t, CancelQueued(k, t)
    PROVE  cooldowns' \in [Assets -> Times \cup {None}]
BY ItemsTyped DEF CancelQueued, TypeOK

\* A superseded reservation leaves; the positions still to visit stay valid.
LEMMA SupersedeStep == ASSUME IndInv, Supersede PROVE IndInv'
<1> USE DEF IndInv
<1>1. pc = "pass" /\ pass # {} /\ op = "schedule" /\ cur \in PlanType /\ at \in Times
  BY DEF Supersede, FrameOK, TypeOK
<1>2. Visiting \in DOMAIN items /\ \A k \in pass \ {Visiting} : k \in 1..(Visiting - 1)
  BY <1>1, VisitingOK
<1>3. UNCHANGED <<generation, lastRejection, now, lastTerminal, exported, pc, op, at, cur, idx>>
      /\ pass' = pass \ {Visiting}
  BY DEF Supersede
<1>4. Retire(Visiting, [items[Visiting] EXCEPT !.status = "cancelled", !.cancel = at], at)
  BY DEF Supersede, CancelQueued
<1>5. /\ items' \in Seq(ItemType) /\ DOMAIN items' = 1..(Len(items) - 1)
      /\ \A j \in DOMAIN items' : /\ Origin(Visiting, j) \in DOMAIN items \ {Visiting}
                                  /\ items'[j] = items[Origin(Visiting, j)]
      /\ history' \in Seq(HistoryType) /\ evicted' \in Nat
      /\ \A g \in DOMAIN liveGen' : g \in Nat /\ liveGen'[g] \in Nat
      /\ \A e \in DOMAIN liveEvent' : e \in Events /\ liveEvent'[e] \in Nat
      /\ Core'
      /\ \A h \in DOMAIN history' : history'[h].item.plan.gen \in 1..generation
  BY <1>1, <1>2, <1>3, <1>4, CancelRetire
<1>6. cooldowns' \in [Assets -> Times \cup {None}]
  BY <1>2, CancelQueuedCooldowns DEF Supersede
<1>7. TypeOK'
  BY <1>3, <1>5, <1>6 DEF TypeOK
<1>8. FrameOK'
  <2>1. pass' \subseteq DOMAIN items'
    BY <1>2, <1>3, <1>5, ItemsTyped
  <2> QED BY <1>1, <1>3, <2>1 DEF FrameOK
<1>9. LiveOK' /\ PlacedBehindPlaying' /\ WalkSettled'
  BY <1>1, <1>3, <1>5 DEF LiveOK, PlacedBehindPlaying, WalkSettled
<1> QED BY <1>5, <1>7, <1>8, <1>9

\* A slot that an operator stop retires.
LEMMA StopSlotStep == ASSUME IndInv, StopSlot PROVE IndInv'
<1> USE DEF IndInv
<1>1. pc = "stop_all" /\ idx \in DOMAIN items /\ at \in Times
  BY ItemsTyped DEF StopSlot, TypeOK
<1>2. UNCHANGED <<generation, lastRejection, now, exported, pc, op, at, cur, pass, idx>>
  BY DEF StopSlot, IndexAfterRetire
<1>3. Retire(idx, [items[idx] EXCEPT !.status = "cancelled", !.cancel = at], at)
  BY DEF StopSlot, StopPlaying, CancelQueued
<1>4. /\ items' \in Seq(ItemType) /\ DOMAIN items' = 1..(Len(items) - 1)
      /\ \A j \in DOMAIN items' : /\ Origin(idx, j) \in DOMAIN items \ {idx}
                                  /\ items'[j] = items[Origin(idx, j)]
      /\ history' \in Seq(HistoryType) /\ evicted' \in Nat
      /\ \A g \in DOMAIN liveGen' : g \in Nat /\ liveGen'[g] \in Nat
      /\ \A e \in DOMAIN liveEvent' : e \in Events /\ liveEvent'[e] \in Nat
      /\ Core'
      /\ \A h \in DOMAIN history' : history'[h].item.plan.gen \in 1..generation
  BY <1>1, <1>2, <1>3, CancelRetire
<1>5. cooldowns' \in [Assets -> Times \cup {None}] /\ lastTerminal' \in Times \cup {None}
  <2>1. CASE StopPlaying(idx, at)
    BY <1>1, <2>1, LaterOK DEF StopPlaying, TypeOK
  <2>2. CASE CancelQueued(idx, at) /\ UNCHANGED lastTerminal
    BY <1>1, <2>2, CancelQueuedCooldowns DEF TypeOK
  <2> QED BY <2>1, <2>2 DEF StopSlot
<1>6. TypeOK'
  BY <1>2, <1>4, <1>5 DEF TypeOK
<1>7. FrameOK'
  BY <1>1, <1>2 DEF FrameOK
<1>8. LiveOK' /\ PlacedBehindPlaying' /\ WalkSettled'
  BY <1>1, <1>2, <1>4 DEF LiveOK, PlacedBehindPlaying, WalkSettled
<1> QED BY <1>4, <1>6, <1>7, <1>8

\* stop_current retires the first playing slot, if any.
LEMMA StopCurrentStep == ASSUME IndInv, StopCurrent PROVE IndInv'
<1> USE DEF IndInv
<1>1. CASE PlayingSlots = {}
  <2>1. UNCHANGED <<items, liveGen, liveEvent, history, cooldowns, generation,
                    lastRejection, now, lastTerminal, evicted, exported>>
    BY <1>1 DEF StopCurrent, state
  <2> QED BY <2>1, ReturnStep DEF StopCurrent
<1>2. CASE PlayingSlots # {}
  <2> DEFINE k == Min(PlayingSlots)
  <2>1. PlayingSlots \subseteq Nat /\ PlayingSlots \subseteq DOMAIN items
    BY ItemsTyped DEF PlayingSlots
  <2>2. k \in DOMAIN items
    BY <1>2, <2>1, MinExists
  <2>3. /\ pc = "stop_current" /\ pc' = "idle" /\ StopPlaying(k, at) /\ at \in Times
        /\ op' = "none" /\ at' = 0 /\ cur' = None /\ idx' = 1 /\ pass' = {}
        /\ UNCHANGED <<generation, lastRejection, now, exported>>
    BY <1>2 DEF StopCurrent, IdleFrame, TypeOK
  <2> HIDE DEF k
  <2>4. Retire(k, [items[k] EXCEPT !.status = "cancelled", !.cancel = at], at)
    BY <2>3 DEF StopPlaying
  <2>5. /\ items' \in Seq(ItemType) /\ DOMAIN items' = 1..(Len(items) - 1)
        /\ \A j \in DOMAIN items' : /\ Origin(k, j) \in DOMAIN items \ {k}
                                    /\ items'[j] = items[Origin(k, j)]
        /\ history' \in Seq(HistoryType) /\ evicted' \in Nat
        /\ \A g \in DOMAIN liveGen' : g \in Nat /\ liveGen'[g] \in Nat
        /\ \A e \in DOMAIN liveEvent' : e \in Events /\ liveEvent'[e] \in Nat
        /\ Core'
        /\ \A h \in DOMAIN history' : history'[h].item.plan.gen \in 1..generation
    BY <2>2, <2>3, <2>4, CancelRetire
  <2>6. lastTerminal' \in Times \cup {None} /\ UNCHANGED cooldowns
    BY <2>3, LaterOK DEF StopPlaying, TypeOK
  <2>7. TypeOK'
    BY <2>3, <2>5, <2>6, TimeAssumption DEF TypeOK, Times
  <2>8. FrameOK' /\ PlacedBehindPlaying' /\ WalkSettled'
    BY <2>3 DEF FrameOK, PlacedBehindPlaying, WalkSettled
  <2>9. LiveOK'
    BY <2>3, <2>5 DEF LiveOK
  <2> QED BY <2>5, <2>7, <2>8, <2>9
<1> QED BY <1>1, <1>2

\* An accepted plan overlaps nothing it conflicts with.
LEMMA AcceptStep == ASSUME IndInv, Accept PROVE IndInv'
<1> USE DEF IndInv
<1> DEFINE p == [cur EXCEPT !.gen = generation + 1]
<1> DEFINE new == [plan |-> p, cancel |-> None,
                   status |-> IF p.start <= now THEN "playing" ELSE "queued"]
<1> DEFINE n == Len(items)
<1>1. pc = "resolve" /\ op = "schedule" /\ cur \in PlanType /\ generation < MaxGeneration
      /\ generation \in Nat /\ MaxGeneration \in Nat
  BY ConfigAssumption DEF Accept, FrameOK, TypeOK
<1>2. /\ p \in PlanType /\ p.gen = generation + 1 /\ p.event = cur.event /\ p.start = cur.start
      /\ p.exclusive = cur.exclusive /\ p.channels = cur.channels /\ p.asset \in Assets
      /\ p.duration = cur.duration
  BY <1>1 DEF PlanType
<1>3. new \in ItemType /\ new.plan = p /\ new.cancel = None /\ new.status \in {"queued", "playing"}
      /\ (new.status = "playing" => p.start <= now)
  BY <1>2 DEF ItemType
<1>4. /\ items' = Append(items, new)
      /\ liveGen' = Put(liveGen, p.gen, n + 1) /\ liveEvent' = Put(liveEvent, p.event, n + 1)
      /\ cooldowns' = [cooldowns EXCEPT ![p.asset] = PlannedCooldown(p)]
      /\ generation' = generation + 1 /\ pc' = "idle"
      /\ op' = "none" /\ at' = 0 /\ cur' = None /\ idx' = 1 /\ pass' = {}
      /\ UNCHANGED <<history, lastRejection, now, lastTerminal, evicted, exported>>
  BY DEF Accept, IdleFrame
<1> HIDE DEF p, new
<1>5. /\ items' \in Seq(ItemType) /\ Len(items') = n + 1
      /\ items'[n + 1] = new /\ \A k \in 1..n : items'[k] = items[k]
  BY <1>3, <1>4, AppendProperties DEF TypeOK
<1>6. DOMAIN items' = 1..(n + 1) /\ n \in Nat /\ DOMAIN items = 1..n
  BY <1>5, ItemsTyped, LenProperties
<1>7. IndexConsistent'
  <2>1. /\ Gens(items) \in [1..n -> Nat] /\ EventIds(items) \in [1..n -> Events]
    BY <1>6, ItemsTyped DEF Gens, EventIds, PlanType
  <2>2. /\ Gens(items) \in Seq(Nat) /\ Len(Gens(items)) = n /\ DOMAIN Gens(items) = 1..n
        /\ EventIds(items) \in Seq(Events) /\ Len(EventIds(items)) = n
        /\ DOMAIN EventIds(items) = 1..n
    BY <1>6, <2>1, FunctionIsSeq
  <2>3. \A k \in 1..n : Gens(items)[k] # p.gen /\ EventIds(items)[k] # p.event
    <3>1. \A k \in 1..n : items[k].plan.gen \in 1..generation /\ items[k].plan.event # cur.event
      BY <1>1, <1>6 DEF LiveOK, PlacedBehindPlaying
    <3>2. \A k \in 1..n : Gens(items)[k] = items[k].plan.gen
                          /\ EventIds(items)[k] = items[k].plan.event
      BY <1>6 DEF Gens, EventIds
    <3> QED BY <1>1, <1>2, <3>1, <3>2
  <2>4. Gens(items') = Append(Gens(items), p.gen)
    <3>1. /\ Append(Gens(items), p.gen) \in Seq(Nat) /\ Len(Append(Gens(items), p.gen)) = n + 1
          /\ Append(Gens(items), p.gen)[n + 1] = p.gen
          /\ \A k \in 1..n : Append(Gens(items), p.gen)[k] = Gens(items)[k]
      BY <1>1, <1>2, <2>2, AppendProperties
    <3>2. Gens(items') \in [1..(n + 1) -> Nat]
      <4>1. \A k \in 1..(n + 1) : items'[k] \in ItemType
        BY <1>5, <1>6, LenProperties
      <4> QED BY <1>6, <4>1 DEF Gens, ItemType, PlanType
    <3>3. Gens(items') \in Seq(Nat) /\ Len(Gens(items')) = n + 1
      BY <1>6, <3>2, FunctionIsSeq
    <3>4. \A k \in 1..(n + 1) : Gens(items')[k] = items'[k].plan.gen
      BY <1>6 DEF Gens
    <3>5. \A k \in 1..n : Gens(items)[k] = items[k].plan.gen
      BY <1>6 DEF Gens
    <3>6. \A k \in 1..(n + 1) : Gens(items')[k] = Append(Gens(items), p.gen)[k]
      BY <1>3, <1>5, <1>6, <3>1, <3>4, <3>5
    <3> QED BY <3>1, <3>3, <3>6, SeqEqual
  <2>5. EventIds(items') = Append(EventIds(items), p.event)
    <3>1. /\ Append(EventIds(items), p.event) \in Seq(Events)
          /\ Len(Append(EventIds(items), p.event)) = n + 1
          /\ Append(EventIds(items), p.event)[n + 1] = p.event
          /\ \A k \in 1..n : Append(EventIds(items), p.event)[k] = EventIds(items)[k]
      BY <1>2, <2>2, AppendProperties DEF PlanType
    <3>2. EventIds(items') \in [1..(n + 1) -> Events]
      <4>1. \A k \in 1..(n + 1) : items'[k] \in ItemType
        BY <1>5, <1>6, LenProperties
      <4> QED BY <1>6, <4>1 DEF EventIds, ItemType, PlanType
    <3>3. EventIds(items') \in Seq(Events) /\ Len(EventIds(items')) = n + 1
      BY <1>6, <3>2, FunctionIsSeq
    <3>4. \A k \in 1..(n + 1) : EventIds(items')[k] = items'[k].plan.event
      BY <1>6 DEF EventIds
    <3>5. \A k \in 1..n : EventIds(items)[k] = items[k].plan.event
      BY <1>6 DEF EventIds
    <3>6. \A k \in 1..(n + 1) : EventIds(items')[k] = Append(EventIds(items), p.event)[k]
      BY <1>3, <1>5, <1>6, <3>1, <3>4, <3>5
    <3> QED BY <3>1, <3>3, <3>6, SeqEqual
  <2>6. Indexes(liveGen', Gens(items'))
    BY <1>1, <1>2, <1>4, <2>2, <2>3, <2>4, PutOK DEF Core, IndexConsistent
  <2>7. Indexes(liveEvent', EventIds(items'))
    BY <1>2, <1>4, <2>2, <2>3, <2>5, PutOK DEF Core, IndexConsistent, PlanType
  <2> QED BY <2>6, <2>7 DEF IndexConsistent
<1>8. Exclusivity'
  <2>1. EffectiveEnd(new) = EndAt(p) /\ EndAt(p) = EndAt(cur)
    BY <1>2, <1>3 DEF EffectiveEnd, EndAt
  <2>2. ASSUME NEW k \in 1..n,
               \/ items[k].plan.exclusive \/ p.exclusive
               \/ items[k].plan.channels \cap p.channels # {}
        PROVE  EffectiveEnd(items[k]) <= p.start \/ EffectiveEnd(new) <= items[k].plan.start
    <3>1. PlansConflict(items[k].plan, cur)
      BY <1>2, <2>2 DEF PlansConflict
    <3>2. /\ EffectiveEnd(items[k]) \in Nat /\ items[k].plan.start \in Nat
          /\ EndAt(cur) \in Nat /\ cur.start \in Nat
      BY <1>1, <1>6, ItemsTyped, EndAtOK, TimeAssumption DEF Times, PlanType
    <3>3. CASE items[k].status = "playing"
      BY <1>1, <1>2, <1>6, <3>1, <3>3 DEF PlacedBehindPlaying
    <3>4. CASE items[k].status = "queued"
      <4>1. k \notin Overlapped(cur)
        BY DEF Accept
      <4>2. ~IntervalsOverlap(cur.start, EndAt(cur), items[k].plan.start, EffectiveEnd(items[k]))
        BY <1>6, <3>1, <3>4, <4>1 DEF Overlapped
      <4> QED BY <1>2, <2>1, <3>2, <4>2 DEF IntervalsOverlap
    <3> QED BY <1>6, <3>3, <3>4 DEF LiveOK
  <2> SUFFICES ASSUME NEW i \in 1..(n + 1), NEW j \in 1..(n + 1), i # j,
                      \/ items'[i].plan.exclusive \/ items'[j].plan.exclusive
                      \/ items'[i].plan.channels \cap items'[j].plan.channels # {}
               PROVE  \/ EffectiveEnd(items'[i]) <= items'[j].plan.start
                      \/ EffectiveEnd(items'[j]) <= items'[i].plan.start
    BY <1>6 DEF Exclusivity
  <2>3. CASE i = n + 1
    BY <1>3, <1>5, <1>6, <2>2, <2>3
  <2>4. CASE j = n + 1
    BY <1>3, <1>5, <1>6, <2>2, <2>4
  <2>5. CASE i # n + 1 /\ j # n + 1
    <3>1. i \in 1..n /\ j \in 1..n
      BY <1>6, <2>5
    <3> QED BY <1>5, <1>6, <3>1 DEF Core, Exclusivity
  <2> QED BY <2>3, <2>4, <2>5
<1>9. CancelAtSafePoint'
  <2> SUFFICES ASSUME NEW j \in 1..(n + 1), items'[j].cancel # None
               PROVE  LET q == items'[j].plan
                      IN  /\ items'[j].status = "playing" /\ q.interruptible
                          /\ items'[j].cancel < EndAt(q)
                          /\ \E o \in q.points : items'[j].cancel = SatAdd(q.start, o)
    BY <1>6 DEF CancelAtSafePoint
  <2>1. j \in 1..n /\ items'[j] = items[j]
    BY <1>3, <1>5, <1>6
  <2> QED BY <1>6, <2>1 DEF Core, CancelAtSafePoint
<1>10. LiveOK'
  <2>1. ASSUME NEW j \in 1..(n + 1)
        PROVE  /\ items'[j].status \in {"queued", "playing"}
               /\ items'[j].status = "playing" => items'[j].plan.start <= now
               /\ items'[j].plan.gen \in 1..(generation + 1)
    <3>1. CASE j = n + 1
      BY <1>1, <1>2, <1>3, <1>5, <3>1
    <3>2. CASE j # n + 1
      <4>1. j \in 1..n /\ items'[j] = items[j]
        BY <1>5, <1>6, <3>2
      <4> QED BY <1>1, <1>6, <4>1 DEF LiveOK
    <3> QED BY <3>1, <3>2
  <2>2. \A h \in DOMAIN history : history[h].item.plan.gen \in 1..(generation + 1)
    BY <1>1 DEF LiveOK
  <2> QED BY <1>4, <1>6, <2>1, <2>2 DEF LiveOK
<1>11. Conservation'
  <2>1. generation' = Len(items') + Len(history') + evicted' + exported'
    <3>1. generation = n + Len(history) + evicted + exported
      BY DEF Core, Conservation
    <3>2. Len(history) \in Nat /\ evicted \in Nat /\ exported \in Nat
      BY LenProperties DEF TypeOK
    <3> QED BY <1>4, <1>5, <1>6, <3>1, <3>2
  <2>2. ASSUME NEW h \in DOMAIN history, NEW j \in 1..(n + 1)
        PROVE  history[h].item.plan.gen # items'[j].plan.gen
    <3>1. CASE j = n + 1
      BY <1>1, <1>2, <1>3, <1>5, <3>1 DEF LiveOK
    <3>2. CASE j # n + 1
      <4>1. j \in 1..n /\ items'[j] = items[j]
        BY <1>5, <1>6, <3>2
      <4> QED BY <1>6, <4>1 DEF Core, Conservation
    <3> QED BY <3>1, <3>2
  <2> QED BY <1>4, <1>6, <2>1, <2>2 DEF Core, Conservation
<1>12. TerminalTruth'
  BY <1>4 DEF Core, TerminalTruth
<1>13. TypeOK'
  <2>1. cooldowns' \in [Assets -> Times \cup {None}]
    <3>1. PlannedCooldown(p) \in Times
      BY <1>2, EndAtOK, SatAddOK, TimeAssumption DEF PlannedCooldown
    <3> QED BY <1>2, <1>4, <3>1 DEF TypeOK
  <2>2. /\ \A g \in DOMAIN liveGen' : g \in Nat /\ liveGen'[g] \in Nat
        /\ \A e \in DOMAIN liveEvent' : e \in Events /\ liveEvent'[e] \in Nat
    BY <1>5, <1>7, IndexTyped DEF IndexConsistent
  <2>3. generation' \in 0..MaxGeneration
    BY <1>1, <1>4
  <2>4. at' \in Times
    BY <1>4, TimeAssumption DEF Times
  <2> QED BY <1>4, <1>5, <2>1, <2>2, <2>3, <2>4 DEF TypeOK
<1>14. FrameOK' /\ PlacedBehindPlaying' /\ WalkSettled'
  BY <1>4 DEF FrameOK, PlacedBehindPlaying, WalkSettled
<1> QED BY <1>7, <1>8, <1>9, <1>10, <1>11, <1>12, <1>13, <1>14 DEF Core

\* complete_all advances to a time.
LEMMA LastEndOK == ASSUME TypeOK PROVE LastEnd \in Times
<1>1. CASE Len(items) = 0
  BY <1>1 DEF LastEnd, TypeOK
<1>2. CASE Len(items) # 0
  <2> DEFINE E == {EffectiveEnd(items[k]) : k \in DOMAIN items}
  <2>1. E \subseteq 0..TimeMax
    BY ItemsTyped DEF Times
  <2>2. 1 \in DOMAIN items
    BY <1>2, ItemsTyped
  <2>3. EffectiveEnd(items[1]) \in E
    BY <2>2
  <2>4. E # {}
    BY <2>3
  <2>5. LastEnd = Max(E)
    BY <1>2 DEF LastEnd
  <2> HIDE DEF E
  <2> QED BY <2>1, <2>4, <2>5, MaxExists, TimeAssumption DEF Times
<1> QED BY <1>1, <1>2

LEMMA CallStep == ASSUME IndInv, Call PROVE IndInv'
<1> USE DEF IndInv
<1>1. ASSUME NEW t \in CallTimes, CallAdvance(t) \/ CallStopAll(t) \/ CallStopCurrent(t)
      PROVE  IndInv'
  <2>1. t \in Times /\ None \in PlanType \cup {None}
    BY TimeAssumption
  <2>2. CASE CallAdvance(t)
    BY <2>1, <2>2, BeginStep DEF CallAdvance
  <2>3. CASE CallStopAll(t)
    BY <2>1, <2>3, BeginStep DEF CallStopAll
  <2>4. CASE CallStopCurrent(t)
    BY <2>1, <2>4, BeginStep DEF CallStopCurrent
  <2> QED BY <1>1, <2>2, <2>3, <2>4
<1>2. ASSUME NEW t \in CallTimes, NEW p \in Plans, CallSchedule(t, p)
      PROVE  IndInv'
  <2> DEFINE q == [p EXCEPT !.start = SatAdd(t, p.start)]
  <2>1. t \in Times /\ p \in PlanType /\ p.start \in Times
    BY TimeAssumption, PlansAssumption DEF PlanType
  <2>2. SatAdd(t, p.start) \in Times
    BY <2>1, SatAddOK
  <2>3. q \in PlanType
    BY <2>1, <2>2 DEF PlanType
  <2>4. Begin("schedule", t, q) /\ generation < MaxGeneration /\ lastRejection' = None
    BY <1>2 DEF CallSchedule
  <2> HIDE DEF q
  <2> QED BY <2>1, <2>3, <2>4, BeginStep
<1>3. CASE CallCompleteAll
  BY <1>3, LastEndOK, BeginStep DEF CallCompleteAll
<1>4. CASE DrainHistory
  BY <1>4, DrainStep
<1> QED BY <1>1, <1>2, <1>3, <1>4 DEF Call

LEMMA RunStep == ASSUME IndInv, Run PROVE IndInv'
<1>1. CASE RejectDuplicate \/ RejectCooldown \/ RejectPriority
  BY <1>1, ReturnStep DEF RejectDuplicate, RejectCooldown, RejectPriority, Reject
<1>2. CASE StopDone
  <2>1. UNCHANGED <<items, liveGen, liveEvent, history, cooldowns, generation,
                    lastRejection, now, lastTerminal, evicted, exported>>
    BY <1>2 DEF StopDone, state
  <2> QED BY <1>2, <2>1, ReturnStep DEF StopDone
<1>3. CASE AdvanceRetire
  BY <1>3, AdvanceRetireStep
<1>4. CASE AdvanceKeep
  BY <1>4, AdvanceKeepStep
<1>5. CASE AdvanceDone
  BY <1>5, AdvanceDoneStep
<1>6. CASE Arbitrate
  BY <1>6, ArbitrateStep
<1>7. CASE StartPass \/ EndPass
  BY <1>7, PassFrameStep
<1>8. CASE Supersede
  BY <1>8, SupersedeStep
<1>9. CASE PushBack
  BY <1>9, PushBackStep
<1>10. CASE Accept
  BY <1>10, AcceptStep
<1>11. CASE StopSlot
  BY <1>11, StopSlotStep
<1>12. CASE StopCurrent
  BY <1>12, StopCurrentStep
<1> QED BY <1>1, <1>2, <1>3, <1>4, <1>5, <1>6, <1>7, <1>8, <1>9, <1>10, <1>11, <1>12 DEF Run

LEMMA StutterStep == ASSUME IndInv, UNCHANGED vars PROVE IndInv'
<1> USE DEF IndInv
<1>1. UNCHANGED <<items, liveGen, liveEvent, history, cooldowns, generation,
                  lastRejection, now, lastTerminal, evicted, exported,
                  pc, op, at, cur, idx, pass>>
  BY DEF vars
<1>2. Core'
  BY <1>1, CoreUnchanged
<1>3. TypeOK' /\ FrameOK' /\ LiveOK' /\ PlacedBehindPlaying' /\ WalkSettled'
  BY <1>1 DEF TypeOK, FrameOK, LiveOK, PlacedBehindPlaying, WalkSettled, Target
<1> QED BY <1>2, <1>3

-----------------------------------------------------------------------------
(* The theorems.                                                           *)

\* IndInv is inductive.
THEOREM Inductive == Spec => []IndInv
<1>1. Init => IndInv
  BY InitIndInv
<1>2. IndInv /\ [Next]_vars => IndInv'
  BY CallStep, RunStep, StutterStep DEF Next
<1> QED BY <1>1, <1>2, PTL DEF Spec

\* The types hold in every state; in particular saturating arithmetic keeps
\* every time of the scheduler within u64.
THEOREM TypeCorrect == Spec => []TypeOK
<1>1. IndInv => TypeOK
  BY DEF IndInv
<1> QED BY <1>1, Inductive, PTL

\* The liveness indexes are exact at every moment, during compaction too.
THEOREM IndexesExact == Spec => []IndexConsistent
<1>1. IndInv => IndexConsistent
  BY DEF IndInv, Core
<1> QED BY <1>1, Inductive, PTL

\* Conflicting live items never hold overlapping intervals, for any plans, any
\* spacing and any call times, late ones included.
THEOREM TimelineExclusive == Spec => []Exclusivity
<1>1. IndInv => Exclusivity
  BY DEF IndInv, Core
<1> QED BY <1>1, Inductive, PTL

\* Every accepted generation is live, retained, evicted or exported, once.
THEOREM GenerationsConserved == Spec => []Conservation
<1>1. IndInv => Conservation
  BY DEF IndInv, Core
<1> QED BY <1>1, Inductive, PTL

\* Preemption cuts at safe points only.
THEOREM SafePreemption == Spec => []CancelAtSafePoint
<1>1. IndInv => CancelAtSafePoint
  BY DEF IndInv, Core
<1> QED BY <1>1, Inductive, PTL

\* The retained history tells what happened.
THEOREM HistoryTruthful == Spec => []TerminalTruth
<1>1. IndInv => TerminalTruth
  BY DEF IndInv, Core
<1> QED BY <1>1, Inductive, PTL

\* advance_to leaves no slot behind, although it compacts under its own walk.
THEOREM AdvanceIsComplete == Spec => AdvanceSettles
<1> DEFINE A == (pc = "advance" /\ pc' # "advance") =>
          \A k \in DOMAIN items' :
              IF items'[k].plan.start <= now'
              THEN items'[k].status = "playing" /\ EffectiveEnd(items'[k]) > now'
              ELSE items'[k].status = "queued"
<1>1. IndInv /\ [Next]_vars => [A]_vars
  <2> SUFFICES ASSUME IndInv, Next, pc = "advance", pc' # "advance" PROVE A
    OBVIOUS
  <2>1. AdvanceDone
    BY DEF Next, Call, Run, CallAdvance, CallSchedule, CallStopAll, CallStopCurrent,
           CallCompleteAll, DrainHistory, Begin, AdvanceRetire, AdvanceKeep,
           RejectDuplicate, RejectCooldown, RejectPriority, Arbitrate, StartPass,
           Supersede, PushBack, EndPass, Accept, StopSlot, StopDone, StopCurrent
  <2>2. UNCHANGED items /\ now' = Target /\ idx > Len(items)
    BY <2>1 DEF AdvanceDone
  <2>3. \A k \in DOMAIN items : k < idx
    BY <2>2, ItemsTyped DEF IndInv, TypeOK
  <2> QED BY <2>2, <2>3 DEF IndInv, WalkSettled
<1> QED BY <1>1, Inductive, PTL DEF Spec, AdvanceSettles

\* When stop_all returns nothing is live and both indexes are empty.
THEOREM StopIsComplete == Spec => StopLeavesNothing
<1> DEFINE A == (pc = "stop_all" /\ pc' = "idle") =>
          items' = <<>> /\ DOMAIN liveGen' = {} /\ DOMAIN liveEvent' = {}
<1>1. IndInv /\ [Next]_vars => [A]_vars
  <2> SUFFICES ASSUME IndInv, Next, pc = "stop_all", pc' = "idle" PROVE A
    OBVIOUS
  <2>1. StopDone
    BY DEF Next, Call, Run, CallAdvance, CallSchedule, CallStopAll, CallStopCurrent,
           CallCompleteAll, DrainHistory, Begin, AdvanceRetire, AdvanceKeep, AdvanceDone,
           RejectDuplicate, RejectCooldown, RejectPriority, Arbitrate, StartPass,
           Supersede, PushBack, EndPass, Accept, StopSlot, StopCurrent
  <2>2. items' = items /\ liveGen' = liveGen /\ liveEvent' = liveEvent
        /\ idx = 1 /\ idx > Len(items)
    BY <2>1 DEF StopDone, state, IndInv, FrameOK
  <2>3. Len(items) = 0 /\ DOMAIN items = {} /\ items = <<>>
    <3>1. Len(items) = 0 /\ DOMAIN items = {}
      BY <2>2, ItemsTyped DEF IndInv
    <3> QED BY <3>1, EmptySeq DEF IndInv, TypeOK
  <2>4. DOMAIN liveGen = {} /\ DOMAIN liveEvent = {}
    BY <2>3 DEF IndInv, Core, IndexConsistent, Indexes, Gens, EventIds
  <2> QED BY <2>2, <2>3, <2>4
<1> QED BY <1>1, Inductive, PTL DEF Spec, StopLeavesNothing

-----------------------------------------------------------------------------
(* Implementing Timeline.  The argument needs only what a step does to the *)
(* live items: every item afterwards is the newly accepted one, or an item *)
(* from before with the same generation and start that ends no later       *)
(* (Succeeds).  The exactness of the liveness index carries this over to   *)
(* the windows of the refinement mapping.                                  *)


\* The item comes from an old one and holds no more of the timeline.
Succeeds(item, old) ==
    /\ item.plan.gen = old.plan.gen
    /\ item.plan.start = old.plan.start
    /\ EffectiveEnd(item) <= EffectiveEnd(old)

\* Every item after the step succeeds one from before it, or is the new one.
ItemsSucceed ==
    \A j \in DOMAIN items' :
        \/ \E k \in DOMAIN items : Succeeds(items'[j], items[k])
        \/ items'[j].plan.gen = generation + 1 /\ generation' = generation + 1

\* The index resolves each live generation to its item.
LEMMA WindowsExact ==
    ASSUME TypeOK, IndexConsistent
    PROVE  /\ DOMAIN LiveWindows = {items[k].plan.gen : k \in DOMAIN items}
           /\ \A k \in DOMAIN items :
                 LiveWindows[items[k].plan.gen] =
                    [from |-> items[k].plan.start, until |-> EffectiveEnd(items[k])]
<1>1. /\ DOMAIN liveGen = {items[k].plan.gen : k \in DOMAIN items}
      /\ \A k \in DOMAIN items : liveGen[items[k].plan.gen] = k
  BY DEF IndexConsistent, Indexes, Gens
<1> QED BY <1>1 DEF LiveWindows

\* Succession of the items is a step of Timeline.
LEMMA SuccessionIsStep ==
    ASSUME IndInv, IndInv', ItemsSucceed, generation' \in {generation, generation + 1}
    PROVE  Promise!TimelineStep
<1> DEFINE W == LiveWindows
<1>1. TypeOK /\ IndexConsistent /\ LiveOK
  BY DEF IndInv, Core
<1>2. TypeOK' /\ IndexConsistent'
  BY DEF IndInv, Core
<1>3. /\ DOMAIN W = {items[k].plan.gen : k \in DOMAIN items}
      /\ \A k \in DOMAIN items : W[items[k].plan.gen] =
            [from |-> items[k].plan.start, until |-> EffectiveEnd(items[k])]
  BY <1>1, WindowsExact
<1>4. /\ DOMAIN W' = {items'[k].plan.gen : k \in DOMAIN items'}
      /\ \A k \in DOMAIN items' : W'[items'[k].plan.gen] =
            [from |-> items'[k].plan.start, until |-> EffectiveEnd(items'[k])]
  <2>1. (TypeOK /\ IndexConsistent =>
           /\ DOMAIN LiveWindows = {items[k].plan.gen : k \in DOMAIN items}
           /\ \A k \in DOMAIN items : LiveWindows[items[k].plan.gen] =
                 [from |-> items[k].plan.start, until |-> EffectiveEnd(items[k])])'
    BY WindowsExact, PTL
  <2> QED BY <1>2, <2>1
<1>5. generation \in Nat /\ generation' \in Nat
  BY <1>1, <1>2, ConfigAssumption DEF TypeOK
<1>6. \A k \in DOMAIN items : items[k].plan.gen \in 1..generation
  BY <1>1 DEF LiveOK
<1>7. \A k \in DOMAIN items' : items'[k].plan.start \in Times /\ EffectiveEnd(items'[k]) \in Times
  <2>1. \A k \in DOMAIN items' : items'[k] \in ItemType
    BY <1>2, LenProperties DEF TypeOK
  <2>2. ASSUME NEW k \in DOMAIN items'
        PROVE items'[k].plan.start \in Times /\ EffectiveEnd(items'[k]) \in Times
    BY <2>1, EffectiveEndOK DEF ItemType, PlanType
  <2> QED BY <2>2
<1> HIDE DEF W
<1>8. DOMAIN W' \subseteq DOMAIN W \cup ((generation + 1)..generation')
  <2> SUFFICES ASSUME NEW j \in DOMAIN items',
                      items'[j].plan.gen \notin DOMAIN W
               PROVE  items'[j].plan.gen \in (generation + 1)..generation'
    BY <1>4
  <2>1. ~ \E k \in DOMAIN items : Succeeds(items'[j], items[k])
    BY <1>3 DEF Succeeds
  <2> QED BY <1>5, <2>1 DEF ItemsSucceed
<1>9. ASSUME NEW g \in DOMAIN W'
      PROVE  W'[g] \in [from : 0..TimeMax, until : 0..TimeMax]
  <2>1. PICK j \in DOMAIN items' : items'[j].plan.gen = g
    BY <1>4
  <2>2. W'[g] = [from |-> items'[j].plan.start, until |-> EffectiveEnd(items'[j])]
    BY <1>4, <2>1
  <2>3. items'[j].plan.start \in 0..TimeMax /\ EffectiveEnd(items'[j]) \in 0..TimeMax
    BY <1>7 DEF Times
  <2> QED BY <2>2, <2>3
<1>10. ASSUME NEW g \in DOMAIN W, g \in DOMAIN W'
       PROVE  W'[g].from = W[g].from /\ W'[g].until <= W[g].until
  <2>1. PICK j \in DOMAIN items' : items'[j].plan.gen = g
    BY <1>4, <1>10
  <2>2. g \in 1..generation
    BY <1>3, <1>6
  <2>3. PICK k \in DOMAIN items : Succeeds(items'[j], items[k])
    BY <1>5, <2>1, <2>2 DEF ItemsSucceed
  <2>4. items[k].plan.gen = g
    BY <2>1, <2>3 DEF Succeeds
  <2>5. W[g] = [from |-> items[k].plan.start, until |-> EffectiveEnd(items[k])]
    BY <1>3, <2>4
  <2>6. W'[g] = [from |-> items'[j].plan.start, until |-> EffectiveEnd(items'[j])]
    BY <1>4, <2>1
  <2> QED BY <2>3, <2>5, <2>6 DEF Succeeds
<1> QED BY <1>8, <1>9, <1>10 DEF Promise!TimelineStep, Promise!Windows, W

\* An item succeeds itself.
LEMMA SucceedsItself ==
    ASSUME TypeOK, NEW k \in DOMAIN items PROVE Succeeds(items[k], items[k])
<1>1. EffectiveEnd(items[k]) \in Times
  BY ItemsTyped
<1> QED BY <1>1, TimeAssumption DEF Succeeds, Times

\* Retiring a slot moves items and changes none.
LEMMA RetireSucceeds ==
    ASSUME TypeOK, NEW k \in DOMAIN items, items' = SwapRemove(items, k)
    PROVE  ItemsSucceed
<1>1. Len(items) \in Nat /\ DOMAIN items = 1..Len(items)
  BY ItemsTyped
<1>2. /\ DOMAIN items' = 1..(Len(items) - 1)
      /\ \A j \in 1..(Len(items) - 1) :
            items'[j] = IF j = k THEN items[Len(items)] ELSE items[j]
  BY SwapRemoveOK DEF TypeOK
<1>3. ASSUME NEW j \in DOMAIN items'
      PROVE  \E i \in DOMAIN items : items'[j] = items[i]
  <2>1. j \in DOMAIN items /\ Len(items) \in DOMAIN items
    BY <1>1, <1>2
  <2> QED BY <1>2, <2>1
<1> QED BY <1>3, SucceedsItself DEF ItemsSucceed

\* Every step of the scheduler is a succession and issues at most one generation.
LEMMA NextSucceeds ==
    ASSUME IndInv, [Next]_vars
    PROVE  ItemsSucceed /\ generation' \in {generation, generation + 1}
<1> TypeOK /\ Core /\ FrameOK
  BY DEF IndInv
<1>0. Len(items) \in Nat /\ DOMAIN items = 1..Len(items)
  BY ItemsTyped
<1>1. CASE UNCHANGED items /\ UNCHANGED generation
  BY <1>1, SucceedsItself DEF ItemsSucceed
<1>2. CASE AdvanceRetire
  <2>1. idx \in DOMAIN items /\ items' = SwapRemove(items, idx) /\ UNCHANGED generation
    BY <1>0, <1>2 DEF AdvanceRetire, Retire, TypeOK
  <2> QED BY <2>1, RetireSucceeds
<1>3. CASE AdvanceKeep
  <2>1. DOMAIN items' = DOMAIN items /\ UNCHANGED generation
    BY <1>3 DEF AdvanceKeep
  <2>2. ASSUME NEW k \in DOMAIN items
        PROVE  items'[k].plan = items[k].plan /\ items'[k].cancel = items[k].cancel
    <3>1. items[k] \in ItemType
      BY ItemsTyped
    <3> QED BY <1>3, <3>1 DEF AdvanceKeep, ItemType
  <2>3. \A k \in DOMAIN items : Succeeds(items'[k], items[k])
    BY <2>2, SucceedsItself DEF Succeeds, EffectiveEnd
  <2> QED BY <2>1, <2>3 DEF ItemsSucceed
<1>4. CASE Arbitrate
  <2>1. cur \in PlanType /\ items' = GiveWay(cur) /\ UNCHANGED generation
    BY <1>4 DEF Arbitrate, FrameOK
  <2>2. /\ DOMAIN GiveWay(cur) = DOMAIN items
        /\ \A k \in DOMAIN items :
              /\ GiveWay(cur)[k].plan = items[k].plan
              /\ EffectiveEnd(GiveWay(cur)[k]) <= EffectiveEnd(items[k])
    BY <2>1, GiveWayOK
  <2> QED BY <2>1, <2>2 DEF ItemsSucceed, Succeeds
<1>5. CASE Supersede
  <2>1. Visiting \in DOMAIN items
    BY <1>5, VisitingOK DEF Supersede, IndInv
  <2>2. items' = SwapRemove(items, Visiting) /\ UNCHANGED generation
    BY <1>5 DEF Supersede, CancelQueued, Retire
  <2> QED BY <2>1, <2>2, RetireSucceeds
<1>6. CASE StopSlot
  <2>1. idx \in DOMAIN items /\ items' = SwapRemove(items, idx) /\ UNCHANGED generation
    BY <1>0, <1>6 DEF StopSlot, StopPlaying, CancelQueued, Retire, TypeOK
  <2> QED BY <2>1, RetireSucceeds
<1>7. CASE StopCurrent
  <2>1. CASE PlayingSlots = {}
    BY <1>1, <1>7, <2>1 DEF StopCurrent, state
  <2>2. CASE PlayingSlots # {}
    <3>1. PlayingSlots \subseteq Nat
      BY <1>0 DEF PlayingSlots
    <3>2. Min(PlayingSlots) \in PlayingSlots
      BY <2>2, <3>1, MinExists
    <3>3. Min(PlayingSlots) \in DOMAIN items
      BY <3>2 DEF PlayingSlots
    <3>4. items' = SwapRemove(items, Min(PlayingSlots)) /\ UNCHANGED generation
      BY <1>7, <2>2 DEF StopCurrent, StopPlaying, Retire
    <3> QED BY <3>3, <3>4, RetireSucceeds
  <2> QED BY <2>1, <2>2
<1>8. CASE Accept
  <2> DEFINE p == [cur EXCEPT !.gen = generation + 1]
  <2> DEFINE new == [plan |-> p, cancel |-> None,
                     status |-> IF p.start <= now THEN "playing" ELSE "queued"]
  <2>1. items' = Append(items, new) /\ generation' = generation + 1 /\ cur \in PlanType
    BY <1>8 DEF Accept, FrameOK
  <2>2. new.plan.gen = generation + 1
    BY <2>1 DEF PlanType
  <2> HIDE DEF new
  <2>3. DOMAIN items' = 1..(Len(items) + 1)
        /\ \A j \in 1..(Len(items) + 1) : items'[j] = IF j <= Len(items) THEN items[j] ELSE new
    BY <1>0, <2>1
  <2>4. ASSUME NEW j \in DOMAIN items'
        PROVE  \/ \E k \in DOMAIN items : Succeeds(items'[j], items[k])
               \/ items'[j].plan.gen = generation + 1 /\ generation' = generation + 1
    <3>1. CASE j <= Len(items)
      BY <1>0, <2>3, <3>1, SucceedsItself
    <3>2. CASE ~(j <= Len(items))
      BY <2>1, <2>2, <2>3, <3>2
    <3> QED BY <3>1, <3>2
  <2> QED BY <2>1, <2>4 DEF ItemsSucceed
<1>9. \/ AdvanceRetire \/ AdvanceKeep \/ Arbitrate \/ Supersede \/ StopSlot
      \/ StopCurrent \/ Accept \/ (UNCHANGED items /\ UNCHANGED generation)
  BY DEF Next, Call, Run, vars, state, CallAdvance, CallSchedule, CallStopAll, CallStopCurrent,
         CallCompleteAll, DrainHistory, Begin, AdvanceDone, RejectDuplicate, RejectCooldown,
         RejectPriority, Reject, StartPass, PushBack, EndPass, StopDone
<1> QED BY <1>1, <1>2, <1>3, <1>4, <1>5, <1>6, <1>7, <1>8, <1>9

\* The scheduler keeps the promise that playback relies on, for every set of
\* plans, every configuration and every order of calls, late ones included: a
\* generation is issued once, its window never moves or grows, and after it was
\* retired (advance_to, supersession, stop_all, stop_current) it stays retired.
THEOREM SchedulerKeepsPromise == Spec => KeepsPromise
<1>1. Init => Promise!TimelineInit
  BY DEF Init, Promise!TimelineInit, LiveWindows
<1>2. IndInv /\ IndInv' /\ [Next]_vars
        => [Promise!TimelineStep]_<<generation, LiveWindows>>
  BY NextSucceeds, SuccessionIsStep
<1> QED BY <1>1, <1>2, Inductive, PTL DEF Spec, KeepsPromise, Promise!TimelineSpec

-----------------------------------------------------------------------------
(* Spacing and priority.  PaceInv is inductive together with IndInv: what  *)
(* has ended lies behind the time a call has reached, so the distance that *)
(* arbitration gives a plan is kept until it is accepted.                  *)

\* The reservations a pass has still to visit are queued.
PassQueued == \A k \in pass : items[k].status = "queued"

\* Nothing ended after the time that the call has reached.
TerminalPast ==
    lastTerminal # None => lastTerminal <= (IF pc = "advance" THEN Target ELSE now)

\* A call in progress has brought time to its own; one that is not late has not
\* fallen behind.
CallOnTime ==
    /\ pc \notin {"idle", "advance"} => at <= now
    /\ op = "schedule" /\ ~AllowLate => at >= now

\* When arbitration begins nothing that is over plays.
PlayingLast ==
    pc = "schedule" =>
        \A k \in DOMAIN items : items[k].status = "playing" => EffectiveEnd(items[k]) > now

\* What HandoffSpacing asks of the plan when it is accepted.
KeepsDistance ==
    /\ \A k \in DOMAIN items :
          (items[k].status = "playing" /\ PlansConflict(items[k].plan, cur))
          => cur.start >= SatAdd(EffectiveEnd(items[k]), Spacing)
    /\ (lastTerminal # None /\ ~AllowLate)
          => cur.start >= SatAdd(lastTerminal, Spacing)
PlacedAtDistance ==
    pc \in {"resolve", "pass"} /\ cur.rank # Operator => KeepsDistance

\* The addition to the inductive invariant.
PaceInv == PassQueued /\ TerminalPast /\ CallOnTime /\ PlayingLast /\ PlacedAtDistance

\* Adding the same to a later time gives no earlier one.
LEMMA SatAddMonotone ==
    ASSUME NEW a \in Times, NEW b \in Times, a <= b
    PROVE  SatAdd(a, Spacing) <= SatAdd(b, Spacing)
BY TimeAssumption DEF SatAdd, Times

\* A rival that is not over at the request gives way at the request or later.
LEMMA BoundaryAfter ==
    ASSUME NEW item \in ItemType, NEW request \in Times, EffectiveEnd(item) > request
    PROVE  Boundary(item, request) >= request
<1> DEFINE p == item.plan
<1> DEFINE B == SafeBoundaries(p, request)
<1>1. /\ p \in PlanType /\ EndAt(p) \in Times /\ EffectiveEnd(item) \in Times
      /\ EffectiveEnd(item) <= EndAt(p)
  BY EndAtOK, EffectiveEndOK DEF ItemType
<1>2. EndAt(p) >= request
  BY <1>1, TimeAssumption DEF Times
<1>3. B \subseteq Nat /\ \A b \in B : b >= request
  <2>1. \A o \in p.points : SatAdd(p.start, o) \in Times
    BY <1>1, SatAddOK DEF PlanType
  <2> QED BY <2>1, TimeAssumption DEF SafeBoundaries, Times
<1>4. B # {} => Min(B) \in B
  BY <1>3, MinExists
<1>5. Boundary(item, request) \in {EndAt(p), Min(B)} /\ (B = {} => Boundary(item, request) = EndAt(p))
  BY DEF Boundary, NextSafeBoundary
<1> HIDE DEF B, p
<1> QED BY <1>2, <1>3, <1>4, <1>5

\* Nothing has ended and nobody has called in the beginning.
LEMMA PaceInit == Init => PaceInv
BY TimeAssumption DEF Init, PaceInv, PassQueued, TerminalPast, CallOnTime, PlayingLast,
   PlacedAtDistance

\* A call begins: its own time is ahead, and the walk has yet to bring it.
LEMMA PaceBegin ==
    ASSUME IndInv, PaceInv, NEW name \in {"advance", "complete_all", "schedule", "stop_all", "stop_current"},
           NEW t \in Times, NEW p, name = "schedule" => OnTime(t), Begin(name, t, p)
    PROVE  PaceInv'
<1>1. /\ pc = "idle" /\ pc' = "advance" /\ op' = name /\ at' = t /\ pass' = {}
      /\ UNCHANGED <<items, now, lastTerminal>>
  BY DEF Begin
<1>2. Target' \in Times /\ Target' >= now /\ now \in Times /\ lastTerminal \in Times \cup {None}
  BY <1>1, LaterOK DEF Target, IndInv, TypeOK
<1>3. TerminalPast'
  BY <1>1, <1>2, TimeAssumption DEF PaceInv, TerminalPast, Times
<1> QED BY <1>1, <1>3 DEF PaceInv, PassQueued, CallOnTime, PlayingLast, PlacedAtDistance, OnTime

\* The calls.
LEMMA PaceCall == ASSUME IndInv, PaceInv, Call PROVE PaceInv'
<1>1. ASSUME NEW t \in CallTimes, CallAdvance(t) \/ CallStopAll(t) \/ CallStopCurrent(t)
      PROVE  PaceInv'
  <2>1. t \in Times BY TimeAssumption
  <2> QED BY <1>1, <2>1, PaceBegin DEF CallAdvance, CallStopAll, CallStopCurrent
<1>2. ASSUME NEW t \in CallTimes, NEW p \in Plans, CallSchedule(t, p)
      PROVE  PaceInv'
  <2>1. t \in Times BY TimeAssumption
  <2> QED BY <1>2, <2>1, PaceBegin DEF CallSchedule
<1>3. CASE CallCompleteAll
  BY <1>3, LastEndOK, PaceBegin DEF CallCompleteAll, IndInv
<1>4. CASE DrainHistory
  BY <1>4 DEF DrainHistory, frame, PaceInv, PassQueued, TerminalPast, CallOnTime,
              PlayingLast, PlacedAtDistance, KeepsDistance
<1> QED BY <1>1, <1>2, <1>3, <1>4 DEF Call

\* What the walk retires has ended by the time it brings.
LEMMA PaceAdvance ==
    ASSUME IndInv, PaceInv, AdvanceRetire \/ AdvanceKeep \/ AdvanceDone
    PROVE  PaceInv'
<1>0. /\ pc = "advance" /\ pass = {} /\ pass' = {} /\ op # "none"
      /\ now \in Times /\ at \in Times /\ Target \in Times /\ Target >= now
      /\ lastTerminal \in Times \cup {None} /\ idx \in Nat \ {0}
      /\ Target = Later(at, now)
  BY ItemsTyped DEF AdvanceRetire, AdvanceKeep, AdvanceDone, IndInv, FrameOK, TypeOK,
                    IdleFrame, Target
<1>1. CASE AdvanceRetire
  <2> DEFINE end == EffectiveEnd(items[idx])
  <2>1. end \in Times /\ end <= Target
    BY <1>0, <1>1, ItemsTyped DEF AdvanceRetire, Ended, IndInv
  <2>2. lastTerminal' = IF lastTerminal = None THEN end ELSE Later(lastTerminal, end)
    BY <1>1 DEF AdvanceRetire
  <2>3. UNCHANGED <<pc, now, at, op>> /\ Target' = Target
    BY <1>1 DEF AdvanceRetire, Target
  <2> HIDE DEF end
  <2>4. lastTerminal # None => lastTerminal <= Target
    BY <1>0 DEF PaceInv, TerminalPast
  <2>5. TerminalPast'
    BY <1>0, <2>1, <2>2, <2>3, <2>4 DEF TerminalPast, Later
  <2> QED BY <1>0, <2>3, <2>5 DEF PaceInv, PassQueued, CallOnTime, PlayingLast, PlacedAtDistance
<1>2. CASE AdvanceKeep
  <2>1. UNCHANGED <<pc, now, at, op, lastTerminal>> /\ Target' = Target
    BY <1>2 DEF AdvanceKeep, Target
  <2> QED BY <1>0, <2>1 DEF PaceInv, PassQueued, TerminalPast, CallOnTime, PlayingLast,
                            PlacedAtDistance
<1>3. CASE AdvanceDone
  <2>1. /\ now' = Target /\ UNCHANGED <<items, lastTerminal>> /\ idx > Len(items)
        /\ \/ pc' = "idle" /\ op' = "none"
           \/ pc' = op /\ UNCHANGED <<op, at>> /\ op \notin {"advance", "complete_all"}
    BY <1>3 DEF AdvanceDone, IdleFrame
  <2>2. op \in {"none", "advance", "complete_all", "schedule", "stop_all", "stop_current"}
    BY DEF IndInv, TypeOK
  <2>3. TerminalPast'
    BY <1>0, <2>1, <2>2 DEF PaceInv, TerminalPast
  <2>4. CallOnTime'
    <3>1. at <= Target /\ (at >= now => Target = at)
      BY <1>0, TimeAssumption DEF Later, Times
    <3> QED BY <1>0, <2>1, <2>2, <3>1 DEF PaceInv, CallOnTime, Times
  <2>5. PlayingLast'
    <3>1. \A k \in DOMAIN items : k < idx
      BY <2>1, <1>0, ItemsTyped DEF IndInv
    <3>2. \A k \in DOMAIN items : items[k].status = "playing" => EffectiveEnd(items[k]) > Target
      BY <1>0, <3>1 DEF IndInv, WalkSettled
    <3> QED BY <2>1, <3>2 DEF PlayingLast
  <2>6. PassQueued' /\ PlacedAtDistance'
    BY <1>0, <2>1, <2>2 DEF PassQueued, PlacedAtDistance
  <2> QED BY <2>3, <2>4, <2>5, <2>6 DEF PaceInv
<1> QED BY <1>1, <1>2, <1>3

\* A call returns without an end of its own.
LEMMA PaceReturn ==
    ASSUME PaceInv, pc # "advance", pc' = "idle", IdleFrame, UNCHANGED <<now, lastTerminal>>
    PROVE  PaceInv'
BY DEF PaceInv, PassQueued, TerminalPast, CallOnTime, PlayingLast, PlacedAtDistance, IdleFrame

\* Arbitration places the plan at its distance.
LEMMA PaceArbitrate == ASSUME IndInv, PaceInv, Arbitrate PROVE PaceInv'
<1> DEFINE s == CandidateStart(cur)
<1>1. /\ pc = "schedule" /\ pc' = "resolve" /\ items' = GiveWay(cur) /\ op = "schedule"
      /\ cur \in PlanType /\ pass' = pass /\ pass = {}
      /\ cur' = [cur EXCEPT !.start = s, !.points = {o \in cur.points : o <= cur.duration}]
      /\ UNCHANGED <<now, at, op, lastTerminal>>
  BY DEF Arbitrate, IndInv, FrameOK
<1>2. /\ cur'.start = s /\ cur'.rank = cur.rank
      /\ cur'.exclusive = cur.exclusive /\ cur'.channels = cur.channels
  BY <1>1 DEF PlanType
<1>3. /\ now \in Times /\ at \in Times /\ Spacing \in Times
      /\ lastTerminal \in Times \cup {None} /\ s \in Times
  BY <1>1, CandidateStartOK, TimeAssumption DEF IndInv, TypeOK
<1>4. \A k \in DOMAIN items' :
         /\ k \in DOMAIN items /\ items'[k].plan = items[k].plan
         /\ items'[k].status = items[k].status /\ items'[k] \in ItemType
         /\ k \in Rivals(cur) => EffectiveEnd(items'[k]) <= Boundary(items[k], at)
  <2>1. GiveWay(cur) \in Seq(ItemType) /\ DOMAIN GiveWay(cur) = DOMAIN items
    BY <1>1, GiveWayOK DEF IndInv
  <2>2. \A k \in DOMAIN GiveWay(cur) : GiveWay(cur)[k] \in ItemType
    BY <2>1, LenProperties
  <2> QED BY <1>1, <2>1, <2>2, GiveWayOK DEF IndInv
<1>5. ASSUME cur.rank # Operator, Rivals(cur) # {}
      PROVE  /\ Handoff(cur) \in Times /\ SatAdd(Handoff(cur), Spacing) <= s
             /\ \A k \in Rivals(cur) : Boundary(items[k], at) <= Handoff(cur)
  <2>1. Handoff(cur) \in Times /\ \A k \in Rivals(cur) : Boundary(items[k], at) <= Handoff(cur)
    BY <1>1, <1>5, HandoffOK DEF IndInv
  <2>2. RequestedStart(cur) \in Times
    BY <1>1, <1>3, LaterOK DEF RequestedStart, PlanType
  <2>3. SatAdd(Handoff(cur), Spacing) \in Times
    BY <1>3, <2>1, SatAddOK
  <2>4. s = Later(RequestedStart(cur), SatAdd(Handoff(cur), Spacing))
    BY <1>5 DEF CandidateStart, SpacedAfter
  <2> HIDE DEF s
  <2> QED BY <2>1, <2>2, <2>3, <2>4, LaterOK
<1>6. ASSUME cur.rank # Operator, NEW k \in DOMAIN items', items'[k].status = "playing",
             PlansConflict(items'[k].plan, cur')
      PROVE  s >= SatAdd(EffectiveEnd(items'[k]), Spacing)
  <2>1. k \in Rivals(cur)
    BY <1>2, <1>4, <1>6 DEF Rivals, PlansConflict
  <2>2. Handoff(cur) \in Times /\ SatAdd(Handoff(cur), Spacing) <= s
        /\ EffectiveEnd(items'[k]) \in Times /\ EffectiveEnd(items'[k]) <= Handoff(cur)
    <3>1. Boundary(items[k], at) <= Handoff(cur) /\ Handoff(cur) \in Times
          /\ SatAdd(Handoff(cur), Spacing) <= s
      BY <1>5, <1>6, <2>1
    <3>2. Boundary(items[k], at) \in Times /\ EffectiveEnd(items'[k]) \in Times
      BY <1>3, <1>4, ItemsTyped, BoundaryOK, EffectiveEndOK DEF IndInv
    <3>3. EffectiveEnd(items'[k]) <= Boundary(items[k], at)
      BY <1>4, <2>1
    <3> QED BY <3>1, <3>2, <3>3, TimeAssumption DEF Times
  <2>3. SatAdd(EffectiveEnd(items'[k]), Spacing) <= SatAdd(Handoff(cur), Spacing)
    BY <2>2, SatAddMonotone
  <2>4. /\ SatAdd(EffectiveEnd(items'[k]), Spacing) \in Times
        /\ SatAdd(Handoff(cur), Spacing) \in Times
    BY <1>3, <2>2, SatAddOK
  <2> QED BY <1>3, <2>2, <2>3, <2>4, TimeAssumption DEF Times
<1>7. ASSUME cur.rank # Operator, lastTerminal # None, ~AllowLate
      PROVE  s >= SatAdd(lastTerminal, Spacing)
  <2>1. CASE Rivals(cur) = {}
    <3>1. s = Later(RequestedStart(cur), SatAdd(lastTerminal, Spacing))
      BY <1>7, <2>1 DEF CandidateStart
    <3>2. RequestedStart(cur) \in Times /\ SatAdd(lastTerminal, Spacing) \in Times
      BY <1>1, <1>3, <1>7, LaterOK, SatAddOK DEF RequestedStart, PlanType
    <3> HIDE DEF s
    <3> QED BY <3>1, <3>2, LaterOK
  <2>2. CASE Rivals(cur) # {}
    <3>1. PICK k \in Rivals(cur) : TRUE
      BY <2>2
    <3>2. k \in DOMAIN items /\ items[k] \in ItemType /\ EffectiveEnd(items[k]) > now
      BY <1>1, <3>1, ItemsTyped DEF Rivals, PaceInv, PlayingLast, IndInv
    <3>3. now = at
      BY <1>1, <1>3, <1>7 DEF PaceInv, CallOnTime, Times
    <3>4. Boundary(items[k], at) >= at /\ Boundary(items[k], at) \in Times
      BY <1>3, <3>2, <3>3, BoundaryAfter, BoundaryOK
    <3>5. Boundary(items[k], at) <= Handoff(cur) /\ Handoff(cur) \in Times
          /\ SatAdd(Handoff(cur), Spacing) <= s
      BY <1>5, <1>7, <2>2, <3>1
    <3>6. lastTerminal <= now
      BY <1>1, <1>7 DEF PaceInv, TerminalPast
    <3>7. lastTerminal <= Handoff(cur)
      BY <1>3, <1>7, <3>3, <3>4, <3>5, <3>6, TimeAssumption DEF Times
    <3>8. SatAdd(lastTerminal, Spacing) <= SatAdd(Handoff(cur), Spacing)
      BY <1>3, <1>7, <3>5, <3>7, SatAddMonotone
    <3>9. SatAdd(lastTerminal, Spacing) \in Times /\ SatAdd(Handoff(cur), Spacing) \in Times
      BY <1>3, <1>7, <3>5, SatAddOK
    <3> HIDE DEF s
    <3> QED BY <1>3, <3>5, <3>8, <3>9, TimeAssumption DEF Times
  <2> QED BY <2>1, <2>2
<1> HIDE DEF s
<1>8. PlacedAtDistance'
  BY <1>1, <1>2, <1>6, <1>7 DEF PlacedAtDistance, KeepsDistance
<1>9. PassQueued' /\ TerminalPast' /\ CallOnTime' /\ PlayingLast'
  BY <1>1 DEF PaceInv, PassQueued, TerminalPast, CallOnTime, PlayingLast
<1> QED BY <1>8, <1>9 DEF PaceInv

\* A pass starts with reservations and ends with none.
LEMMA PacePass == ASSUME PaceInv, StartPass \/ EndPass PROVE PaceInv'
<1>1. /\ pc \in {"resolve", "pass"} /\ pc' \in {"resolve", "pass"}
      /\ UNCHANGED <<items, now, lastTerminal, op, at, cur>>
      /\ \A k \in pass' : items[k].status = "queued"
  BY DEF StartPass, EndPass, Overlapped, state, frame, PaceInv, PassQueued
<1> QED BY <1>1 DEF PaceInv, PassQueued, TerminalPast, CallOnTime, PlayingLast,
                    PlacedAtDistance, KeepsDistance

\* A superseded reservation takes no distance away.
LEMMA PaceSupersede == ASSUME IndInv, PaceInv, Supersede PROVE PaceInv'
<1>1. pc = "pass" /\ pass # {} /\ at \in Times
  BY DEF Supersede, IndInv, TypeOK
<1>2. Visiting \in DOMAIN items /\ \A k \in pass \ {Visiting} : k \in 1..(Visiting - 1)
  BY <1>1, VisitingOK DEF IndInv
<1>3. UNCHANGED <<generation, now, lastTerminal, exported, pc, op, at, cur>>
      /\ pass' = pass \ {Visiting}
  BY DEF Supersede
<1>4. Retire(Visiting, [items[Visiting] EXCEPT !.status = "cancelled", !.cancel = at], at)
  BY DEF Supersede, CancelQueued
<1>5. /\ DOMAIN items' = 1..(Len(items) - 1)
      /\ \A j \in DOMAIN items' : /\ Origin(Visiting, j) \in DOMAIN items \ {Visiting}
                                  /\ items'[j] = items[Origin(Visiting, j)]
  BY <1>1, <1>2, <1>3, <1>4, CancelRetire
<1>6. PassQueued'
  <2>1. \A k \in pass' : k \in DOMAIN items' /\ Origin(Visiting, k) = k
    BY <1>2, <1>3, <1>5, ItemsTyped DEF Origin, IndInv
  <2> QED BY <1>3, <1>5, <2>1 DEF PaceInv, PassQueued
<1>7. PlacedAtDistance'
  BY <1>1, <1>3, <1>5 DEF PaceInv, PlacedAtDistance, KeepsDistance
<1> QED BY <1>1, <1>3, <1>6, <1>7 DEF PaceInv, TerminalPast, CallOnTime, PlayingLast

\* Pushing a plan back adds to its distance.
LEMMA PacePushBack == ASSUME IndInv, PaceInv, PushBack PROVE PaceInv'
<1> DEFINE s == PushedBack(cur, items[Visiting])
<1>1. /\ pc = "pass" /\ pc' = "pass" /\ pass # {} /\ cur \in PlanType /\ pass' = pass \ {Visiting}
      /\ cur' = [cur EXCEPT !.start = s] /\ UNCHANGED <<op, at>>
      /\ UNCHANGED <<items, now, lastTerminal>>
  BY DEF PushBack, FrameOK, IndInv, state
<1>2. Visiting \in DOMAIN items
  BY <1>1, VisitingOK DEF IndInv
<1>3. /\ cur.start \in Times /\ EffectiveEnd(items[Visiting]) \in Times /\ Spacing \in Times
      /\ lastTerminal \in Times \cup {None}
  BY <1>1, <1>2, ItemsTyped, TimeAssumption DEF PlanType, IndInv, TypeOK
<1>4. s \in Times /\ s >= cur.start
  <2> DEFINE m == Later(cur.start, EffectiveEnd(items[Visiting]))
  <2>1. m \in Times /\ m >= cur.start
    BY <1>3, LaterOK
  <2>2. SatAdd(m, Spacing) \in Times /\ SatAdd(m, Spacing) >= m
    BY <1>3, <2>1, SatAddOK
  <2>3. s = m \/ s = SatAdd(m, Spacing)
    BY DEF PushedBack, SpacedAfter
  <2> HIDE DEF m, s
  <2> QED BY <1>3, <2>1, <2>2, <2>3, TimeAssumption DEF Times
<1> HIDE DEF s
<1>5. /\ cur'.start = s /\ cur'.rank = cur.rank
      /\ cur'.exclusive = cur.exclusive /\ cur'.channels = cur.channels
  BY <1>1 DEF PlanType
<1>6. PlacedAtDistance'
  <2> SUFFICES ASSUME cur.rank # Operator PROVE KeepsDistance'
    BY <1>5 DEF PlacedAtDistance
  <2>1. KeepsDistance
    BY <1>1 DEF PaceInv, PlacedAtDistance
  <2>2. ASSUME NEW k \in DOMAIN items, items[k].status = "playing",
               PlansConflict(items[k].plan, cur')
        PROVE  s >= SatAdd(EffectiveEnd(items[k]), Spacing)
    <3>1. PlansConflict(items[k].plan, cur)
      BY <1>5, <2>2 DEF PlansConflict
    <3>2. cur.start >= SatAdd(EffectiveEnd(items[k]), Spacing)
      BY <2>1, <2>2, <3>1 DEF KeepsDistance
    <3>3. SatAdd(EffectiveEnd(items[k]), Spacing) \in Times
      BY <1>3, <2>2, ItemsTyped, SatAddOK DEF IndInv
    <3> QED BY <1>3, <1>4, <3>2, <3>3, TimeAssumption DEF Times
  <2>3. ASSUME lastTerminal # None, ~AllowLate PROVE s >= SatAdd(lastTerminal, Spacing)
    <3>1. cur.start >= SatAdd(lastTerminal, Spacing)
      BY <2>1, <2>3 DEF KeepsDistance
    <3>2. SatAdd(lastTerminal, Spacing) \in Times
      BY <1>3, <2>3, SatAddOK
    <3> QED BY <1>3, <1>4, <3>1, <3>2, TimeAssumption DEF Times
  <2> QED BY <1>1, <1>5, <2>2, <2>3 DEF KeepsDistance
<1> QED BY <1>1, <1>6 DEF PaceInv, PassQueued, TerminalPast, CallOnTime, PlayingLast

\* What a stop ends has ended by now, because the stop brought time to its own.
LEMMA PaceStop == ASSUME IndInv, PaceInv, StopSlot \/ StopCurrent PROVE PaceInv'
<1>1. /\ pc \in {"stop_all", "stop_current"} /\ pc' \in {"stop_all", "idle"}
      /\ now \in Times /\ at \in Times /\ lastTerminal \in Times \cup {None}
      /\ pass' = {} /\ UNCHANGED now /\ (pc' = "stop_all" => UNCHANGED <<op, at>>)
      /\ (pc' = "idle" => op' = "none")
  BY DEF StopSlot, StopCurrent, IndInv, FrameOK, TypeOK, IdleFrame, state
<1>2. at <= now /\ (lastTerminal # None => lastTerminal <= now)
  BY <1>1 DEF PaceInv, CallOnTime, TerminalPast
<1>3. lastTerminal' \in {lastTerminal, at, Later(lastTerminal, at)}
      /\ (lastTerminal' # lastTerminal =>
             lastTerminal' = (IF lastTerminal = None THEN at ELSE Later(lastTerminal, at)))
  BY DEF StopSlot, StopCurrent, StopPlaying, state
<1>4. lastTerminal' # None => lastTerminal' <= now
  BY <1>1, <1>2, <1>3, TimeAssumption DEF Later, Times
<1> QED BY <1>1, <1>4 DEF PaceInv, PassQueued, TerminalPast, CallOnTime, PlayingLast,
                          PlacedAtDistance

\* Every step of a call.
LEMMA PaceRun == ASSUME IndInv, PaceInv, Run PROVE PaceInv'
<1>1. CASE RejectDuplicate \/ RejectCooldown \/ RejectPriority
  BY <1>1, PaceReturn DEF RejectDuplicate, RejectCooldown, RejectPriority, Reject
<1>2. CASE StopDone
  <2>1. UNCHANGED <<now, lastTerminal>>
    BY <1>2 DEF StopDone, state
  <2> QED BY <1>2, <2>1, PaceReturn DEF StopDone
<1>3. CASE Accept
  BY <1>3, PaceReturn DEF Accept
<1> QED BY <1>1, <1>2, <1>3, PaceAdvance, PaceArbitrate, PacePass, PaceSupersede,
           PacePushBack, PaceStop DEF Run

\* The whole invariant.
LEMMA PaceHolds == Spec => []PaceInv
<1>1. IndInv /\ PaceInv /\ [Next]_vars => PaceInv'
  <2>1. ASSUME IndInv, PaceInv, UNCHANGED vars PROVE PaceInv'
    <3>1. UNCHANGED <<items, now, lastTerminal, pc, op, at, cur, pass>>
      BY <2>1 DEF vars
    <3>2. Target' = Target
      BY <3>1 DEF Target
    <3> QED BY <2>1, <3>1, <3>2 DEF PaceInv, PassQueued, TerminalPast, CallOnTime,
                                    PlayingLast, PlacedAtDistance, KeepsDistance
  <2> QED BY <2>1, PaceCall, PaceRun DEF Next
<1> QED BY <1>1, PaceInit, Inductive, PTL DEF Spec

\* An accepted plan keeps the minimum spacing from what plays and from what
\* ended last (`schedule_at`, min_reaction_spacing_ms).
THEOREM HandoffsSpaced == Spec => HandoffSpacing
<1> DEFINE A == (pc = "resolve" /\ pc' = "idle" /\ cur.rank # Operator) =>
          /\ \A k \in DOMAIN items :
                (items[k].status = "playing" /\ PlansConflict(items[k].plan, cur))
                => cur.start >= SatAdd(EffectiveEnd(items[k]), Spacing)
          /\ (lastTerminal # None /\ ~AllowLate)
                => cur.start >= SatAdd(lastTerminal, Spacing)
<1>1. PaceInv => A
  BY DEF PaceInv, PlacedAtDistance, KeepsDistance
<1>2. PaceInv => [A]_vars
  BY <1>1
<1> QED BY <1>2, PaceHolds, PTL DEF HandoffSpacing

\* The items of one generation: the item itself, wherever it went.
Kin(k) == {j \in DOMAIN items' : items'[j].plan.gen = items[k].plan.gen}

\* What one step of a schedule request may do to an item.
Spared(k) ==
    /\ Kin(k) = {} => items[k].status = "queued" /\ cur.rank < items[k].plan.rank
    /\ \A j \in Kin(k) : items'[j].cancel # items[k].cancel =>
          /\ items[k].status = "playing" /\ cur.rank <= items[k].plan.rank
          /\ items[k].cancel = None \/ items'[j].cancel < items[k].cancel

\* A step that touches no item displaces nothing.
LEMMA UntouchedSpared ==
    ASSUME IndInv, UNCHANGED items, NEW k \in DOMAIN items
    PROVE  Spared(k)
<1>1. Kin(k) = {k}
  BY LiveDistinct DEF Kin, IndInv, Core
<1> QED BY <1>1 DEF Spared

\* Arbitration shortens playing items of no higher priority, and never moves a
\* cancellation later.
LEMMA ArbitrateSpares ==
    ASSUME IndInv, Arbitrate, NEW k \in DOMAIN items
    PROVE  Spared(k)
<1>1. items' = GiveWay(cur) /\ cur \in PlanType /\ ~Outranked(cur) /\ at \in Times
  BY DEF Arbitrate, IndInv, FrameOK, TypeOK
<1>2. /\ DOMAIN items' = DOMAIN items
      /\ \A j \in DOMAIN items : items'[j].plan = items[j].plan
  BY <1>1, GiveWayOK DEF IndInv
<1>3. Kin(k) = {k}
  BY <1>2, LiveDistinct DEF Kin, IndInv, Core
<1>4. /\ items[k] \in ItemType /\ items[k].plan \in PlanType
      /\ items[k].cancel \in Times \cup {None} /\ Boundary(items[k], at) \in Times
  BY <1>1, ItemsTyped, BoundaryOK DEF IndInv, ItemType
<1>5. ASSUME items'[k].cancel # items[k].cancel
      PROVE  /\ k \in Rivals(cur)
             /\ items'[k].cancel = CancelBy(items[k], Boundary(items[k], at))
  BY <1>1, <1>4, <1>5 DEF GiveWay, ItemType
<1>6. ASSUME items'[k].cancel # items[k].cancel
      PROVE  /\ items[k].status = "playing" /\ cur.rank <= items[k].plan.rank
             /\ items[k].cancel = None \/ items'[k].cancel < items[k].cancel
  <2>1. items[k].status = "playing" /\ ~(cur.rank > items[k].plan.rank)
    BY <1>1, <1>5, <1>6 DEF Rivals, Outranked
  <2>2. cur.rank \in Int /\ items[k].plan.rank \in Int
    BY <1>1, <1>4 DEF PlanType, Ranks, Operator, Background
  <2>3. items[k].cancel = None \/ items'[k].cancel < items[k].cancel
    BY <1>4, <1>5, <1>6, TimeAssumption DEF CancelBy, Earlier, Times
  <2> QED BY <2>1, <2>2, <2>3
<1> QED BY <1>3, <1>6 DEF Spared

\* Only a reservation of strictly lower priority is superseded.
LEMMA SupersedeSpares ==
    ASSUME IndInv, PaceInv, Supersede, NEW k \in DOMAIN items
    PROVE  Spared(k)
<1>1. pc = "pass" /\ pass # {} /\ at \in Times /\ Supersedes(cur, items[Visiting])
  BY DEF Supersede, IndInv, TypeOK
<1>2. Visiting \in DOMAIN items /\ Visiting \in pass
  BY <1>1, VisitingOK DEF IndInv
<1>3. Retire(Visiting, [items[Visiting] EXCEPT !.status = "cancelled", !.cancel = at], at)
      /\ UNCHANGED <<generation, exported>>
  BY DEF Supersede, CancelQueued
<1>4. /\ DOMAIN items' = 1..(Len(items) - 1)
      /\ \A j \in DOMAIN items' : /\ Origin(Visiting, j) \in DOMAIN items \ {Visiting}
                                  /\ items'[j] = items[Origin(Visiting, j)]
  BY <1>1, <1>2, <1>3, CancelRetire
<1>5. \A j \in Kin(k) : items'[j] = items[k]
  BY <1>4, LiveDistinct DEF Kin, IndInv, Core
<1>6. k # Visiting => Kin(k) # {}
  <2> SUFFICES ASSUME k # Visiting PROVE \E j \in DOMAIN items' : Origin(Visiting, j) = k
    BY <1>4 DEF Kin
  <2>1. DOMAIN items = 1..Len(items) /\ Len(items) \in Nat
    BY ItemsTyped DEF IndInv
  <2>2. CASE k = Len(items)
    <3>1. Visiting \in DOMAIN items' /\ Origin(Visiting, Visiting) = k
      BY <1>2, <1>4, <2>1, <2>2 DEF Origin
    <3> QED BY <3>1
  <2>3. CASE k # Len(items)
    <3>1. k \in DOMAIN items' /\ Origin(Visiting, k) = k
      BY <1>4, <2>1, <2>3 DEF Origin
    <3> QED BY <3>1
  <2> QED BY <2>2, <2>3
<1>7. k = Visiting => items[k].status = "queued" /\ cur.rank < items[k].plan.rank
  BY <1>1, <1>2 DEF PaceInv, PassQueued, Supersedes
<1> QED BY <1>5, <1>6, <1>7 DEF Spared

\* An accepted plan joins the others.
LEMMA AcceptSpares ==
    ASSUME IndInv, Accept, NEW k \in DOMAIN items
    PROVE  Spared(k)
<1> DEFINE p == [cur EXCEPT !.gen = generation + 1]
<1> DEFINE new == [plan |-> p, cancel |-> None,
                   status |-> IF p.start <= now THEN "playing" ELSE "queued"]
<1>1. items' = Append(items, new) /\ cur \in PlanType
  BY DEF Accept, IndInv, FrameOK
<1>2. new.plan.gen = generation + 1 /\ new \in ItemType
  <2>0. generation + 1 \in Nat
    BY ConfigAssumption DEF IndInv, TypeOK
  <2>1. p \in PlanType /\ p.gen = generation + 1
    BY <1>1, <2>0 DEF PlanType
  <2> QED BY <2>1 DEF ItemType
<1> HIDE DEF new
<1>3. /\ DOMAIN items' = 1..(Len(items) + 1) /\ items'[Len(items) + 1] = new
      /\ \A j \in DOMAIN items : items'[j] = items[j]
      /\ DOMAIN items = 1..Len(items) /\ Len(items) \in Nat
  <2>1. items \in Seq(ItemType) /\ DOMAIN items = 1..Len(items) /\ Len(items) \in Nat
    BY ItemsTyped DEF IndInv, TypeOK
  <2>2. /\ Append(items, new) \in Seq(ItemType) /\ Len(Append(items, new)) = Len(items) + 1
        /\ Append(items, new)[Len(items) + 1] = new
        /\ \A j \in 1..Len(items) : Append(items, new)[j] = items[j]
    BY <1>2, <2>1, AppendProperties
  <2>3. DOMAIN Append(items, new) = 1..(Len(items) + 1)
    BY <2>2, LenProperties
  <2> QED BY <1>1, <2>1, <2>2, <2>3
<1>4. \A j \in DOMAIN items : items[j].plan.gen \in 1..generation
  BY DEF IndInv, LiveOK
<1>5. Kin(k) = {k}
  <2>1. generation \in Nat
    BY ConfigAssumption DEF IndInv, TypeOK
  <2>2. items'[Len(items) + 1].plan.gen # items[k].plan.gen
    BY <1>2, <1>3, <1>4, <2>1
  <2>3. \A j \in DOMAIN items : items[j].plan.gen = items[k].plan.gen => j = k
    BY LiveDistinct DEF IndInv, Core
  <2>4. \A j \in DOMAIN items' : j \in DOMAIN items \/ j = Len(items) + 1
    BY <1>3
  <2> QED BY <1>3, <2>2, <2>3, <2>4 DEF Kin
<1> QED BY <1>3, <1>5 DEF Spared

\* A schedule request displaces only what it outranks (`schedule_at`,
\* `resolve_future_conflicts`).
THEOREM PriorityIsRespected == Spec => PriorityRespected
<1> DEFINE A == (pc \in {"schedule", "resolve", "pass"}) =>
          \A k \in DOMAIN items :
              LET item  == items[k]
                  after == {j \in DOMAIN items' : items'[j].plan.gen = item.plan.gen}
              IN  /\ after = {} => /\ item.status = "queued"
                                   /\ cur.rank < item.plan.rank
                  /\ \A j \in after : items'[j].cancel # item.cancel =>
                         /\ item.status = "playing" /\ cur.rank <= item.plan.rank
                         /\ item.cancel = None \/ items'[j].cancel < item.cancel
<1>1. IndInv /\ PaceInv /\ [Next]_vars => [A]_vars
  <2> SUFFICES ASSUME IndInv, PaceInv, Next, pc \in {"schedule", "resolve", "pass"},
                      NEW k \in DOMAIN items
               PROVE  Spared(k)
    BY DEF Spared, Kin
  <2>1. \/ UNCHANGED items \/ Arbitrate \/ Supersede \/ Accept
    BY DEF Next, Call, Run, CallAdvance, CallSchedule, CallStopAll, CallStopCurrent,
           CallCompleteAll, DrainHistory, Begin, AdvanceRetire, AdvanceKeep, AdvanceDone,
           RejectDuplicate, RejectCooldown, RejectPriority, Reject, StartPass, state,
           PushBack, EndPass, StopSlot, StopDone, StopCurrent
  <2> QED BY <2>1, UntouchedSpared, ArbitrateSpares, SupersedeSpares, AcceptSpares
<1> QED BY <1>1, Inductive, PaceHolds, PTL DEF Spec, PriorityRespected
=============================================================================
