------------------------- MODULE GenerativeProofs -------------------------
(***************************************************************************)
(* What holds of the parts that surround generation for every number of    *)
(* reservations, chains and workers and for every bound of MCGenerative.   *)
(***************************************************************************)
EXTENDS MCGenerative, FiniteSetTheorems, SequenceTheorems, WellFoundedInduction, TLAPS

(* Numbers and sequences                                                   *)

\* A non-empty set of naturals has a least element.
LEMMA LeastExists ==
    ASSUME NEW S, S \subseteq Nat, S # {}
    PROVE  \E x \in S : \A y \in S : x <= y
<1>1. PICK x \in S : \A y \in S : ~ (<<y, x>> \in OpToRel(<, Nat))
  BY NatLessThanWellFounded, WFMin
<1>2. ASSUME NEW y \in S PROVE x <= y
  <2>1. x \in Nat /\ y \in Nat OBVIOUS
  <2>2. y < x => <<y, x>> \in OpToRel(<, Nat) BY <2>1 DEF OpToRel
  <2>3. ~ (y < x) BY <1>1, <2>2, Zenon
  <2> QED BY <2>1, <2>3
<1> QED BY <1>2

\* A sequence without its first d places.
LEMMA DropsFront ==
    ASSUME NEW S, NEW s \in Seq(S), NEW d \in Nat, d <= Len(s)
    PROVE  /\ SubSeq(s, d + 1, Len(s)) \in Seq(S)
           /\ Len(SubSeq(s, d + 1, Len(s))) = Len(s) - d
           /\ \A i \in 1..(Len(s) - d) : SubSeq(s, d + 1, Len(s))[i] = s[d + i]
<1>1. Len(s) \in Nat /\ \A i \in 1..Len(s) : s[i] \in S BY LenProperties, ElementOfSeq
<1>2. d + 1 \in Int /\ Len(s) \in Int /\ \A i \in (d + 1)..Len(s) : s[i] \in S
  BY <1>1
<1> DEFINE t == SubSeq(s, d + 1, Len(s))
<1>3. /\ t \in Seq(S)
      /\ Len(t) = IF d + 1 <= Len(s) THEN Len(s) - (d + 1) + 1 ELSE 0
      /\ \A i \in 1..(Len(s) - (d + 1) + 1) : t[i] = s[d + 1 + i - 1]
  BY <1>2, SubSeqProperties
<1> HIDE DEF t
<1>4. Len(s) - (d + 1) + 1 = Len(s) - d BY <1>1
<1>5. \A i \in 1..(Len(s) - d) : d + 1 + i - 1 = d + i BY <1>1
<1>6. IF d + 1 <= Len(s) THEN Len(s) - (d + 1) + 1 = Len(s) - d ELSE Len(s) - d = 0 BY <1>1
<1>7. Len(t) = Len(s) - d BY ONLY <1>3, <1>6
<1>8. \A i \in 1..(Len(s) - d) : t[i] = s[d + i] BY ONLY <1>3, <1>4, <1>5
<1> QED BY <1>3, <1>7, <1>8 DEF t

\* The end of an interval has as many members as it is long.
LEMMA EndOfInterval ==
    ASSUME NEW a \in Int, NEW b \in Int, a <= b + 1
    PROVE  IsFiniteSet(a..b) /\ Cardinality(a..b) = b - a + 1
<1>1. IsFiniteSet(a..b) /\ Cardinality(a..b) = IF a > b THEN 0 ELSE b - a + 1
  BY FS_Interval
<1> QED BY <1>1

----------------------------------------------------------------------------
(* The budget governor                                                     *)

\* The instance counts like FiniteSets.
LEMMA BudgetCounts ==
    ASSUME NEW S
    PROVE  Budget!Cardinality(S) = Cardinality(S)
BY DEF Budget!Cardinality, Cardinality

\* A reservation holds its slot from its grant to its end, and the shared
\* counter counts the slots.
BudgetSlots ==
    /\ place \in [Reservations -> Budget!Places] /\ slot \in [Reservations -> BOOLEAN]
    /\ \A r \in Reservations : slot[r] <=> place[r] \notin {"none", "finished"}
    /\ inFlight \in Nat /\ inFlight <= MaxConcurrent
    /\ inFlight = Cardinality({r \in Reservations : slot[r]})

\* Grants are listed in the order of time.
BudgetGrants ==
    /\ now \in Nat
    /\ \E S : grants \in Seq(S)
    /\ \A i \in 1..Len(grants) : grants[i].at \in Nat /\ grants[i].at <= now
    /\ \A i, j \in 1..Len(grants) : i <= j => grants[i].at <= grants[j].at

\* A ledger of calls holds the times of the last grants, and those before them
\* are out of the window that ends at t.
Rolled(ledger, t) ==
    /\ ledger \in Seq(Nat) /\ Len(ledger) <= Len(grants)
    /\ \A k \in 1..Len(ledger) : ledger[k] = grants[Len(grants) - Len(ledger) + k].at
    /\ \A i \in 1..(Len(grants) - Len(ledger)) : grants[i].at < Budget!HorizonAt(t)

BudgetInv ==
    /\ BudgetSlots /\ BudgetGrants /\ Rolled(calls, now) /\ Budget!CallsRoll

\* The policy's numbers.
LEMMA BudgetBounds ==
    /\ MaxConcurrent \in Nat \ {0} /\ CallLimit \in Nat \ {0} /\ Interval \in Nat \ {0}
    /\ ReservePercent \in Nat /\ IsFiniteSet(Reservations)
<1>1. /\ MaxConcurrent \in Nat \ {0} /\ CallLimit \in Nat \ {0} /\ Interval \in Nat \ {0}
      /\ ReservePercent \in 0..100
  BY BudgetAssumption DEF Budget!PolicyAssumption
<1>2. IsFiniteSet(Reservations)
  BY BudgetAssumption DEF Budget!BoundAssumption, Budget!IsFiniteSet, IsFiniteSet
<1> QED BY <1>1, <1>2

\* The horizon moves with the clock and is where the interval begins.
LEMMA HorizonIs ==
    ASSUME NEW t \in Nat
    PROVE  /\ Budget!HorizonAt(t) \in Nat
           /\ \A u \in Nat : t <= u => Budget!HorizonAt(t) <= Budget!HorizonAt(u)
           /\ \A x \in Nat : x >= Budget!HorizonAt(t) <=> x >= t - Interval
BY BudgetBounds DEF Budget!HorizonAt

\* trim_windows takes the calls below the horizon off a ledger in the order of
\* time, and no others.
LEMMA TrimIs ==
    ASSUME NEW ledger \in Seq(Nat), NEW t \in Nat,
           \A i, j \in 1..Len(ledger) : i <= j => ledger[i] <= ledger[j]
    PROVE  \E d \in 0..Len(ledger) :
              /\ Budget!Trim(ledger, t) \in Seq(Nat)
              /\ Len(Budget!Trim(ledger, t)) = Len(ledger) - d
              /\ \A i \in 1..(Len(ledger) - d) : Budget!Trim(ledger, t)[i] = ledger[d + i]
              /\ \A m \in 1..d : ledger[m] < Budget!HorizonAt(t)
              /\ \A m \in (d + 1)..Len(ledger) : ledger[m] >= Budget!HorizonAt(t)
<1> DEFINE keep == {k \in DOMAIN ledger : ledger[k] >= Budget!HorizonAt(t)}
           least == CHOOSE k \in keep : \A m \in keep : k <= m
           H == Budget!HorizonAt(t)
<1>1. /\ Len(ledger) \in Nat /\ DOMAIN ledger = 1..Len(ledger)
      /\ \A i \in 1..Len(ledger) : ledger[i] \in Nat
  BY LenProperties, ElementOfSeq
<1>2. H \in Nat BY HorizonIs
<1>3. CASE keep = {}
  <2>1. Budget!Trim(ledger, t) = <<>> BY <1>3 DEF Budget!Trim
  <2>2. \A m \in 1..Len(ledger) : ledger[m] < H BY <1>1, <1>2, <1>3
  <2>3. <<>> \in Seq(Nat) /\ Len(<<>>) = 0 BY EmptySeq
  <2>4. Len(ledger) \in 0..Len(ledger) /\ Len(ledger) - Len(ledger) = 0
        /\ 1..0 = {} /\ (Len(ledger) + 1)..Len(ledger) = {}
    BY <1>1
  <2> QED BY <2>1, <2>2, <2>3, <2>4
<1>4. CASE keep # {}
  <2>1. keep \subseteq Nat BY <1>1
  <2>2. least \in keep /\ \A m \in keep : least <= m BY <1>4, <2>1, LeastExists
  <2>3. Budget!Trim(ledger, t) = SubSeq(ledger, least, Len(ledger)) BY <1>4 DEF Budget!Trim
  <2> HIDE DEF least
  <2>4. least \in 1..Len(ledger) /\ ledger[least] >= H BY <2>2, <1>1
  <2> DEFINE d == least - 1
  <2>5. d \in Nat /\ d <= Len(ledger) /\ d \in 0..Len(ledger) /\ d + 1 = least BY <2>4, <1>1
  <2>6. \A m \in 1..d : ledger[m] < H
    <3> SUFFICES ASSUME NEW m \in 1..d, ledger[m] >= H PROVE FALSE
      BY <1>1, <1>2, <2>5
    <3>1. m \in keep /\ m < least BY <2>5, <2>4, <1>1
    <3> QED BY <3>1, <2>2, <2>4
  <2>7. \A m \in (d + 1)..Len(ledger) : ledger[m] >= H
    <3> SUFFICES ASSUME NEW m \in least..Len(ledger) PROVE ledger[m] >= H BY <2>5
    <3>1. m \in 1..Len(ledger) /\ least <= m BY <2>4
    <3>2. ledger[least] <= ledger[m] BY <3>1, <2>4
    <3> QED BY <3>1, <3>2, <2>4, <1>1, <1>2
  <2>8. /\ SubSeq(ledger, d + 1, Len(ledger)) \in Seq(Nat)
        /\ Len(SubSeq(ledger, d + 1, Len(ledger))) = Len(ledger) - d
        /\ \A i \in 1..(Len(ledger) - d) : SubSeq(ledger, d + 1, Len(ledger))[i] = ledger[d + i]
    BY <2>5, DropsFront
  <2>9. Budget!Trim(ledger, t) = SubSeq(ledger, d + 1, Len(ledger)) BY <2>3, <2>5
  <2> HIDE DEF d
  <2> QED BY <2>5, <2>6, <2>7, <2>8, <2>9
<1> QED BY <1>3, <1>4

\* The ledger of calls after trimming at t holds the calls within the interval
\* that ends at t, and these are the last grants.
LEMMA RolledTrims ==
    ASSUME BudgetGrants, Rolled(calls, now), NEW t \in Nat, now <= t
    PROVE  /\ Rolled(Budget!Trim(calls, t), t)
           /\ \A k \in 1..Len(Budget!Trim(calls, t)) :
                 Budget!Trim(calls, t)[k] >= Budget!HorizonAt(t)
<1> DEFINE c == Budget!Trim(calls, t)
           G == Len(grants)
           L == Len(calls)
<1>1. /\ calls \in Seq(Nat) /\ L \in Nat /\ G \in Nat /\ L <= G
      /\ \A k \in 1..L : calls[k] = grants[G - L + k].at /\ calls[k] \in Nat
      /\ \A i \in 1..(G - L) : grants[i].at < Budget!HorizonAt(now)
  BY LenProperties, ElementOfSeq DEF Rolled, BudgetGrants
<1>2. \A i, j \in 1..L : i <= j => calls[i] <= calls[j]
  <2> SUFFICES ASSUME NEW i \in 1..L, NEW j \in 1..L, i <= j PROVE calls[i] <= calls[j]
    OBVIOUS
  <2>1. G - L + i \in 1..G /\ G - L + j \in 1..G /\ G - L + i <= G - L + j BY <1>1
  <2> QED BY <2>1, <1>1 DEF BudgetGrants
<1>3. PICK d \in 0..L :
         /\ c \in Seq(Nat) /\ Len(c) = L - d
         /\ \A i \in 1..(L - d) : c[i] = calls[d + i]
         /\ \A m \in 1..d : calls[m] < Budget!HorizonAt(t)
         /\ \A m \in (d + 1)..L : calls[m] >= Budget!HorizonAt(t)
  BY <1>1, <1>2, TrimIs
<1>4. /\ Budget!HorizonAt(now) \in Nat /\ Budget!HorizonAt(t) \in Nat
      /\ Budget!HorizonAt(now) <= Budget!HorizonAt(t)
  BY HorizonIs DEF BudgetGrants
<1>5. \A i \in 1..G : grants[i].at \in Nat BY DEF BudgetGrants
<1> HIDE DEF c, G, L
<1>6. Len(c) \in Nat /\ Len(c) <= G /\ G - Len(c) = (G - L) + d /\ d \in Nat BY <1>1, <1>3
<1>7. \A k \in 1..Len(c) : c[k] = grants[G - Len(c) + k].at /\ c[k] >= Budget!HorizonAt(t)
  <2> SUFFICES ASSUME NEW k \in 1..Len(c)
               PROVE  c[k] = grants[G - Len(c) + k].at /\ c[k] >= Budget!HorizonAt(t)
    OBVIOUS
  <2>1. k \in 1..(L - d) /\ d + k \in (d + 1)..L /\ d + k \in 1..L /\ G - L + (d + k) = G - Len(c) + k
    BY <1>1, <1>3, <1>6
  <2> QED BY <2>1, <1>1, <1>3
<1>8. \A i \in 1..(G - Len(c)) : grants[i].at < Budget!HorizonAt(t)
  <2> SUFFICES ASSUME NEW i \in 1..(G - Len(c)) PROVE grants[i].at < Budget!HorizonAt(t)
    OBVIOUS
  <2>1. i \in 1..G BY <1>1, <1>6
  <2>2. CASE i <= G - L
    <3>1. grants[i].at < Budget!HorizonAt(now) BY <2>2, <1>1
    <3> QED BY <3>1, <2>1, <1>4, <1>5
  <2>3. CASE i > G - L
    <3>1. i - (G - L) \in 1..d /\ i - (G - L) \in 1..L /\ G - L + (i - (G - L)) = i
      BY <2>3, <1>1, <1>3, <1>6
    <3>2. calls[i - (G - L)] < Budget!HorizonAt(t) BY <3>1, <1>3
    <3> QED BY <3>1, <3>2, <1>1
  <2> QED BY <2>2, <2>3, <1>1
<1> QED BY <1>3, <1>6, <1>7, <1>8 DEF Rolled, c, G

\* Nothing is granted at the start.
LEMMA BudgetInvInit == Budget!Init => BudgetInv
<1> SUFFICES ASSUME Budget!Init PROVE BudgetInv OBVIOUS
<1>1. /\ now = 0 /\ place = [r \in Reservations |-> "none"]
      /\ slot = [r \in Reservations |-> FALSE] /\ inFlight = 0 /\ calls = <<>> /\ grants = <<>>
  BY DEF Budget!Init
<1>2. <<>> \in Seq(Nat) /\ Len(<<>>) = 0 /\ DOMAIN <<>> = {} BY EmptySeq
<1>3. BudgetSlots
  <2>1. {r \in Reservations : slot[r]} = {} BY <1>1
  <2>2. Cardinality({}) = 0 BY FS_EmptySet
  <2>3. 0 <= MaxConcurrent BY BudgetBounds
  <2> QED BY <2>1, <2>2, <2>3, <1>1 DEF BudgetSlots, Budget!Places
<1>4. BudgetGrants BY <1>1, <1>2 DEF BudgetGrants
<1>5. Rolled(calls, now) BY <1>1, <1>2 DEF Rolled
<1>6. Budget!CallsRoll BY <1>1, <1>2 DEF Budget!CallsRoll
<1> QED BY <1>3, <1>4, <1>5, <1>6 DEF BudgetInv

\* A reservation gets its slot (Admit).
LEMMA SlotTaken ==
    ASSUME BudgetSlots, NEW r \in Reservations, place[r] = "none", inFlight < MaxConcurrent,
           place' = [place EXCEPT ![r] = "submitting"], slot' = [slot EXCEPT ![r] = TRUE],
           inFlight' = inFlight + 1
    PROVE  BudgetSlots'
<1> DEFINE held == {x \in Reservations : slot[x]}
<1>1. {x \in Reservations : slot'[x]} = held \cup {r} /\ r \notin held BY DEF BudgetSlots
<1>2. IsFiniteSet(held) BY FS_Subset, BudgetBounds
<1> HIDE DEF held
<1>3. Cardinality(held \cup {r}) = Cardinality(held) + 1 BY ONLY <1>1, <1>2, FS_AddElement
<1>4. inFlight' = Cardinality({x \in Reservations : slot'[x]})
  BY <1>1, <1>3 DEF BudgetSlots, held
<1>5. inFlight' \in Nat /\ inFlight' <= MaxConcurrent BY BudgetBounds DEF BudgetSlots
<1>6. /\ place' \in [Reservations -> Budget!Places] /\ slot' \in [Reservations -> BOOLEAN]
      /\ \A x \in Reservations : slot'[x] <=> place'[x] \notin {"none", "finished"}
  BY DEF BudgetSlots, Budget!Places
<1> QED BY <1>4, <1>5, <1>6 DEF BudgetSlots

\* A reservation ends, and its slot returns if it holds one (DropReservation,
\* Release, Settle).
LEMMA SlotReturned ==
    ASSUME BudgetSlots, NEW r \in Reservations, place[r] \notin {"none", "finished"},
           place' = [place EXCEPT ![r] = "finished"], slot' = [slot EXCEPT ![r] = FALSE],
           inFlight' = IF slot[r] THEN inFlight - 1 ELSE inFlight
    PROVE  BudgetSlots'
<1> DEFINE held == {x \in Reservations : slot[x]}
<1>1. slot[r] /\ inFlight' = inFlight - 1 BY DEF BudgetSlots
<1>2. {x \in Reservations : slot'[x]} = held \ {r} /\ r \in held BY <1>1 DEF BudgetSlots
<1>3. IsFiniteSet(held) BY FS_Subset, BudgetBounds
<1> HIDE DEF held
<1>4. Cardinality(held \ {r}) = Cardinality(held) - 1 /\ Cardinality(held) \in Nat
      /\ Cardinality(held \ {r}) \in Nat
  BY ONLY <1>2, <1>3, FS_RemoveElement, FS_CardinalityType, FS_Subset
<1>5. inFlight = Cardinality(held) BY DEF BudgetSlots, held
<1>6. inFlight' = Cardinality({x \in Reservations : slot'[x]})
  BY ONLY <1>1, <1>2, <1>4, <1>5
<1>7. inFlight' \in Nat /\ inFlight' <= MaxConcurrent
  <2>1. inFlight <= MaxConcurrent /\ MaxConcurrent \in Nat BY BudgetBounds DEF BudgetSlots
  <2>2. inFlight' = Cardinality(held \ {r}) /\ inFlight' = inFlight - 1 BY ONLY <1>1, <1>4, <1>5
  <2> QED BY ONLY <2>1, <2>2, <1>4, <1>5
<1>8. /\ place' \in [Reservations -> Budget!Places] /\ slot' \in [Reservations -> BOOLEAN]
      /\ \A x \in Reservations : slot'[x] <=> place'[x] \notin {"none", "finished"}
  BY DEF BudgetSlots, Budget!Places
<1> QED BY <1>6, <1>7, <1>8 DEF BudgetSlots

\* A reservation moves on with its slot (SubmitSucceeds, the worker).
LEMMA SlotMoves ==
    ASSUME BudgetSlots, NEW r \in Reservations, place[r] \notin {"none", "finished"},
           NEW to \in {"queued", "running", "mailbox"},
           place' = [place EXCEPT ![r] = to], slot' = slot, inFlight' = inFlight
    PROVE  BudgetSlots'
<1>1. /\ place' \in [Reservations -> Budget!Places]
      /\ \A x \in Reservations : slot'[x] <=> place'[x] \notin {"none", "finished"}
  BY DEF BudgetSlots, Budget!Places
<1> QED BY <1>1 DEF BudgetSlots

\* The share of a class is a number.
LEMMA ShareIs == ASSUME NEW class PROVE Budget!Share(class, CallLimit) \in Int
<1>1. CallLimit \in Int /\ CallLimit * ReservePercent \in Int BY BudgetBounds
<1>2. (CallLimit * ReservePercent) \div 100 \in Int
  <2>1. \A x \in Int : x \div 100 \in Int OBVIOUS
  <2> QED BY <2>1, <1>1
<1> QED BY <1>1, <1>2 DEF Budget!Share, Budget!OrdinaryShare

\* The calls and the windows of CallsRoll when something is granted (Charge).
LEMMA CallGranted ==
    ASSUME BudgetGrants, Rolled(calls, now), Budget!CallsRoll, NEW class, NEW amount,
           Len(Budget!Trim(calls, now)) < Budget!Share(class, CallLimit),
           now' = now, Budget!Charge(class, amount)
    PROVE  BudgetGrants' /\ Rolled(calls, now)' /\ Budget!CallsRoll'
<1> DEFINE c == Budget!Trim(calls, now)
           e == [at |-> now, class |-> class, window |-> Budget!SpentInWindow + amount]
<1>0. PICK G : G = Len(grants) OBVIOUS
<1>1. calls' = Append(c, now) /\ grants' = Append(grants, e) BY DEF Budget!Charge
<1>2. now \in Nat BY DEF BudgetGrants
<1>3. /\ Rolled(c, now) /\ \A k \in 1..Len(c) : c[k] >= Budget!HorizonAt(now)
  BY <1>2, RolledTrims
<1>4. PICK S : grants \in Seq(S) BY DEF BudgetGrants
<1> HIDE DEF c
<1>5. /\ G \in Nat /\ \A i \in 1..G : grants[i] \in S
  BY <1>4, <1>0, LenProperties, ElementOfSeq
<1>6. /\ grants \in Seq(S \cup {e})
  BY <1>4, SeqMonotonic
<1> HIDE DEF e
<1>7. /\ grants' \in Seq(S \cup {e}) /\ Len(grants') = G + 1
      /\ \A i \in 1..G : grants'[i] = grants[i]
      /\ grants'[G + 1] = e
  BY <1>0, <1>1, <1>6, AppendProperties
<1>8. e.at = now /\ e.class = class BY DEF e
<1>9. /\ \A i \in 1..G : grants[i].at \in Nat /\ grants[i].at <= now
      /\ \A i, j \in 1..G : i <= j => grants[i].at <= grants[j].at
  BY <1>0 DEF BudgetGrants
<1>10. BudgetGrants'
  <2>1. \A i \in 1..(G + 1) : grants'[i].at \in Nat /\ grants'[i].at <= now
    <3> SUFFICES ASSUME NEW i \in 1..(G + 1)
                 PROVE  grants'[i].at \in Nat /\ grants'[i].at <= now
      OBVIOUS
    <3>1. CASE i \in 1..G BY <3>1, <1>7, <1>9
    <3>2. CASE i = G + 1 BY <3>2, <1>7, <1>8, <1>2
    <3> QED BY <3>1, <3>2, <1>5
  <2>2. \A i, j \in 1..(G + 1) : i <= j => grants'[i].at <= grants'[j].at
    <3> SUFFICES ASSUME NEW i \in 1..(G + 1), NEW j \in 1..(G + 1), i <= j
                 PROVE  grants'[i].at <= grants'[j].at
      OBVIOUS
    <3>1. CASE j \in 1..G
      <4>1. i \in 1..G BY <3>1, <1>5
      <4> QED BY <4>1, <3>1, <1>7, <1>9
    <3>2. CASE j = G + 1
      <4>1. grants'[j].at = now BY <3>2, <1>7, <1>8
      <4> QED BY <4>1, <2>1
    <3> QED BY <3>1, <3>2, <1>5
  <2> QED BY <2>1, <2>2, <1>2, <1>7 DEF BudgetGrants
<1>11. /\ c \in Seq(Nat) /\ Len(c) \in Nat /\ Len(c) <= G
       /\ \A k \in 1..Len(c) : c[k] = grants[G - Len(c) + k].at
       /\ \A i \in 1..(G - Len(c)) : grants[i].at < Budget!HorizonAt(now)
  BY <1>0, <1>3, LenProperties DEF Rolled
<1>12. /\ calls' \in Seq(Nat) /\ Len(calls') = Len(c) + 1
       /\ \A k \in 1..Len(c) : calls'[k] = c[k]
       /\ calls'[Len(c) + 1] = now
  BY <1>1, <1>11, <1>2, AppendProperties
<1>13. Rolled(calls, now)'
  <2>1. \A k \in 1..(Len(c) + 1) : calls'[k] = grants'[G - Len(c) + k].at
    <3> SUFFICES ASSUME NEW k \in 1..(Len(c) + 1)
                 PROVE  calls'[k] = grants'[G - Len(c) + k].at
      OBVIOUS
    <3>1. CASE k \in 1..Len(c)
      <4>1. G - Len(c) + k \in 1..G BY <3>1, <1>11, <1>5
      <4> QED BY <4>1, <3>1, <1>7, <1>11, <1>12
    <3>2. CASE k = Len(c) + 1
      <4>1. G - Len(c) + k = G + 1 BY <3>2, <1>11, <1>5
      <4> QED BY <4>1, <3>2, <1>7, <1>8, <1>12
    <3> QED BY <3>1, <3>2, <1>11
  <2>2. \A i \in 1..(G - Len(c)) : grants'[i].at < Budget!HorizonAt(now)
    <3>1. \A i \in 1..(G - Len(c)) : i \in 1..G BY <1>11, <1>5
    <3> QED BY <3>1, <1>7, <1>11
  <2>3. /\ Len(grants') - Len(calls') = G - Len(c) /\ Len(calls') <= Len(grants')
    BY <1>5, <1>7, <1>11, <1>12
  <2>4. now' = now OBVIOUS
  <2> QED BY <2>1, <2>2, <2>3, <2>4, <1>12 DEF Rolled, Budget!HorizonAt
<1>14. Budget!CallsRoll'
  <2>1. DOMAIN grants' = 1..(G + 1) /\ DOMAIN grants = 1..G BY <1>0, <1>4, <1>7, LenProperties
  <2> SUFFICES ASSUME NEW i \in 1..(G + 1)
               PROVE  Budget!Cardinality({j \in 1..i : grants'[j].at >= grants'[i].at - Interval})
                        <= Budget!Share(grants'[i].class, CallLimit)
    BY <2>1 DEF Budget!CallsRoll
  <2>2. CASE i \in 1..G
    <3>1. \A j \in 1..i : j \in 1..G BY <2>2, <1>5
    <3>2. grants'[i] = grants[i] /\ \A j \in 1..i : grants'[j] = grants[j] BY <3>1, <2>2, <1>7
    <3>3. {j \in 1..i : grants'[j].at >= grants'[i].at - Interval}
            = {j \in 1..i : grants[j].at >= grants[i].at - Interval}
      BY <3>2
    <3> QED BY <3>2, <3>3, <2>1, <2>2 DEF Budget!CallsRoll
  <2>3. CASE i = G + 1
    <3>1. {j \in 1..i : grants'[j].at >= grants'[i].at - Interval} = (G - Len(c) + 1)..(G + 1)
      <4> SUFFICES ASSUME NEW j \in 1..(G + 1)
                   PROVE  grants'[j].at >= now - Interval <=> j \in (G - Len(c) + 1)..(G + 1)
        <5>1. grants'[i].at = now BY <2>3, <1>7, <1>8
        <5>2. (G - Len(c) + 1)..(G + 1) \subseteq 1..(G + 1) BY <1>5, <1>11
        <5> QED BY <5>1, <5>2, <2>3
      <4>1. CASE j \in 1..(G - Len(c))
        <5>1. j \in 1..G /\ ~(j \in (G - Len(c) + 1)..(G + 1)) BY <4>1, <1>5, <1>11
        <5>2. grants'[j].at = grants[j].at /\ grants[j].at \in Nat BY <5>1, <1>7, <1>9
        <5>3. grants[j].at < Budget!HorizonAt(now) BY <4>1, <1>11
        <5>4. ~(grants[j].at >= now - Interval)
          <6>1. Budget!HorizonAt(now) \in Nat BY <1>2, HorizonIs
          <6>2. ~(grants[j].at >= Budget!HorizonAt(now)) BY ONLY <5>2, <5>3, <6>1
          <6> QED BY ONLY <6>2, <5>2, <1>2, HorizonIs
        <5> QED BY <5>1, <5>2, <5>4
      <4>2. CASE j \in (G - Len(c) + 1)..G
        <5>1. j \in 1..G /\ j \in (G - Len(c) + 1)..(G + 1) /\ j - (G - Len(c)) \in 1..Len(c)
              /\ G - Len(c) + (j - (G - Len(c))) = j
          BY <4>2, <1>5, <1>11
        <5>2. c[j - (G - Len(c))] = grants[j].at /\ c[j - (G - Len(c))] >= Budget!HorizonAt(now)
          BY <5>1, <1>11, <1>3
        <5>3. grants'[j].at = grants[j].at /\ grants[j].at \in Nat BY <5>1, <1>7, <1>9
        <5>4. grants[j].at >= now - Interval BY ONLY <5>2, <5>3, <1>2, HorizonIs
        <5> QED BY <5>1, <5>3, <5>4
      <4>3. CASE j = G + 1
        <5>1. grants'[j].at = now /\ j \in (G - Len(c) + 1)..(G + 1)
          BY <4>3, <1>7, <1>8, <1>5, <1>11
        <5>2. now >= now - Interval BY <1>2, BudgetBounds
        <5> QED BY <5>1, <5>2
      <4> QED BY <4>1, <4>2, <4>3, <1>5, <1>11
    <3>2. Cardinality((G - Len(c) + 1)..(G + 1)) = Len(c) + 1
      <4>1. /\ G - Len(c) + 1 \in Int /\ G + 1 \in Int /\ G - Len(c) + 1 <= G + 1 + 1
            /\ (G + 1) - (G - Len(c) + 1) + 1 = Len(c) + 1
        BY <1>5, <1>11
      <4> QED BY ONLY <4>1, EndOfInterval
    <3>3. Len(c) + 1 <= Budget!Share(class, CallLimit)
      <4>1. Len(c) < Budget!Share(class, CallLimit) BY DEF c
      <4> QED BY <4>1, ShareIs, <1>11
    <3>4. grants'[i].class = class BY <2>3, <1>7, <1>8
    <3>5. Budget!Cardinality((G - Len(c) + 1)..(G + 1)) = Len(c) + 1 BY <3>2, BudgetCounts
    <3> QED BY ONLY <3>1, <3>3, <3>4, <3>5
  <2> QED BY <2>2, <2>3, <1>5
<1> QED BY <1>10, <1>13, <1>14

\* Steps that grant nothing, in which the windows may be trimmed.
LEMMA CallsKept ==
    ASSUME BudgetGrants, Rolled(calls, now), Budget!CallsRoll, grants' = grants,
           now' \in Nat, now <= now',
           \/ calls' = calls /\ now' = now
           \/ calls' = Budget!Trim(calls, now')
    PROVE  BudgetGrants' /\ Rolled(calls, now)' /\ Budget!CallsRoll'
<1>1. BudgetGrants' BY DEF BudgetGrants
<1>2. Rolled(calls, now)'
  <2>1. CASE calls' = calls /\ now' = now BY <2>1 DEF Rolled, Budget!HorizonAt
  <2>2. CASE calls' = Budget!Trim(calls, now')
    <3>1. Rolled(Budget!Trim(calls, now'), now') BY RolledTrims
    <3> QED BY <3>1, <2>2 DEF Rolled, Budget!HorizonAt
  <2> QED BY <2>1, <2>2
<1>3. Budget!CallsRoll'
  BY DEF Budget!CallsRoll, Budget!Share, Budget!OrdinaryShare
<1> QED BY <1>1, <1>2, <1>3

\* The slots of steps that touch no reservation.
LEMMA SlotsKept ==
    ASSUME BudgetSlots, UNCHANGED <<place, slot, inFlight>>
    PROVE  BudgetSlots'
BY DEF BudgetSlots

\* A step of the governor, of a reservation, or of the clock.
LEMMA BudgetInvStep == ASSUME BudgetInv, Budget!Next PROVE BudgetInv'
<1>0. BudgetSlots /\ BudgetGrants /\ Rolled(calls, now) /\ Budget!CallsRoll /\ now \in Nat
  BY DEF BudgetInv, BudgetGrants
<1>1. ASSUME NEW r \in Reservations, NEW class, NEW e, Budget!Admit(r, class, e)
      PROVE  BudgetInv'
  <2>1. /\ place[r] = "none" /\ inFlight < MaxConcurrent
        /\ Len(Budget!Trim(calls, now)) < Budget!Share(class, CallLimit)
        /\ Budget!Charge(class, e) /\ now' = now
        /\ place' = [place EXCEPT ![r] = "submitting"] /\ slot' = [slot EXCEPT ![r] = TRUE]
        /\ inFlight' = inFlight + 1
    BY <1>1 DEF Budget!Admit, Budget!WithinBudget
  <2>2. BudgetSlots' BY <1>0, <2>1, SlotTaken
  <2>3. BudgetGrants' /\ Rolled(calls, now)' /\ Budget!CallsRoll' BY <1>0, <2>1, CallGranted
  <2> QED BY <2>2, <2>3 DEF BudgetInv
<1>2. ASSUME NEW class, NEW e, Budget!Deny(class, e) PROVE BudgetInv'
  <2>1. /\ calls' = Budget!Trim(calls, now') /\ now' \in Nat /\ now <= now'
        /\ UNCHANGED <<place, slot, inFlight, grants>>
    BY <1>0, <1>2 DEF Budget!Deny
  <2> QED BY <2>1, <1>0, CallsKept, SlotsKept DEF BudgetInv
<1>3. CASE Budget!AdmitShadow
  <2>1. /\ Len(Budget!Trim(calls, now)) < Budget!Share("shadow", CallLimit)
        /\ Budget!Charge("shadow", 0) /\ now' = now
        /\ UNCHANGED <<place, slot, inFlight>>
    BY <1>3 DEF Budget!AdmitShadow, Budget!WithinBudget
  <2>2. BudgetSlots' BY <1>0, <2>1, SlotsKept
  <2>3. BudgetGrants' /\ Rolled(calls, now)' /\ Budget!CallsRoll' BY <1>0, <2>1, CallGranted
  <2> QED BY <2>2, <2>3 DEF BudgetInv
<1>4. CASE Budget!Tick
  <2>1. /\ calls' = Budget!Trim(calls, now') /\ now' = now + 1
        /\ UNCHANGED <<place, slot, inFlight, grants>>
    BY <1>4 DEF Budget!Tick
  <2>2. now' \in Nat /\ now <= now' BY <2>1, <1>0
  <2> QED BY <2>1, <2>2, <1>0, CallsKept, SlotsKept DEF BudgetInv
<1>5. ASSUME UNCHANGED <<now, calls, grants>>, BudgetSlots' PROVE BudgetInv'
  <2>1. now' \in Nat /\ now <= now' BY <1>5, <1>0
  <2> QED BY <1>5, <2>1, <1>0, CallsKept DEF BudgetInv
<1>6. ASSUME NEW r \in Reservations, Budget!SubmitSucceeds(r) PROVE BudgetInv'
  <2>1. /\ place[r] = "submitting" /\ place' = [place EXCEPT ![r] = "queued"]
        /\ UNCHANGED <<now, slot, inFlight, calls, grants>>
    BY <1>6 DEF Budget!SubmitSucceeds, Budget!ledgers
  <2> QED BY <2>1, <1>0, <1>5, SlotMoves
<1>7. ASSUME NEW r \in Reservations, Budget!WorkerTakes(r) PROVE BudgetInv'
  <2>1. /\ place[r] = "queued" /\ place' = [place EXCEPT ![r] = "running"]
        /\ UNCHANGED <<now, slot, inFlight, calls, grants>>
    BY <1>7 DEF Budget!WorkerTakes, Budget!ledgers
  <2> QED BY <2>1, <1>0, <1>5, SlotMoves
<1>8. ASSUME NEW r \in Reservations, Budget!WorkerPublishes(r) PROVE BudgetInv'
  <2>1. /\ place[r] = "running" /\ place' = [place EXCEPT ![r] = "mailbox"]
        /\ UNCHANGED <<now, slot, inFlight, calls, grants>>
    BY <1>8 DEF Budget!WorkerPublishes, Budget!ledgers
  <2> QED BY <2>1, <1>0, <1>5, SlotMoves
<1>9. ASSUME NEW r \in Reservations, Budget!Dropped(r) PROVE BudgetInv'
  <2>1. /\ place[r] \notin {"none", "finished"} /\ place' = [place EXCEPT ![r] = "finished"]
        /\ slot' = [slot EXCEPT ![r] = FALSE]
        /\ inFlight' = IF slot[r] THEN inFlight - 1 ELSE inFlight
        /\ UNCHANGED <<now, calls, grants>>
    BY <1>9 DEF Budget!Dropped, Budget!DropReservation, Budget!ledgers
  <2> QED BY <2>1, <1>0, <1>5, SlotReturned
<1>10. ASSUME NEW r \in Reservations, Budget!Release(r) PROVE BudgetInv'
  <2>1. /\ place[r] \notin {"none", "finished"} /\ place' = [place EXCEPT ![r] = "finished"]
        /\ slot' = [slot EXCEPT ![r] = FALSE]
        /\ inFlight' = IF slot[r] THEN inFlight - 1 ELSE inFlight
        /\ UNCHANGED <<now, calls, grants>>
    BY <1>10 DEF Budget!Release, Budget!ledgers
  <2> QED BY <2>1, <1>0, <1>5, SlotReturned
<1>11. ASSUME NEW r \in Reservations, NEW used, Budget!Settle(r, used) PROVE BudgetInv'
  <2>1. /\ place[r] \notin {"none", "finished"} /\ place' = [place EXCEPT ![r] = "finished"]
        /\ slot' = [slot EXCEPT ![r] = FALSE]
        /\ inFlight' = IF slot[r] THEN inFlight - 1 ELSE inFlight
        /\ UNCHANGED <<now, calls, grants>>
    BY <1>11 DEF Budget!Settle
  <2> QED BY <2>1, <1>0, <1>5, SlotReturned
<1> QED
  BY <1>1, <1>2, <1>3, <1>4, <1>6, <1>7, <1>8, <1>9, <1>10, <1>11 DEF Budget!Next

\* What the invariant says of the run's properties.
LEMMA BudgetInvSays ==
    ASSUME BudgetInv
    PROVE  Budget!SlotsExact /\ Budget!ConcurrencyBounded /\ Budget!CallsRoll
<1>1. Budget!SlotsExact BY BudgetCounts DEF BudgetInv, BudgetSlots, Budget!SlotsExact
<1> QED BY <1>1 DEF BudgetInv, BudgetSlots, Budget!ConcurrencyBounded

\* The governor's invariant while it is the part that moves.
BudgetHolds == part = "budget" => BudgetInv

\* It holds at the start.
LEMMA BudgetHoldsInit == Init => BudgetHolds
BY BudgetInvInit DEF Init, BudgetHolds

\* It is kept by every step, whoever moves.
LEMMA BudgetHoldsStep ==
    BudgetHolds
    /\ [Next]_<<part, budgetVars, shadowVars, evidenceVars, routeVars,
                retrievalVars, speechVars>>
    => BudgetHolds'
<1> SUFFICES ASSUME BudgetHolds, part' = "budget",
                    [Next]_<<part, budgetVars, shadowVars, evidenceVars, routeVars,
                             retrievalVars, speechVars>>
             PROVE  BudgetInv'
  BY DEF BudgetHolds
<1>1. CASE Next
  <2>1. part = "budget" /\ Budget!Next BY <1>1 DEF Next
  <2> QED BY <2>1, BudgetInvStep DEF BudgetHolds
<1>2. CASE UNCHANGED <<part, budgetVars, shadowVars, evidenceVars, routeVars,
                       retrievalVars, speechVars>>
  <2>1. BudgetInv /\ UNCHANGED <<now, calls, grants, place, slot, inFlight>>
    BY <1>2 DEF BudgetHolds, budgetVars
  <2>2. BudgetSlots /\ BudgetGrants /\ Rolled(calls, now) /\ Budget!CallsRoll
        /\ now' \in Nat /\ now <= now'
    BY <2>1 DEF BudgetInv, BudgetGrants
  <2> QED BY <2>1, <2>2, CallsKept, SlotsKept DEF BudgetInv
<1> QED BY <1>1, <1>2

\* The shared counter is the number of reservations under way whichever thread
\* ends them, the concurrency limit holds, and in any interval no class gets
\* more calls than its share (GenerativeBudgetGovernor of app/src/budget.rs).
THEOREM BudgetIsSound == Spec => []BudgetSound
<1>1. BudgetHolds => BudgetSound BY BudgetInvSays DEF BudgetHolds, BudgetSound
<1> QED BY <1>1, BudgetHoldsInit, BudgetHoldsStep, PTL DEF Spec

(* The shadow orchestrator                                                 *)

\* Places of a worker that holds no job.
Idle == {"pop", "prewait", "waiting", "exited"}

\* What a worker publishes.
Completions == [job : Nat, record : BOOLEAN]

\* The variables have their types; the gauges may be any integers.
ShadowTypes ==
    /\ keyOf \in Seq(Keys)
    /\ newest \in [Keys -> Nat] /\ live \in [Keys -> Nat]
    /\ queue \in Seq(Nat)
    /\ closed \in BOOLEAN /\ shuttingDown \in BOOLEAN
    /\ comp \in Shadow!CompPcs
    /\ wpc \in [Workers -> Shadow!WorkerPcs]
    /\ wjob \in [Workers -> Nat] /\ wrecord \in [Workers -> BOOLEAN]
    /\ mailbox \in Seq(Completions) /\ staged \in Nat
    /\ pending \in Int /\ running \in Int /\ awaiting \in Int
    /\ submitted \in Int /\ completed \in Int /\ lost \in Int

\* A worker has a job where it works on one, and every queued or held job is
\* that of an event.
ShadowHolds ==
    /\ \A w \in Workers : wjob[w] = 0 <=> wpc[w] \in Idle
    /\ \A w \in Workers : wjob[w] <= Len(keyOf)
    /\ \A i \in 1..Len(queue) : queue[i] \in 1..Len(keyOf)

\* A job is in one place.
ShadowOnce ==
    /\ \A i, j \in 1..Len(queue) : queue[i] = queue[j] => i = j
    /\ \A i \in 1..Len(queue), w \in Workers : queue[i] # wjob[w]
    /\ \A v, w \in Workers : wjob[v] = wjob[w] /\ wjob[v] # 0 => v = w

\* What is staged is the newest event, of which nothing else knows yet.
ShadowStaged ==
    /\ comp \in {"routed", "superseded"} => keyOf # <<>>
    /\ comp \notin {"routed", "superseded"} => staged = 0
    /\ comp = "superseded" => newest[keyOf[Len(keyOf)]] = Len(keyOf)
    /\ staged # 0 => /\ staged = Len(keyOf)
                     /\ \A i \in 1..Len(queue) : queue[i] # staged
                     /\ \A w \in Workers : wjob[w] # staged
                     /\ staged \notin cancelled

\* What was cancelled is the job of an event.
ShadowCancelled == cancelled \subseteq 1..Len(keyOf)

\* An entry of the registry is that of its chain's newest job, queued or held.
ShadowEntries ==
    \A k \in Keys : live[k] # 0 =>
        /\ live[k] <= Len(keyOf)
        /\ keyOf[live[k]] = k
        /\ \/ \E i \in 1..Len(queue) : queue[i] = live[k]
           \/ \E w \in Workers : wjob[w] = live[k]
        /\ live[k] \notin cancelled
        /\ live[k] = newest[k]

\* A job that was not cancelled has its entry.
ShadowKeeps ==
    /\ \A i \in 1..Len(queue) :
          queue[i] \notin cancelled => live[keyOf[queue[i]]] = queue[i]
    /\ \A w \in Workers :
          wjob[w] # 0 /\ wjob[w] \notin cancelled => live[keyOf[wjob[w]]] = wjob[w]

\* A worker leaves a closed and empty queue only; once shutdown cancelled every
\* chain nothing is registered, and once it returned every worker has left.
ShadowEnds ==
    /\ \A w \in Workers : wpc[w] = "exited" => closed /\ queue = <<>>
    /\ comp = "joining" => \A k \in Keys : live[k] = 0
    /\ shuttingDown /\ comp \in {"ready", "routed", "superseded", "draining"} =>
          /\ staged = 0
          /\ \A w \in Workers : wpc[w] = "exited"
          /\ \A k \in Keys : live[k] = 0

\* The inductive invariant of the shadow orchestrator.
ShadowInv ==
    /\ ShadowTypes /\ ShadowHolds /\ ShadowOnce /\ ShadowStaged
    /\ ShadowCancelled /\ ShadowEntries /\ ShadowKeeps /\ ShadowEnds
    /\ Shadow!GaugesExact
ShadowHoldsAll == part = "shadow" => ShadowInv

\* The workers are finitely many.
LEMMA WorkersFinite ==
    /\ IsFiniteSet(Workers) /\ Workers # {}
    /\ QueueCapacity \in Nat \ {0} /\ ShadowEvents \in Nat
<1>1. Shadow!IsFiniteSet(Workers) => IsFiniteSet(Workers)
  BY DEF Shadow!IsFiniteSet, IsFiniteSet
<1> QED BY <1>1, ShadowAssumption DEF Shadow!ConfigAssumption, Shadow!BoundAssumption

\* The workers in some places are counted.
LEMMA HeldIs ==
    ASSUME NEW P
    PROVE  /\ Shadow!Held(P) = Cardinality({v \in Workers : wpc[v] \in P})
           /\ Shadow!Held(P) \in Nat
<1> DEFINE S == {v \in Workers : wpc[v] \in P}
<1>1. Shadow!Cardinality(S) = Cardinality(S)
  BY DEF Shadow!Cardinality, Cardinality
<1>2. IsFiniteSet(S) BY WorkersFinite, FS_Subset
<1>3. Cardinality(S) \in Nat BY <1>2, FS_CardinalityType
<1>4. Shadow!Held(P) = Shadow!Cardinality(S) BY DEF Shadow!Held
<1> QED BY <1>1, <1>3, <1>4

\* A worker that changes its place is counted at the new one.
LEMMA HeldMoves ==
    ASSUME ShadowTypes, NEW w \in Workers, NEW to, Shadow!Move(w, to), NEW P
    PROVE  /\ Shadow!Held(P) \in Nat
           /\ to \in P /\ wpc[w] \notin P => Shadow!Held(P)' = Shadow!Held(P) + 1
           /\ to \notin P /\ wpc[w] \in P => Shadow!Held(P)' = Shadow!Held(P) - 1
           /\ (to \in P <=> wpc[w] \in P) => Shadow!Held(P)' = Shadow!Held(P)
<1> DEFINE S == {v \in Workers : wpc[v] \in P}
           T == {v \in Workers : wpc'[v] \in P}
<1>1. wpc' = [wpc EXCEPT ![w] = to] /\ wpc \in [Workers -> Shadow!WorkerPcs]
  BY DEF Shadow!Move, ShadowTypes
<1>2. wpc'[w] = to /\ \A v \in Workers : v # w => wpc'[v] = wpc[v] BY <1>1
<1>3. IsFiniteSet(S) /\ IsFiniteSet(T) BY WorkersFinite, FS_Subset
<1>4. Cardinality(S) \in Nat /\ Cardinality(T) \in Nat BY <1>3, FS_CardinalityType
<1>5. Shadow!Held(P) = Cardinality(S) /\ Shadow!Held(P)' = Cardinality(T)
  <2>1. Shadow!Held(P) = Cardinality(S) BY HeldIs
  <2>2. Shadow!Cardinality(T) = Cardinality(T)
    BY DEF Shadow!Cardinality, Cardinality
  <2>3. Shadow!Held(P)' = Shadow!Cardinality(T) BY DEF Shadow!Held
  <2> QED BY <2>1, <2>2, <2>3
<1>6. to \in P /\ wpc[w] \notin P => Cardinality(T) = Cardinality(S) + 1
  <2> HAVE to \in P /\ wpc[w] \notin P
  <2>1. T = S \cup {w} /\ w \notin S BY <1>2
  <2> QED BY <2>1, <1>3, FS_AddElement
<1>7. to \notin P /\ wpc[w] \in P => Cardinality(T) = Cardinality(S) - 1
  <2> HAVE to \notin P /\ wpc[w] \in P
  <2>1. T = S \ {w} /\ w \in S BY <1>2
  <2> QED BY <2>1, <1>3, FS_RemoveElement
<1>8. (to \in P <=> wpc[w] \in P) => T = S BY <1>2
<1> QED BY <1>4, <1>5, <1>6, <1>7, <1>8

\* A worker that is woken from its wait had no job before or after.
LEMMA HeldWoken ==
    ASSUME NEW P, "waiting" \notin P, "pop" \notin P,
           \A v \in Workers : \/ wpc'[v] = wpc[v]
                              \/ wpc[v] = "waiting" /\ wpc'[v] = "pop"
    PROVE  Shadow!Held(P)' = Shadow!Held(P)
<1> DEFINE S == {v \in Workers : wpc[v] \in P}
           T == {v \in Workers : wpc'[v] \in P}
<1>1. T = S OBVIOUS
<1>2. Shadow!Held(P) = Shadow!Cardinality(S) BY DEF Shadow!Held
<1>3. Shadow!Held(P)' = Shadow!Cardinality(T) BY DEF Shadow!Held
<1> QED BY <1>1, <1>2, <1>3

\* notify_one wakes a worker or none.
LEMMA NotifyWakes ==
    ASSUME ShadowTypes, wpc' \in Shadow!NotifyOne(wpc)
    PROVE  /\ wpc' \in [Workers -> Shadow!WorkerPcs]
           /\ \A v \in Workers : \/ wpc'[v] = wpc[v]
                                 \/ wpc[v] = "waiting" /\ wpc'[v] = "pop"
<1>1. wpc \in [Workers -> Shadow!WorkerPcs] BY DEF ShadowTypes
<1>2. \/ wpc' = wpc
      \/ \E w \in Workers : wpc[w] = "waiting" /\ wpc' = [wpc EXCEPT ![w] = "pop"]
  BY DEF Shadow!NotifyOne
<1>3. CASE wpc' = wpc BY <1>1, <1>3
<1>4. ASSUME NEW w \in Workers, wpc[w] = "waiting", wpc' = [wpc EXCEPT ![w] = "pop"]
      PROVE  /\ wpc' \in [Workers -> Shadow!WorkerPcs]
             /\ \A v \in Workers : \/ wpc'[v] = wpc[v]
                                   \/ wpc[v] = "waiting" /\ wpc'[v] = "pop"
  BY <1>1, <1>4 DEF Shadow!WorkerPcs
<1> QED BY <1>2, <1>3, <1>4

\* The places whose workers a gauge counts.
AtPopped == {"popped"}
AtRun == {"started", "evaluating", "decided"}
AtFence == {"fence"}
AtWork == {"popped", "claiming", "started", "evaluating", "decided", "releasing", "fence"}

\* The gauges, by name of what they count.
LEMMA GaugesAre ==
    Shadow!GaugesExact <=>
        /\ pending = Len(queue) + Shadow!Held(AtPopped)
        /\ running = Shadow!Held(AtRun)
        /\ comp # "gone" =>
             /\ awaiting = Shadow!Held(AtFence) + Len(mailbox)
             /\ submitted = completed + lost + Len(mailbox) + Len(queue) + Shadow!Held(AtWork)
BY DEF Shadow!GaugesExact, AtPopped, AtRun, AtFence, AtWork

\* What the gauges count does not change.
LEMMA GaugesKept ==
    ASSUME Shadow!GaugesExact, UNCHANGED <<queue, mailbox, pending, running, awaiting,
                                           submitted, completed, lost>>,
           comp' # "gone" => comp # "gone",
           \A P \in {AtPopped, AtRun, AtFence, AtWork} : Shadow!Held(P)' = Shadow!Held(P)
    PROVE  Shadow!GaugesExact'
<1>1. Shadow!GaugesExact'
       <=> /\ pending' = Len(queue') + Shadow!Held(AtPopped)'
           /\ running' = Shadow!Held(AtRun)'
           /\ comp' # "gone" =>
                /\ awaiting' = Shadow!Held(AtFence)' + Len(mailbox')
                /\ submitted' = completed' + lost' + Len(mailbox') + Len(queue')
                                + Shadow!Held(AtWork)'
  BY DEF Shadow!GaugesExact, AtPopped, AtRun, AtFence, AtWork
<1> QED BY <1>1, GaugesAre

\* A step of the composition thread that neither queues, drains nor wakes.
LEMMA GaugesAside ==
    ASSUME Shadow!GaugesExact, UNCHANGED <<queue, mailbox, wpc, pending, running, awaiting,
                                           submitted, completed, lost>>,
           comp' # "gone" => comp # "gone"
    PROVE  Shadow!GaugesExact'
<1>1. \A P : Shadow!Held(P)' = Shadow!Held(P) BY DEF Shadow!Held
<1> QED BY ONLY <1>1, Shadow!GaugesExact, GaugesKept,
           UNCHANGED <<queue, mailbox, pending, running, awaiting, submitted, completed, lost>>,
           comp' # "gone" => comp # "gone"

\* A sequence with an element more, and without its first.
LEMMA Grows ==
    ASSUME NEW S, NEW s \in Seq(S), NEW e \in S
    PROVE  /\ Append(s, e) \in Seq(S) /\ Len(Append(s, e)) = Len(s) + 1 /\ Len(s) \in Nat
           /\ \A i \in 1..Len(s) : Append(s, e)[i] = s[i]
           /\ Append(s, e)[Len(s) + 1] = e
BY AppendProperties, LenProperties

LEMMA Shrinks ==
    ASSUME NEW S, NEW s \in Seq(S), s # <<>>
    PROVE  /\ Tail(s) \in Seq(S) /\ Len(Tail(s)) = Len(s) - 1 /\ Len(s) \in Nat \ {0}
           /\ \A i \in 1..(Len(s) - 1) : Tail(s)[i] = s[i + 1]
           /\ Head(s) = s[1] /\ Head(s) \in S
BY HeadTailProperties, LenProperties, EmptySeq

\* The steps of the composition thread keep the types.
LEMMA ShadowTypesCompose == ASSUME ShadowTypes, Shadow!Composition PROVE ShadowTypes'
<1>1. CASE \E key \in Keys, eligible \in BOOLEAN : Shadow!Stage(key, eligible)
  <2>1. PICK key \in Keys, eligible \in BOOLEAN : Shadow!Stage(key, eligible) BY <1>1
  <2>2. /\ keyOf' = Append(keyOf, key) /\ comp' = "routed"
        /\ staged' \in {Len(keyOf'), 0}
        /\ UNCHANGED <<newest, queue, closed, live, wpc, wjob, wrecord, mailbox, shuttingDown,
                       pending, running, awaiting, submitted, completed, lost>>
    BY <2>1 DEF Shadow!Stage, Shadow!None, Shadow!workerVars, Shadow!gauges, Shadow!counters
  <2>3. keyOf' \in Seq(Keys) /\ staged' \in Nat BY <2>2, Grows DEF ShadowTypes
  <2> QED BY <2>2, <2>3 DEF ShadowTypes, Shadow!CompPcs
<1>2. CASE \/ Shadow!RouteFails \/ Shadow!CommitNothing \/ Shadow!StartTick \/ Shadow!DrainEnd
           \/ Shadow!ShutdownFlag \/ Shadow!Close \/ Shadow!Join
  <2>1. /\ comp' \in {comp, "draining", "ready", "closing", "notifying"}
        /\ closed' \in {closed, TRUE} /\ shuttingDown' \in {shuttingDown, TRUE}
        /\ staged' \in {staged, 0}
        /\ UNCHANGED <<keyOf, newest, queue, live, wpc, wjob, wrecord, mailbox,
                       pending, running, awaiting, submitted, completed, lost>>
    BY <1>2 DEF Shadow!None, Shadow!RouteFails, Shadow!CommitNothing, Shadow!StartTick, Shadow!DrainEnd,
       Shadow!ShutdownFlag, Shadow!Close, Shadow!Join, Shadow!workerVars, Shadow!gauges,
       Shadow!counters
  <2>2. staged' \in Nat BY <2>1 DEF ShadowTypes
  <2>3. comp' \in Shadow!CompPcs BY <2>1 DEF ShadowTypes, Shadow!CompPcs
  <2>4. closed' \in BOOLEAN /\ shuttingDown' \in BOOLEAN BY <2>1 DEF ShadowTypes
  <2>5. UNCHANGED <<keyOf, newest, queue, live, wpc, wjob, wrecord, mailbox,
                    pending, running, awaiting, submitted, completed, lost>> BY <2>1
  <2> QED BY ONLY ShadowTypes, <2>2, <2>3, <2>4, <2>5 DEF ShadowTypes
<1>3. CASE Shadow!Supersede
  <2> DEFINE key == keyOf[Len(keyOf)]
  <2>1. /\ newest' = [newest EXCEPT ![key] = Len(keyOf)] /\ live' = [live EXCEPT ![key] = 0]
        /\ comp' = "superseded"
        /\ UNCHANGED <<keyOf, staged, queue, closed, wpc, wjob, wrecord, mailbox, shuttingDown,
                       pending, running, awaiting, submitted, completed, lost>>
    BY <1>3 DEF Shadow!Supersede, Shadow!None, Shadow!workerVars, Shadow!gauges, Shadow!counters
  <2>2. Len(keyOf) \in Nat BY DEF ShadowTypes
  <2>3. newest' \in [Keys -> Nat] /\ live' \in [Keys -> Nat] BY <2>1, <2>2 DEF ShadowTypes
  <2> QED BY <2>1, <2>3 DEF ShadowTypes, Shadow!CompPcs
<1>4. CASE Shadow!CommitPush
  <2> DEFINE key == keyOf[staged]
  <2>1. /\ live' = [live EXCEPT ![key] = staged] /\ queue' = Append(queue, staged)
        /\ wpc' \in Shadow!NotifyOne(wpc) /\ pending' = pending + 1
        /\ submitted' = submitted + 1 /\ comp' = "draining" /\ staged' = 0
        /\ UNCHANGED <<keyOf, newest, closed, wjob, wrecord, mailbox, shuttingDown,
                       running, awaiting, completed, lost>>
    BY <1>4 DEF Shadow!CommitPush, Shadow!None
  <2>2. wpc' \in [Workers -> Shadow!WorkerPcs] BY <2>1, NotifyWakes
  <2>3. live' \in [Keys -> Nat] /\ queue' \in Seq(Nat)
    BY <2>1, Grows DEF ShadowTypes
  <2> QED BY <2>1, <2>2, <2>3 DEF ShadowTypes, Shadow!CompPcs
<1>5. CASE Shadow!DrainOne
  <2>1. /\ mailbox # <<>> /\ mailbox' = Tail(mailbox) /\ awaiting' = awaiting - 1
        /\ completed' = completed + 1
        /\ UNCHANGED <<keyOf, newest, staged, comp, queue, closed, live, wpc, wjob, wrecord,
                       shuttingDown, pending, running, submitted, lost>>
    BY <1>5 DEF Shadow!DrainOne, Shadow!compVars, Shadow!workerVars
  <2>2. mailbox' \in Seq(Completions) BY <2>1, Shrinks DEF ShadowTypes
  <2> QED BY <2>1, <2>2 DEF ShadowTypes
<1>6. CASE Shadow!NotifyAll \/ Shadow!CancelAll \/ Shadow!Drop
  <2>1. /\ wpc' \in {wpc, [w \in Workers |-> IF wpc[w] = "waiting" THEN "pop" ELSE wpc[w]]}
        /\ live' \in {live, [k \in Keys |-> 0]} /\ mailbox' \in {mailbox, <<>>}
        /\ comp' \in {"cancelling", "joining", "gone"}
        /\ closed' \in {closed, TRUE} /\ shuttingDown' \in {shuttingDown, TRUE}
        /\ staged' \in {staged, 0}
        /\ UNCHANGED <<keyOf, newest, queue, wjob, wrecord, pending, running, awaiting, submitted,
                       completed, lost>>
    BY <1>6 DEF Shadow!NotifyAll, Shadow!CancelAll, Shadow!Drop, Shadow!None, Shadow!workerVars,
       Shadow!gauges, Shadow!counters
  <2>2. wpc' \in [Workers -> Shadow!WorkerPcs] BY <2>1 DEF ShadowTypes, Shadow!WorkerPcs
  <2>3. live' \in [Keys -> Nat] BY <2>1 DEF ShadowTypes
  <2>4. mailbox' \in Seq(Completions)
    <3>1. mailbox \in Seq(Completions) /\ <<>> \in Seq(Completions) BY EmptySeq DEF ShadowTypes
    <3> QED BY <2>1, <3>1
  <2>5. staged' \in Nat BY <2>1 DEF ShadowTypes
  <2> QED BY <2>1, <2>2, <2>3, <2>4, <2>5 DEF ShadowTypes, Shadow!CompPcs
<1> QED BY <1>1, <1>2, <1>3, <1>4, <1>5, <1>6 DEF Shadow!Composition

\* What a worker's step other than taking a job and publishing leaves alone.
WorkerAside ==
    UNCHANGED <<keyOf, newest, staged, comp, queue, closed, live, cancelled, wjob, mailbox,
                shuttingDown, submitted, completed, lost>>

\* The steps of a worker between taking a job and publishing it.
Between(w) ==
    \/ Shadow!PopClosed(w) \/ Shadow!PopEmpty(w) \/ Shadow!Wait(w)
    \/ Shadow!ClaimPending(w) \/ Shadow!ClaimInFlight(w) \/ Shadow!RunStart(w)
    \/ Shadow!RunEnd(w) \/ Shadow!PublishInFlight(w) \/ Shadow!PublishAwaiting(w)

LEMMA BetweenIs ==
    ASSUME NEW w \in Workers, Between(w)
    PROVE  /\ WorkerAside
           /\ \/ /\ Shadow!Move(w, "exited") /\ wpc[w] = "pop" /\ queue = <<>> /\ closed
                 /\ UNCHANGED <<pending, running, awaiting>>
              \/ /\ Shadow!Move(w, "prewait") /\ wpc[w] = "pop"
                 /\ UNCHANGED <<pending, running, awaiting>>
              \/ /\ Shadow!Move(w, "waiting") /\ wpc[w] = "prewait"
                 /\ UNCHANGED <<pending, running, awaiting>>
              \/ /\ Shadow!Move(w, "claiming") /\ wpc[w] = "popped"
                 /\ pending' = pending - 1 /\ UNCHANGED <<running, awaiting>>
              \/ /\ Shadow!Move(w, "started") /\ wpc[w] = "claiming"
                 /\ running' = running + 1 /\ UNCHANGED <<pending, awaiting>>
              \/ /\ Shadow!Move(w, "decided") /\ wpc[w] = "started"
                 /\ UNCHANGED <<pending, running, awaiting>>
              \/ /\ Shadow!Move(w, "evaluating") /\ wpc[w] = "started"
                 /\ UNCHANGED <<pending, running, awaiting>>
              \/ /\ Shadow!Move(w, "decided") /\ wpc[w] = "evaluating"
                 /\ UNCHANGED <<pending, running, awaiting>>
              \/ /\ Shadow!Move(w, "releasing") /\ wpc[w] = "decided"
                 /\ running' = running - 1 /\ UNCHANGED <<pending, awaiting>>
              \/ /\ Shadow!Move(w, "fence") /\ wpc[w] = "releasing"
                 /\ awaiting' = awaiting + 1 /\ UNCHANGED <<pending, running>>
<1>1. CASE Shadow!PopClosed(w) \/ Shadow!PopEmpty(w) \/ Shadow!Wait(w)
  BY <1>1 DEF Shadow!PopClosed, Shadow!PopEmpty, Shadow!Wait, WorkerAside, Shadow!compVars,
     Shadow!gauges, Shadow!counters
<1>2. CASE Shadow!ClaimPending(w) \/ Shadow!ClaimInFlight(w)
  BY <1>2 DEF Shadow!ClaimPending, Shadow!ClaimInFlight, WorkerAside, Shadow!compVars,
     Shadow!gauges, Shadow!counters
<1>3. CASE Shadow!RunStart(w) \/ Shadow!RunEnd(w)
  BY <1>3 DEF Shadow!RunStart, Shadow!RunEnd, WorkerAside, Shadow!compVars,
     Shadow!gauges, Shadow!counters
<1>4. CASE Shadow!PublishInFlight(w) \/ Shadow!PublishAwaiting(w)
  BY <1>4 DEF Shadow!PublishInFlight, Shadow!PublishAwaiting, WorkerAside, Shadow!compVars,
     Shadow!gauges, Shadow!counters
<1> QED BY <1>1, <1>2, <1>3, <1>4 DEF Between

\* What a worker decided is a Boolean.
LEMMA BetweenRecords ==
    ASSUME NEW w \in Workers, Between(w), wrecord \in [Workers -> BOOLEAN]
    PROVE  wrecord' \in [Workers -> BOOLEAN]
<1>1. Shadow!Stale(w) \in BOOLEAN BY DEF Shadow!Stale
<1>2. wrecord' = wrecord \/ wrecord' = [wrecord EXCEPT ![w] = ~ Shadow!Stale(w)]
  BY DEF Between, Shadow!PopClosed, Shadow!PopEmpty, Shadow!Wait, Shadow!ClaimPending,
     Shadow!ClaimInFlight, Shadow!RunStart, Shadow!RunEnd, Shadow!PublishInFlight,
     Shadow!PublishAwaiting
<1> QED BY <1>1, <1>2

\* A worker's steps are those that take, those between and those that publish.
LEMMA WorkerIs ==
    ASSUME NEW w \in Workers, Shadow!Worker(w)
    PROVE  Shadow!PopJob(w) \/ Between(w) \/ Shadow!Publish(w)
BY DEF Shadow!Worker, Between

\* A publication in flat form.
LEMMA PublishIs ==
    ASSUME NEW w \in Workers, Shadow!Publish(w)
    PROVE  /\ wpc[w] = "fence" /\ Shadow!Move(w, "pop")
           /\ live' = [k \in Keys |-> IF live[k] = wjob[w] THEN 0 ELSE live[k]]
           /\ wjob' = [wjob EXCEPT ![w] = 0]
           /\ wrecord' = [wrecord EXCEPT ![w] = FALSE]
           /\ UNCHANGED <<keyOf, newest, staged, comp, queue, closed, cancelled, shuttingDown,
                          pending, running, submitted, completed>>
           /\ \/ /\ comp # "gone"
                 /\ mailbox' = Append(mailbox, [job |-> wjob[w],
                                                record |-> wrecord[w] /\ Shadow!Current(w)])
                 /\ awaiting' = awaiting /\ lost' = lost
              \/ /\ mailbox' = mailbox
                 /\ awaiting' = awaiting - 1 /\ lost' = lost + 1
BY DEF Shadow!Publish, Shadow!Send, Shadow!Retire, Shadow!None, Shadow!compVars

\* The steps of a worker keep the types.
LEMMA ShadowTypesWork ==
    ASSUME ShadowTypes, NEW w \in Workers, Shadow!Worker(w)
    PROVE  ShadowTypes'
<1>1. wpc \in [Workers -> Shadow!WorkerPcs] BY DEF ShadowTypes
<1>2. \A to \in Shadow!WorkerPcs :
         Shadow!Move(w, to) => wpc' \in [Workers -> Shadow!WorkerPcs]
  BY <1>1 DEF Shadow!Move
<1>3. CASE Between(w)
  <2>1. /\ WorkerAside /\ \E to \in Shadow!WorkerPcs : Shadow!Move(w, to)
        /\ pending' \in {pending, pending - 1}
        /\ running' \in {running, running + 1, running - 1}
        /\ awaiting' \in {awaiting, awaiting + 1}
    BY <1>3, BetweenIs DEF Shadow!WorkerPcs
  <2>2. wrecord' \in [Workers -> BOOLEAN] BY <1>3, BetweenRecords DEF ShadowTypes
  <2> QED BY <1>2, <2>1, <2>2 DEF ShadowTypes, WorkerAside
<1>4. CASE Shadow!PopJob(w)
  <2>1. /\ queue # <<>> /\ queue' = Tail(queue) /\ wjob' = [wjob EXCEPT ![w] = Head(queue)]
        /\ Shadow!Move(w, "popped")
        /\ UNCHANGED <<keyOf, newest, staged, comp, closed, live, wrecord, mailbox,
                       shuttingDown, pending, running, awaiting, submitted, completed, lost>>
    BY <1>4 DEF Shadow!PopJob, Shadow!compVars, Shadow!gauges, Shadow!counters
  <2>2. queue' \in Seq(Nat) /\ Head(queue) \in Nat BY <2>1, Shrinks DEF ShadowTypes
  <2>3. wpc' \in [Workers -> Shadow!WorkerPcs] BY <1>2, <2>1 DEF Shadow!WorkerPcs
  <2>4. wjob' \in [Workers -> Nat] BY <2>1, <2>2 DEF ShadowTypes
  <2> QED BY <2>1, <2>2, <2>3, <2>4 DEF ShadowTypes
<1>5. CASE Shadow!Publish(w)
  <2>1. wpc' \in [Workers -> Shadow!WorkerPcs] BY <1>2, <1>5, PublishIs DEF Shadow!WorkerPcs
  <2>2. wjob' \in [Workers -> Nat] /\ wrecord' \in [Workers -> BOOLEAN]
    <3>1. wjob' = [wjob EXCEPT ![w] = 0] /\ wrecord' = [wrecord EXCEPT ![w] = FALSE]
      BY <1>5, PublishIs
    <3> QED BY <3>1 DEF ShadowTypes
  <2>5. live' \in [Keys -> Nat]
    <3>1. live' = [k \in Keys |-> IF live[k] = wjob[w] THEN 0 ELSE live[k]]
      BY <1>5, PublishIs
    <3> QED BY <3>1 DEF ShadowTypes
  <2>3. mailbox' \in Seq(Completions)
    <3> DEFINE c == [job |-> wjob[w], record |-> wrecord[w] /\ Shadow!Current(w)]
    <3>1. wjob[w] \in Nat /\ (wrecord[w] /\ Shadow!Current(w)) \in BOOLEAN
      BY DEF ShadowTypes
    <3>2. c \in Completions BY <3>1 DEF Completions
    <3>3. mailbox' \in {mailbox, Append(mailbox, c)} BY <1>5, PublishIs
    <3>4. mailbox \in Seq(Completions) BY DEF ShadowTypes
    <3> HIDE DEF c
    <3> QED BY <3>2, <3>3, <3>4, Grows
  <2>4. awaiting' \in {awaiting, awaiting - 1} /\ lost' \in {lost, lost + 1}
    BY <1>5, PublishIs
  <2>6. /\ UNCHANGED <<keyOf, newest, staged, comp, queue, closed, shuttingDown,
                       pending, running, submitted, completed>>
    BY <1>5, PublishIs
  <2> QED BY <2>1, <2>2, <2>3, <2>4, <2>5, <2>6 DEF ShadowTypes
<1> QED BY <1>3, <1>4, <1>5, WorkerIs

\* The steps of the composition thread keep the gauges exact.
LEMMA GaugesCompose ==
    ASSUME ShadowTypes, Shadow!GaugesExact, Shadow!Composition
    PROVE  Shadow!GaugesExact'
<1>1. CASE \/ \E key \in Keys, eligible \in BOOLEAN : Shadow!Stage(key, eligible)
           \/ Shadow!RouteFails \/ Shadow!Supersede \/ Shadow!CommitNothing
           \/ Shadow!StartTick \/ Shadow!DrainEnd \/ Shadow!ShutdownFlag \/ Shadow!Close
           \/ Shadow!CancelAll \/ Shadow!Join
  <2>1. /\ UNCHANGED <<queue, mailbox, wpc, pending, running, awaiting,
                       submitted, completed, lost>>
        /\ comp # "gone"
    BY <1>1 DEF Shadow!Stage, Shadow!RouteFails, Shadow!Supersede, Shadow!CommitNothing,
       Shadow!StartTick, Shadow!DrainEnd, Shadow!ShutdownFlag, Shadow!Close, Shadow!CancelAll,
       Shadow!Join, Shadow!workerVars, Shadow!gauges, Shadow!counters
  <2> QED BY <2>1, GaugesAside
<1>2. CASE Shadow!CommitPush
  <2>1. /\ queue' = Append(queue, staged) /\ pending' = pending + 1 /\ comp # "gone"
        /\ submitted' = submitted + 1 /\ UNCHANGED <<mailbox, running, awaiting, completed, lost>>
        /\ wpc' \in Shadow!NotifyOne(wpc)
    BY <1>2 DEF Shadow!CommitPush
  <2>2. Len(queue') = Len(queue) + 1 /\ Len(queue) \in Nat BY <2>1, Grows DEF ShadowTypes
  <2>3. \A P \in {AtPopped, AtRun, AtFence, AtWork} : Shadow!Held(P)' = Shadow!Held(P)
    <3>1. \A P \in {AtPopped, AtRun, AtFence, AtWork} : "waiting" \notin P /\ "pop" \notin P
      BY DEF AtPopped, AtRun, AtFence, AtWork
    <3> QED BY <2>1, <3>1, NotifyWakes, HeldWoken
  <2> DEFINE a == Shadow!Held(AtPopped)
             d == Shadow!Held(AtWork)
  <2>4. a \in Nat /\ d \in Nat BY HeldIs
  <2>5. pending \in Int /\ submitted \in Int /\ completed \in Int /\ lost \in Int
        /\ Len(mailbox) \in Nat
    BY DEF ShadowTypes
  <2>6. /\ pending = Len(queue) + a /\ running = Shadow!Held(AtRun)
        /\ awaiting = Shadow!Held(AtFence) + Len(mailbox)
        /\ submitted = completed + lost + Len(mailbox) + Len(queue) + d
    BY <2>1, GaugesAre
  <2>7. a' = a /\ d' = d /\ Shadow!Held(AtRun)' = Shadow!Held(AtRun)
        /\ Shadow!Held(AtFence)' = Shadow!Held(AtFence)
    BY <2>3
  <2> HIDE DEF a, d
  <2>8. /\ pending' = Len(queue') + a'
        /\ submitted' = completed' + lost' + Len(mailbox') + Len(queue') + d'
    BY <2>1, <2>2, <2>4, <2>5, <2>6, <2>7
  <2>9. /\ running' = Shadow!Held(AtRun)'
        /\ awaiting' = Shadow!Held(AtFence)' + Len(mailbox')
    BY <2>1, <2>6, <2>7
  <2> QED BY <2>8, <2>9 DEF Shadow!GaugesExact, AtPopped, AtRun, AtFence, AtWork, a, d
<1>3. CASE Shadow!DrainOne
  <2>1. /\ mailbox # <<>> /\ mailbox' = Tail(mailbox) /\ awaiting' = awaiting - 1
        /\ completed' = completed + 1 /\ comp # "gone"
        /\ UNCHANGED <<comp, queue, wpc, pending, running, submitted, lost>>
    BY <1>3 DEF Shadow!DrainOne, Shadow!compVars, Shadow!workerVars
  <2>2. Len(mailbox') = Len(mailbox) - 1 /\ Len(mailbox) \in Nat
    BY <2>1, Shrinks DEF ShadowTypes
  <2>3. \A P : Shadow!Held(P)' = Shadow!Held(P) BY <2>1 DEF Shadow!Held
  <2> DEFINE c == Shadow!Held(AtFence)
             d == Shadow!Held(AtWork)
  <2>4. c \in Nat /\ d \in Nat BY HeldIs
  <2>5. submitted \in Int /\ completed \in Int /\ lost \in Int /\ Len(queue) \in Nat
        /\ awaiting \in Int
    BY DEF ShadowTypes
  <2>6. /\ pending = Len(queue) + Shadow!Held(AtPopped) /\ running = Shadow!Held(AtRun)
        /\ awaiting = c + Len(mailbox)
        /\ submitted = completed + lost + Len(mailbox) + Len(queue) + d
    BY <2>1, GaugesAre
  <2>7. c' = c /\ d' = d /\ Shadow!Held(AtRun)' = Shadow!Held(AtRun)
        /\ Shadow!Held(AtPopped)' = Shadow!Held(AtPopped)
    BY <2>3
  <2> HIDE DEF c, d
  <2>8. /\ awaiting' = c' + Len(mailbox')
        /\ submitted' = completed' + lost' + Len(mailbox') + Len(queue') + d'
    BY <2>1, <2>2, <2>4, <2>5, <2>6, <2>7
  <2>9. /\ running' = Shadow!Held(AtRun)'
        /\ pending' = Len(queue') + Shadow!Held(AtPopped)'
    BY <2>1, <2>6, <2>7
  <2> QED BY <2>8, <2>9 DEF Shadow!GaugesExact, AtPopped, AtRun, AtFence, AtWork, c, d
<1>4. CASE Shadow!NotifyAll \/ Shadow!Drop
  <2>1. /\ wpc' = [w \in Workers |-> IF wpc[w] = "waiting" THEN "pop" ELSE wpc[w]]
        /\ UNCHANGED <<queue, pending, running, awaiting, submitted, completed, lost>>
        /\ \/ comp' = "gone"
           \/ comp # "gone" /\ mailbox' = mailbox
    BY <1>4 DEF Shadow!NotifyAll, Shadow!Drop, Shadow!gauges, Shadow!counters
  <2>2. \A P \in {AtPopped, AtRun, AtFence, AtWork} : Shadow!Held(P)' = Shadow!Held(P)
    <3>1. \A P \in {AtPopped, AtRun, AtFence, AtWork} : "waiting" \notin P /\ "pop" \notin P
      BY DEF AtPopped, AtRun, AtFence, AtWork
    <3>2. \A v \in Workers : \/ wpc'[v] = wpc[v]
                             \/ wpc[v] = "waiting" /\ wpc'[v] = "pop"
      BY <2>1
    <3> QED BY <3>1, <3>2, HeldWoken
  <2>3. /\ pending' = Len(queue') + Shadow!Held(AtPopped)'
        /\ running' = Shadow!Held(AtRun)'
    BY <2>1, <2>2, GaugesAre
  <2>4. comp' # "gone" =>
          /\ awaiting' = Shadow!Held(AtFence)' + Len(mailbox')
          /\ submitted' = completed' + lost' + Len(mailbox') + Len(queue')
                          + Shadow!Held(AtWork)'
    BY <2>1, <2>2, GaugesAre
  <2> QED BY <2>3, <2>4 DEF Shadow!GaugesExact, AtPopped, AtRun, AtFence, AtWork
<1> QED BY <1>1, <1>2, <1>3, <1>4 DEF Shadow!Composition

\* The steps of a worker keep the gauges exact.
LEMMA GaugesWork ==
    ASSUME ShadowTypes, Shadow!GaugesExact, NEW w \in Workers, Shadow!Worker(w)
    PROVE  Shadow!GaugesExact'
<1> DEFINE a == Shadow!Held(AtPopped)
           b == Shadow!Held(AtRun)
           c == Shadow!Held(AtFence)
           d == Shadow!Held(AtWork)
<1>1. /\ a \in Nat /\ b \in Nat /\ c \in Nat /\ d \in Nat
      /\ pending \in Int /\ running \in Int /\ awaiting \in Int
      /\ submitted \in Int /\ completed \in Int /\ lost \in Int
      /\ Len(queue) \in Nat /\ Len(mailbox) \in Nat
  <2>1. a \in Nat /\ b \in Nat /\ c \in Nat /\ d \in Nat BY HeldIs
  <2>2. /\ pending \in Int /\ running \in Int /\ awaiting \in Int
        /\ submitted \in Int /\ completed \in Int /\ lost \in Int
        /\ queue \in Seq(Nat) /\ mailbox \in Seq(Completions)
    BY DEF ShadowTypes
  <2>3. Len(queue) \in Nat /\ Len(mailbox) \in Nat BY <2>2, LenProperties
  <2> QED BY <2>1, <2>2, <2>3
<1>2. /\ pending = Len(queue) + a /\ running = b
      /\ comp # "gone" =>
           /\ awaiting = c + Len(mailbox)
           /\ submitted = completed + lost + Len(mailbox) + Len(queue) + d
  BY GaugesAre
<1>3. ASSUME NEW to, Shadow!Move(w, to)
      PROVE  \A P \in {AtPopped, AtRun, AtFence, AtWork} :
                /\ to \in P /\ wpc[w] \notin P => Shadow!Held(P)' = Shadow!Held(P) + 1
                /\ to \notin P /\ wpc[w] \in P => Shadow!Held(P)' = Shadow!Held(P) - 1
                /\ (to \in P <=> wpc[w] \in P) => Shadow!Held(P)' = Shadow!Held(P)
  BY <1>3, HeldMoves
<1>4. SUFFICES /\ pending' = Len(queue') + a' /\ running' = b'
               /\ comp' # "gone" =>
                    /\ awaiting' = c' + Len(mailbox')
                    /\ submitted' = completed' + lost' + Len(mailbox') + Len(queue') + d'
  BY DEF Shadow!GaugesExact, AtPopped, AtRun, AtFence, AtWork
<1>5. CASE Between(w)
  <2>1. UNCHANGED <<comp, queue, mailbox, submitted, completed, lost>>
    BY <1>5, BetweenIs DEF WorkerAside
  <2>2. \/ a' = a /\ b' = b /\ c' = c /\ d' = d /\ UNCHANGED <<pending, running, awaiting>>
        \/ /\ a' = a - 1 /\ b' = b /\ c' = c /\ d' = d
           /\ pending' = pending - 1 /\ UNCHANGED <<running, awaiting>>
        \/ /\ a' = a /\ b' = b + 1 /\ c' = c /\ d' = d
           /\ running' = running + 1 /\ UNCHANGED <<pending, awaiting>>
        \/ /\ a' = a /\ b' = b - 1 /\ c' = c /\ d' = d
           /\ running' = running - 1 /\ UNCHANGED <<pending, awaiting>>
        \/ /\ a' = a /\ b' = b /\ c' = c + 1 /\ d' = d
           /\ awaiting' = awaiting + 1 /\ UNCHANGED <<pending, running>>
    BY <1>3, <1>5, BetweenIs DEF AtPopped, AtRun, AtFence, AtWork
  <2> HIDE DEF a, b, c, d
  <2> QED BY ONLY <1>1, <1>2, <2>1, <2>2
<1>6. CASE Shadow!PopJob(w)
  <2>1. /\ queue # <<>> /\ queue' = Tail(queue) /\ Shadow!Move(w, "popped") /\ wpc[w] = "pop"
        /\ UNCHANGED <<comp, mailbox, pending, running, awaiting, submitted, completed, lost>>
    BY <1>6 DEF Shadow!PopJob, Shadow!compVars, Shadow!gauges, Shadow!counters
  <2>2. Len(queue') = Len(queue) - 1 BY <2>1, Shrinks DEF ShadowTypes
  <2>3. a' = a + 1 /\ b' = b /\ c' = c /\ d' = d + 1
    BY <1>3, <2>1 DEF AtPopped, AtRun, AtFence, AtWork
  <2> HIDE DEF a, b, c, d
  <2> QED BY ONLY <1>1, <1>2, <2>1, <2>2, <2>3
<1>7. CASE Shadow!Publish(w)
  <2>1. /\ wpc[w] = "fence" /\ Shadow!Move(w, "pop")
        /\ UNCHANGED <<comp, queue, pending, running, submitted, completed>>
        /\ \/ /\ Len(mailbox') = Len(mailbox) + 1
              /\ awaiting' = awaiting /\ lost' = lost
           \/ /\ Len(mailbox') = Len(mailbox)
              /\ awaiting' = awaiting - 1 /\ lost' = lost + 1
    <3> DEFINE e == [job |-> wjob[w], record |-> wrecord[w] /\ Shadow!Current(w)]
    <3>1. wjob[w] \in Nat /\ (wrecord[w] /\ Shadow!Current(w)) \in BOOLEAN
      BY DEF ShadowTypes
    <3>2. e \in Completions BY <3>1 DEF Completions
    <3>3. mailbox \in Seq(Completions) BY DEF ShadowTypes
    <3>4. Len(Append(mailbox, e)) = Len(mailbox) + 1 BY <3>2, <3>3, Grows
    <3> QED BY <1>7, <3>4, PublishIs
  <2>2. a' = a /\ b' = b /\ c' = c - 1 /\ d' = d - 1
    BY <1>3, <2>1 DEF AtPopped, AtRun, AtFence, AtWork
  <2> HIDE DEF a, b, c, d
  <2>3. pending' = Len(queue') + a' /\ running' = b' BY ONLY <1>1, <1>2, <2>1, <2>2
  <2>4. ASSUME comp' # "gone"
        PROVE  /\ awaiting' = c' + Len(mailbox')
               /\ submitted' = completed' + lost' + Len(mailbox') + Len(queue') + d'
    <3>1. /\ awaiting = c + Len(mailbox)
          /\ submitted = completed + lost + Len(mailbox) + Len(queue) + d
      BY <1>2, <2>1, <2>4
    <3> QED BY ONLY <1>1, <2>1, <2>2, <3>1
  <2> QED BY <2>3, <2>4
<1> QED BY <1>5, <1>6, <1>7, WorkerIs

\* Jobs, chains and entries do not change.
LEMMA RegistryKept ==
    ASSUME ShadowOnce, ShadowCancelled, ShadowEntries, ShadowKeeps,
           UNCHANGED <<keyOf, newest, queue, live, cancelled, wjob>>
    PROVE  ShadowOnce' /\ ShadowCancelled' /\ ShadowEntries' /\ ShadowKeeps'
<1>1. ShadowOnce' BY DEF ShadowOnce
<1>2. ShadowCancelled' BY DEF ShadowCancelled
<1>3. ShadowEntries' BY DEF ShadowEntries
<1>4. ShadowKeeps' BY DEF ShadowKeeps
<1> QED BY <1>1, <1>2, <1>3, <1>4

\* A step of the composition thread that leaves jobs and entries alone.
LEMMA RegistryAside ==
    ASSUME ShadowInv,
           \/ Shadow!RouteFails \/ Shadow!CommitNothing \/ Shadow!StartTick \/ Shadow!DrainOne
           \/ Shadow!DrainEnd \/ Shadow!ShutdownFlag \/ Shadow!Close \/ Shadow!NotifyAll
           \/ Shadow!Join
    PROVE  /\ ShadowHolds' /\ ShadowOnce' /\ ShadowStaged' /\ ShadowCancelled'
           /\ ShadowEntries' /\ ShadowKeeps' /\ ShadowEnds'
<1>1. ShadowTypes /\ ShadowHolds /\ ShadowOnce /\ ShadowStaged /\ ShadowCancelled
      /\ ShadowEntries /\ ShadowKeeps /\ ShadowEnds
  BY DEF ShadowInv
<1>2. UNCHANGED <<keyOf, newest, queue, live, cancelled, wjob>>
  BY DEF Shadow!RouteFails, Shadow!CommitNothing, Shadow!StartTick, Shadow!DrainOne,
     Shadow!DrainEnd, Shadow!ShutdownFlag, Shadow!Close, Shadow!NotifyAll, Shadow!Join,
     Shadow!compVars, Shadow!workerVars
<1>3. \/ wpc' = wpc
      \/ wpc' = [w \in Workers |-> IF wpc[w] = "waiting" THEN "pop" ELSE wpc[w]]
  BY DEF Shadow!RouteFails, Shadow!CommitNothing, Shadow!StartTick, Shadow!DrainOne,
     Shadow!DrainEnd, Shadow!ShutdownFlag, Shadow!Close, Shadow!NotifyAll, Shadow!Join,
     Shadow!compVars, Shadow!workerVars
<1>4. \A w \in Workers : \/ wpc'[w] = wpc[w]
                         \/ wpc[w] = "waiting" /\ wpc'[w] = "pop"
  BY <1>3
<1>5. ShadowHolds' BY ONLY <1>1, <1>2, <1>4 DEF ShadowHolds, Idle
<1>6. ShadowOnce' /\ ShadowCancelled' /\ ShadowEntries' /\ ShadowKeeps'
  BY ONLY <1>1, <1>2, RegistryKept
<1>7. \/ /\ comp \in {"ready", "superseded", "draining"} /\ comp' \in {"ready", "draining"}
         /\ staged' \in {staged, 0} /\ (comp = "superseded" => staged' = 0)
         /\ UNCHANGED <<closed, shuttingDown>>
      \/ /\ comp = "ready" /\ comp' = "closing" /\ UNCHANGED <<staged, closed>>
      \/ /\ comp = "closing" /\ comp' = "notifying" /\ closed' = TRUE
         /\ UNCHANGED <<staged, shuttingDown>>
      \/ /\ comp = "notifying" /\ comp' = "cancelling"
         /\ UNCHANGED <<staged, closed, shuttingDown>>
      \/ /\ comp = "joining" /\ comp' = "ready" /\ \A w \in Workers : wpc[w] = "exited"
         /\ UNCHANGED <<staged, closed, shuttingDown>>
  BY DEF Shadow!RouteFails, Shadow!CommitNothing, Shadow!StartTick, Shadow!DrainOne,
     Shadow!DrainEnd, Shadow!ShutdownFlag, Shadow!Close, Shadow!NotifyAll, Shadow!Join,
     Shadow!compVars, Shadow!None
<1>8. ShadowStaged'
  <2>1. comp' \notin {"routed", "superseded"} /\ staged' = 0
    BY ONLY <1>1, <1>7 DEF ShadowStaged
  <2> QED BY ONLY <2>1 DEF ShadowStaged
<1>9. ShadowEnds'
  <2>1. \A w \in Workers : wpc'[w] = "exited" <=> wpc[w] = "exited" BY ONLY <1>4
  <2>2. \A w \in Workers : wpc'[w] = "exited" => closed' /\ queue' = <<>>
    BY ONLY <1>1, <1>2, <1>7, <2>1 DEF ShadowEnds
  <2>3. comp' = "joining" => \A k \in Keys : live'[k] = 0 BY ONLY <1>7
  <2>4. ASSUME shuttingDown', comp' \in {"ready", "routed", "superseded", "draining"}
        PROVE  /\ staged' = 0
               /\ \A w \in Workers : wpc'[w] = "exited"
               /\ \A k \in Keys : live'[k] = 0
    <3>1. staged' = 0 BY ONLY <1>1, <1>7 DEF ShadowStaged
    <3>2. shuttingDown' = shuttingDown BY ONLY <1>7, <2>4
    <3>3. \/ comp \in {"ready", "superseded", "draining"}
          \/ comp = "joining" /\ \A w \in Workers : wpc[w] = "exited"
      BY ONLY <1>7, <2>4
    <3> QED BY ONLY <1>1, <1>2, <2>1, <2>4, <3>1, <3>2, <3>3 DEF ShadowEnds
  <2> QED BY ONLY <2>2, <2>3, <2>4 DEF ShadowEnds
<1> QED BY <1>5, <1>6, <1>8, <1>9

\* A new event, and what is staged for it.
LEMMA RegistryStage ==
    ASSUME ShadowInv, NEW key \in Keys, NEW eligible \in BOOLEAN, Shadow!Stage(key, eligible)
    PROVE  /\ ShadowHolds' /\ ShadowOnce' /\ ShadowStaged' /\ ShadowCancelled'
           /\ ShadowEntries' /\ ShadowKeeps' /\ ShadowEnds'
<1>1. ShadowTypes /\ ShadowHolds /\ ShadowOnce /\ ShadowStaged /\ ShadowCancelled
      /\ ShadowEntries /\ ShadowKeeps /\ ShadowEnds
  BY DEF ShadowInv
<1>2. /\ comp = "ready" /\ comp' = "routed" /\ keyOf' = Append(keyOf, key)
      /\ UNCHANGED <<newest, queue, closed, live, cancelled, wpc, wjob, shuttingDown>>
      /\ staged' = Len(keyOf') \/ staged' = 0
      /\ shuttingDown => staged' = 0
  BY DEF Shadow!Stage, Shadow!None, Shadow!workerVars
<1>3. /\ Len(keyOf') = Len(keyOf) + 1 /\ Len(keyOf) \in Nat
      /\ \A i \in 1..Len(keyOf) : keyOf'[i] = keyOf[i]
  BY <1>1, <1>2, Grows DEF ShadowTypes
<1>4. /\ \A w \in Workers : wjob[w] \in Nat
      /\ \A k \in Keys : live[k] \in Nat
      /\ Len(queue) \in Nat
  BY <1>1 DEF ShadowTypes
<1>5. ShadowHolds' BY ONLY <1>1, <1>2, <1>3, <1>4 DEF ShadowHolds
<1>6. ShadowOnce' BY ONLY <1>1, <1>2 DEF ShadowOnce
<1>7. ShadowCancelled' BY ONLY <1>1, <1>2, <1>3 DEF ShadowCancelled
<1>8. ShadowEntries' BY ONLY <1>1, <1>2, <1>3, <1>4 DEF ShadowEntries
<1>9. ShadowKeeps' BY ONLY <1>1, <1>2, <1>3, <1>4 DEF ShadowKeeps, ShadowHolds
<1>10. ShadowStaged'
  <2>1. keyOf' # <<>> BY <1>1, <1>2 DEF ShadowTypes
  <2>2. \A i \in 1..Len(queue) : queue[i] # Len(keyOf')
    BY ONLY <1>1, <1>3, <1>4 DEF ShadowHolds
  <2>3. \A w \in Workers : wjob[w] # Len(keyOf')
    BY ONLY <1>1, <1>3, <1>4 DEF ShadowHolds
  <2>4. Len(keyOf') \notin cancelled
    BY ONLY <1>1, <1>3 DEF ShadowCancelled
  <2> QED BY ONLY <1>2, <2>1, <2>2, <2>3, <2>4 DEF ShadowStaged
<1>11. ShadowEnds' BY ONLY <1>1, <1>2 DEF ShadowEnds
<1> QED BY <1>5, <1>6, <1>7, <1>8, <1>9, <1>10, <1>11

\* The chain of the event loses its entry, whose job is cancelled.
LEMMA RegistrySupersede ==
    ASSUME ShadowInv, Shadow!Supersede
    PROVE  /\ ShadowHolds' /\ ShadowOnce' /\ ShadowStaged' /\ ShadowCancelled'
           /\ ShadowEntries' /\ ShadowKeeps' /\ ShadowEnds'
<1>1. ShadowTypes /\ ShadowHolds /\ ShadowOnce /\ ShadowStaged /\ ShadowCancelled
      /\ ShadowEntries /\ ShadowKeeps /\ ShadowEnds
  BY DEF ShadowInv
<1>2. PICK key : key = keyOf[Len(keyOf)] OBVIOUS
<1>3. PICK old : old = live[key] OBVIOUS
<1>4. /\ comp = "routed" /\ comp' = "superseded"
      /\ newest' = [newest EXCEPT ![key] = Len(keyOf)]
      /\ live' = [live EXCEPT ![key] = 0]
      /\ cancelled' = cancelled \cup ({old} \ {0})
      /\ UNCHANGED <<keyOf, staged, queue, closed, wpc, wjob, shuttingDown>>
  BY <1>2, <1>3 DEF Shadow!Supersede, Shadow!None, Shadow!workerVars
<1>5. keyOf # <<>> /\ key \in Keys /\ Len(keyOf) \in Nat /\ old \in Nat
  <2>1. keyOf # <<>> /\ keyOf \in Seq(Keys) BY <1>1, <1>4 DEF ShadowStaged, ShadowTypes
  <2>2. Len(keyOf) \in Nat \ {0} BY <2>1, EmptySeq, LenProperties
  <2>3. key \in Keys BY <1>2, <2>1, <2>2, ElementOfSeq
  <2> QED BY <1>1, <1>3, <2>1, <2>2, <2>3 DEF ShadowTypes
<1>6. /\ newest'[key] = Len(keyOf) /\ live'[key] = 0
      /\ \A k \in Keys : k # key => newest'[k] = newest[k] /\ live'[k] = live[k]
  BY <1>1, <1>4, <1>5 DEF ShadowTypes
<1>7. old # 0 => keyOf[old] = key /\ old <= Len(keyOf) /\ old # staged
  <2> HAVE old # 0
  <2>1. /\ keyOf[old] = key /\ old <= Len(keyOf)
        /\ \/ \E i \in 1..Len(queue) : queue[i] = old
           \/ \E w \in Workers : wjob[w] = old
    BY <1>1, <1>3, <1>5 DEF ShadowEntries
  <2> QED BY <1>1, <2>1 DEF ShadowStaged
<1>8. ShadowHolds' BY ONLY <1>1, <1>4 DEF ShadowHolds
<1>9. ShadowOnce' BY ONLY <1>1, <1>4 DEF ShadowOnce
<1>10. ShadowStaged'
  <2>1. newest'[keyOf'[Len(keyOf')]] = Len(keyOf') BY ONLY <1>2, <1>4, <1>6
  <2>2. staged' # 0 => /\ staged' = Len(keyOf')
                       /\ \A i \in 1..Len(queue') : queue'[i] # staged'
                       /\ \A w \in Workers : wjob'[w] # staged'
    BY ONLY <1>1, <1>4 DEF ShadowStaged
  <2>3. staged' # 0 => staged' \notin cancelled'
    BY ONLY <1>1, <1>4, <1>7 DEF ShadowStaged
  <2> QED BY ONLY <1>4, <1>5, <2>1, <2>2, <2>3 DEF ShadowStaged
<1>11. ShadowCancelled' BY ONLY <1>1, <1>4, <1>5, <1>7 DEF ShadowCancelled
<1>12. ShadowEntries'
  <2> SUFFICES ASSUME NEW k \in Keys, live'[k] # 0
               PROVE  /\ live'[k] <= Len(keyOf') /\ keyOf'[live'[k]] = k
                      /\ \/ \E i \in 1..Len(queue') : queue'[i] = live'[k]
                         \/ \E w \in Workers : wjob'[w] = live'[k]
                      /\ live'[k] \notin cancelled' /\ live'[k] = newest'[k]
    BY DEF ShadowEntries
  <2>1. k # key /\ live'[k] = live[k] /\ newest'[k] = newest[k] BY <1>6
  <2>2. /\ live[k] <= Len(keyOf) /\ keyOf[live[k]] = k
        /\ \/ \E i \in 1..Len(queue) : queue[i] = live[k]
           \/ \E w \in Workers : wjob[w] = live[k]
        /\ live[k] \notin cancelled /\ live[k] = newest[k]
    BY <1>1, <2>1 DEF ShadowEntries
  <2>3. live[k] # old BY <1>7, <2>1, <2>2
  <2> QED BY ONLY <1>4, <2>1, <2>2, <2>3
<1>13. ShadowKeeps'
  <2>1. ASSUME NEW j \in Nat \ {0}, j \notin cancelled', j <= Len(keyOf),
               j \notin cancelled => live[keyOf[j]] = j
        PROVE  live'[keyOf'[j]] = j
    <3>1. j \notin cancelled /\ j # old BY <1>4, <2>1
    <3>2. live[keyOf[j]] = j BY <2>1, <3>1
    <3>3. keyOf[j] \in Keys
      <4>1. j \in 1..Len(keyOf) /\ keyOf \in Seq(Keys) BY <1>1, <1>5, <2>1 DEF ShadowTypes
      <4> QED BY <4>1, ElementOfSeq
    <3>4. keyOf[j] # key BY <1>3, <3>1, <3>2
    <3> QED BY ONLY <1>4, <1>6, <3>2, <3>3, <3>4
  <2>2. ASSUME NEW i \in 1..Len(queue'), queue'[i] \notin cancelled'
        PROVE  live'[keyOf'[queue'[i]]] = queue'[i]
    BY ONLY <1>1, <1>4, <1>5, <2>1, <2>2 DEF ShadowKeeps, ShadowHolds
  <2>3. ASSUME NEW w \in Workers, wjob'[w] # 0, wjob'[w] \notin cancelled'
        PROVE  live'[keyOf'[wjob'[w]]] = wjob'[w]
    <3>1. wjob[w] \in Nat \ {0} /\ wjob[w] <= Len(keyOf)
      BY ONLY <1>1, <1>4, <2>3 DEF ShadowTypes, ShadowHolds
    <3> QED BY ONLY <1>1, <1>4, <2>1, <2>3, <3>1 DEF ShadowKeeps
  <2> QED BY ONLY <2>2, <2>3 DEF ShadowKeeps
<1>14. ShadowEnds'
  <2>1. ASSUME shuttingDown PROVE \A k \in Keys : live'[k] = 0
    BY ONLY <1>1, <1>4, <1>6, <2>1 DEF ShadowEnds
  <2>2. ASSUME shuttingDown PROVE staged = 0 /\ \A w \in Workers : wpc[w] = "exited"
    BY ONLY <1>1, <1>4, <2>2 DEF ShadowEnds
  <2>3. \A w \in Workers : wpc[w] = "exited" => closed /\ queue = <<>>
    BY <1>1 DEF ShadowEnds
  <2> QED BY ONLY <1>4, <2>1, <2>2, <2>3 DEF ShadowEnds
<1> QED BY <1>8, <1>9, <1>10, <1>11, <1>12, <1>13, <1>14

\* The staged job is queued and entered for its chain.
LEMMA RegistryCommit ==
    ASSUME ShadowInv, Shadow!CommitPush
    PROVE  /\ ShadowHolds' /\ ShadowOnce' /\ ShadowStaged' /\ ShadowCancelled'
           /\ ShadowEntries' /\ ShadowKeeps' /\ ShadowEnds'
<1>1. ShadowTypes /\ ShadowHolds /\ ShadowOnce /\ ShadowStaged /\ ShadowCancelled
      /\ ShadowEntries /\ ShadowKeeps /\ ShadowEnds
  BY DEF ShadowInv
<1>2. PICK key : key = keyOf[staged] OBVIOUS
<1>3. PICK old : old = live[key] OBVIOUS
<1>4. PICK job : job = staged OBVIOUS
<1>5. /\ comp = "superseded" /\ comp' = "draining" /\ job # 0 /\ ~ closed /\ staged' = 0
      /\ live' = [live EXCEPT ![key] = job]
      /\ cancelled' = cancelled \cup ({old} \ {0})
      /\ queue' = Append(queue, job)
      /\ wpc' \in Shadow!NotifyOne(wpc)
      /\ UNCHANGED <<keyOf, newest, closed, wjob, shuttingDown>>
  BY <1>2, <1>3, <1>4 DEF Shadow!CommitPush, Shadow!None
<1>6. /\ job = Len(keyOf) /\ job \in 1..Len(keyOf) /\ key \in Keys /\ old \in Nat
      /\ newest[key] = job /\ job \notin cancelled
      /\ \A i \in 1..Len(queue) : queue[i] # job
      /\ \A w \in Workers : wjob[w] # job
  <2>1. /\ job = Len(keyOf) /\ job \notin cancelled
        /\ \A i \in 1..Len(queue) : queue[i] # job
        /\ \A w \in Workers : wjob[w] # job
        /\ newest[keyOf[Len(keyOf)]] = Len(keyOf)
    BY <1>1, <1>4, <1>5 DEF ShadowStaged
  <2>2. keyOf \in Seq(Keys) /\ Len(keyOf) \in Nat BY <1>1 DEF ShadowTypes
  <2>3. job \in 1..Len(keyOf) BY <1>5, <2>1, <2>2
  <2>4. key \in Keys BY <1>2, <1>4, <2>2, <2>3, ElementOfSeq
  <2>5. old \in Nat BY <1>1, <1>3, <2>4 DEF ShadowTypes
  <2> QED BY <1>2, <1>4, <2>1, <2>3, <2>4, <2>5
<1>7. /\ live'[key] = job /\ \A k \in Keys : k # key => live'[k] = live[k]
  BY <1>1, <1>5, <1>6 DEF ShadowTypes
<1>8. /\ Len(queue') = Len(queue) + 1 /\ Len(queue) \in Nat /\ queue'[Len(queue) + 1] = job
      /\ \A i \in 1..Len(queue) : queue'[i] = queue[i]
  BY <1>1, <1>5, <1>6, Grows DEF ShadowTypes
<1>9. \A w \in Workers : \/ wpc'[w] = wpc[w]
                         \/ wpc[w] = "waiting" /\ wpc'[w] = "pop"
  BY <1>1, <1>5, NotifyWakes
<1>10. old # 0 => /\ keyOf[old] = key /\ old <= Len(keyOf) /\ old # job
  <2> HAVE old # 0
  <2>1. /\ keyOf[old] = key /\ old <= Len(keyOf)
        /\ \/ \E i \in 1..Len(queue) : queue[i] = old
           \/ \E w \in Workers : wjob[w] = old
    BY <1>1, <1>3, <1>6 DEF ShadowEntries
  <2> QED BY <1>6, <2>1
<1>11. ShadowHolds'
  <2>1. \A w \in Workers : wjob'[w] = 0 <=> wpc'[w] \in Idle
    BY ONLY <1>1, <1>5, <1>9 DEF ShadowHolds, Idle
  <2>2. \A i \in 1..Len(queue') : queue'[i] \in 1..Len(keyOf')
    BY ONLY <1>1, <1>5, <1>6, <1>8 DEF ShadowHolds
  <2> QED BY ONLY <1>1, <1>5, <2>1, <2>2 DEF ShadowHolds
<1>12. ShadowOnce'
  <2>1. \A i, j \in 1..Len(queue') : queue'[i] = queue'[j] => i = j
    BY ONLY <1>1, <1>6, <1>8 DEF ShadowOnce
  <2>2. \A i \in 1..Len(queue'), w \in Workers : queue'[i] # wjob'[w]
    BY ONLY <1>1, <1>5, <1>6, <1>8 DEF ShadowOnce
  <2> QED BY ONLY <1>1, <1>5, <2>1, <2>2 DEF ShadowOnce
<1>13. ShadowStaged' BY ONLY <1>5 DEF ShadowStaged
<1>14. ShadowCancelled' BY ONLY <1>1, <1>5, <1>6, <1>10 DEF ShadowCancelled
<1>15. ShadowEntries'
  <2> SUFFICES ASSUME NEW k \in Keys, live'[k] # 0
               PROVE  /\ live'[k] <= Len(keyOf') /\ keyOf'[live'[k]] = k
                      /\ \/ \E i \in 1..Len(queue') : queue'[i] = live'[k]
                         \/ \E w \in Workers : wjob'[w] = live'[k]
                      /\ live'[k] \notin cancelled' /\ live'[k] = newest'[k]
    BY DEF ShadowEntries
  <2>1. CASE k = key
    <3>1. live'[k] = job /\ Len(queue') \in 1..Len(queue') /\ queue'[Len(queue')] = job
      BY <1>7, <1>8, <2>1
    <3>2. job \notin cancelled' BY <1>5, <1>6, <1>10
    <3>3. live'[k] <= Len(keyOf') BY ONLY <1>5, <1>6, <3>1
    <3>4. keyOf'[live'[k]] = k BY ONLY <1>2, <1>4, <1>5, <2>1, <3>1
    <3>5. live'[k] = newest'[k] BY ONLY <1>5, <1>6, <2>1, <3>1
    <3>6. \E i \in 1..Len(queue') : queue'[i] = live'[k] BY ONLY <3>1
    <3> QED BY ONLY <3>1, <3>2, <3>3, <3>4, <3>5, <3>6
  <2>2. CASE k # key
    <3>1. live'[k] = live[k] BY <1>7, <2>2
    <3>2. /\ live[k] <= Len(keyOf) /\ keyOf[live[k]] = k
          /\ live[k] \notin cancelled /\ live[k] = newest[k]
      BY <1>1, <3>1 DEF ShadowEntries
    <3>3. \/ \E i \in 1..Len(queue') : queue'[i] = live[k]
          \/ \E w \in Workers : wjob'[w] = live[k]
      BY ONLY <1>1, <1>5, <1>8, <3>1, live'[k] # 0 DEF ShadowEntries
    <3>4. live[k] # old BY <1>10, <2>2, <3>1, <3>2
    <3> QED BY ONLY <1>5, <3>1, <3>2, <3>3, <3>4
  <2> QED BY <2>1, <2>2
<1>16. ShadowKeeps'
  <2>1. ASSUME NEW j \in Nat \ {0}, j \notin cancelled', j <= Len(keyOf), j # job,
               j \notin cancelled => live[keyOf[j]] = j
        PROVE  live'[keyOf'[j]] = j
    <3>1. j \notin cancelled /\ j # old BY <1>5, <2>1
    <3>2. live[keyOf[j]] = j BY <2>1, <3>1
    <3>3. keyOf[j] \in Keys
      <4>1. j \in 1..Len(keyOf) /\ keyOf \in Seq(Keys) BY <1>1, <1>6, <2>1 DEF ShadowTypes
      <4> QED BY <4>1, ElementOfSeq
    <3>4. keyOf[j] # key BY <1>3, <3>1, <3>2
    <3> QED BY ONLY <1>5, <1>7, <3>2, <3>3, <3>4
  <2>2. ASSUME NEW i \in 1..Len(queue'), queue'[i] \notin cancelled'
        PROVE  live'[keyOf'[queue'[i]]] = queue'[i]
    <3>1. CASE i = Len(queue) + 1 BY ONLY <1>2, <1>4, <1>5, <1>7, <1>8, <3>1
    <3>2. CASE i # Len(queue) + 1
      <4>1. i \in 1..Len(queue) /\ queue'[i] = queue[i] BY ONLY <1>8, <2>2, <3>2
      <4>2. queue[i] \in Nat \ {0} /\ queue[i] <= Len(keyOf) /\ queue[i] # job
        BY ONLY <1>1, <1>6, <4>1 DEF ShadowHolds
      <4> QED BY ONLY <1>1, <2>1, <2>2, <4>1, <4>2 DEF ShadowKeeps
    <3> QED BY <3>1, <3>2
  <2>3. ASSUME NEW w \in Workers, wjob'[w] # 0, wjob'[w] \notin cancelled'
        PROVE  live'[keyOf'[wjob'[w]]] = wjob'[w]
    <3>1. wjob[w] \in Nat \ {0} /\ wjob[w] <= Len(keyOf) /\ wjob[w] # job
      BY ONLY <1>1, <1>5, <1>6, <2>3 DEF ShadowTypes, ShadowHolds
    <3> QED BY ONLY <1>1, <1>5, <2>1, <2>3, <3>1 DEF ShadowKeeps
  <2> QED BY ONLY <2>2, <2>3 DEF ShadowKeeps
<1>17. ShadowEnds'
  <2>1. ~ shuttingDown BY ONLY <1>1, <1>4, <1>5 DEF ShadowEnds
  <2>2. \A w \in Workers : wpc[w] # "exited" BY ONLY <1>1, <1>5 DEF ShadowEnds
  <2>3. \A w \in Workers : wpc'[w] # "exited" BY ONLY <1>9, <2>2
  <2> QED BY ONLY <1>5, <2>1, <2>3 DEF ShadowEnds
<1> QED BY <1>11, <1>12, <1>13, <1>14, <1>15, <1>16, <1>17

\* Every chain loses its entry, whose job is cancelled.
LEMMA RegistryEmptied ==
    ASSUME ShadowInv, Shadow!CancelAll \/ Shadow!Drop
    PROVE  /\ ShadowHolds' /\ ShadowOnce' /\ ShadowStaged' /\ ShadowCancelled'
           /\ ShadowEntries' /\ ShadowKeeps' /\ ShadowEnds'
<1>1. ShadowTypes /\ ShadowHolds /\ ShadowOnce /\ ShadowStaged /\ ShadowCancelled
      /\ ShadowEntries /\ ShadowKeeps /\ ShadowEnds
  BY DEF ShadowInv
<1>2. /\ comp' \in {"joining", "gone"} /\ staged' = 0
      /\ live' = [k \in Keys |-> 0]
      /\ cancelled' = cancelled \cup ({live[k] : k \in Keys} \ {0})
      /\ closed => closed'
      /\ UNCHANGED <<keyOf, newest, queue, wjob>>
  BY DEF Shadow!CancelAll, Shadow!Drop, Shadow!None, Shadow!workerVars
<1>3. \/ wpc' = wpc
      \/ wpc' = [w \in Workers |-> IF wpc[w] = "waiting" THEN "pop" ELSE wpc[w]]
  BY DEF Shadow!CancelAll, Shadow!Drop, Shadow!workerVars
<1>4. \A w \in Workers : \/ wpc'[w] = wpc[w]
                         \/ wpc[w] = "waiting" /\ wpc'[w] = "pop"
  BY <1>3
<1>5. \A k \in Keys : live'[k] = 0 BY <1>2
<1>6. ShadowHolds' BY ONLY <1>1, <1>2, <1>4 DEF ShadowHolds, Idle
<1>7. ShadowOnce' BY ONLY <1>1, <1>2 DEF ShadowOnce
<1>8. ShadowStaged' BY ONLY <1>2 DEF ShadowStaged
<1>9. ShadowCancelled'
  <2>1. \A k \in Keys : live[k] # 0 => live[k] \in 1..Len(keyOf)
    <3>1. keyOf \in Seq(Keys) /\ \A k \in Keys : live[k] \in Nat BY <1>1 DEF ShadowTypes
    <3>2. Len(keyOf) \in Nat BY <3>1, LenProperties
    <3> QED BY <1>1, <3>1, <3>2 DEF ShadowEntries
  <2> QED BY ONLY <1>1, <1>2, <2>1 DEF ShadowCancelled
<1>10. ShadowEntries' BY ONLY <1>5 DEF ShadowEntries
<1>11. ShadowKeeps'
  <2>1. \A i \in 1..Len(keyOf) : keyOf[i] \in Keys
    BY <1>1, ElementOfSeq DEF ShadowTypes
  <2>2. Len(keyOf) \in Nat /\ \A w \in Workers : wjob[w] \in Nat BY <1>1 DEF ShadowTypes
  <2>3. ASSUME NEW j \in 1..Len(keyOf), j \notin cancelled => live[keyOf[j]] = j
        PROVE  j \in cancelled'
    BY ONLY <1>2, <2>1, <2>3
  <2>4. \A i \in 1..Len(queue) : queue[i] \in cancelled'
    BY ONLY <1>1, <2>3 DEF ShadowKeeps, ShadowHolds
  <2>5. \A w \in Workers : wjob[w] # 0 => wjob[w] \in cancelled'
    BY ONLY <1>1, <2>2, <2>3 DEF ShadowKeeps, ShadowHolds
  <2> QED BY ONLY <1>2, <2>4, <2>5 DEF ShadowKeeps
<1>12. ShadowEnds'
  <2>1. \A w \in Workers : wpc'[w] = "exited" => wpc[w] = "exited" BY ONLY <1>4
  <2>2. \A w \in Workers : wpc'[w] = "exited" => closed' /\ queue' = <<>>
    BY ONLY <1>1, <1>2, <2>1 DEF ShadowEnds
  <2> QED BY ONLY <1>2, <1>5, <2>2 DEF ShadowEnds
<1> QED BY <1>6, <1>7, <1>8, <1>9, <1>10, <1>11, <1>12

\* A worker moves between taking a job and publishing it.
LEMMA RegistryBetween ==
    ASSUME ShadowInv, NEW w \in Workers, Between(w)
    PROVE  /\ ShadowHolds' /\ ShadowOnce' /\ ShadowStaged' /\ ShadowCancelled'
           /\ ShadowEntries' /\ ShadowKeeps' /\ ShadowEnds'
<1>1. ShadowTypes /\ ShadowHolds /\ ShadowOnce /\ ShadowStaged /\ ShadowCancelled
      /\ ShadowEntries /\ ShadowKeeps /\ ShadowEnds
  BY DEF ShadowInv
<1>2. UNCHANGED <<keyOf, newest, staged, comp, queue, closed, live, cancelled, wjob,
                  shuttingDown>>
  BY BetweenIs DEF WorkerAside
<1>3. PICK to : /\ Shadow!Move(w, to) /\ wpc[w] # "exited"
                /\ to \in Idle <=> wpc[w] \in Idle
                /\ to = "exited" => closed /\ queue = <<>>
  BY BetweenIs DEF Idle
<1>4. wpc'[w] = to /\ \A v \in Workers : v # w => wpc'[v] = wpc[v]
  BY <1>1, <1>3 DEF ShadowTypes, Shadow!Move
<1>5. ShadowHolds'
  <2>1. \A v \in Workers : wjob'[v] = 0 <=> wpc'[v] \in Idle
    BY ONLY <1>1, <1>2, <1>3, <1>4 DEF ShadowHolds
  <2> QED BY ONLY <1>1, <1>2, <2>1 DEF ShadowHolds
<1>6. ShadowOnce' /\ ShadowCancelled' /\ ShadowEntries' /\ ShadowKeeps'
  BY ONLY <1>1, <1>2, RegistryKept
<1>7. ShadowStaged' BY ONLY <1>1, <1>2 DEF ShadowStaged
<1>8. ShadowEnds'
  <2>1. \A v \in Workers : wpc'[v] = "exited" => closed' /\ queue' = <<>>
    BY ONLY <1>1, <1>2, <1>3, <1>4 DEF ShadowEnds
  <2>2. ~ (shuttingDown /\ comp \in {"ready", "routed", "superseded", "draining"})
    BY ONLY <1>1, <1>3, w \in Workers DEF ShadowEnds
  <2> QED BY ONLY <1>1, <1>2, <2>1, <2>2 DEF ShadowEnds
<1> QED BY <1>5, <1>6, <1>7, <1>8

\* A worker takes the first job.
LEMMA RegistryPop ==
    ASSUME ShadowInv, NEW w \in Workers, Shadow!PopJob(w)
    PROVE  /\ ShadowHolds' /\ ShadowOnce' /\ ShadowStaged' /\ ShadowCancelled'
           /\ ShadowEntries' /\ ShadowKeeps' /\ ShadowEnds'
<1>1. ShadowTypes /\ ShadowHolds /\ ShadowOnce /\ ShadowStaged /\ ShadowCancelled
      /\ ShadowEntries /\ ShadowKeeps /\ ShadowEnds
  BY DEF ShadowInv
<1>2. PICK job : job = Head(queue) OBVIOUS
<1>3. /\ queue # <<>> /\ queue' = Tail(queue) /\ wjob' = [wjob EXCEPT ![w] = job]
      /\ wpc[w] = "pop" /\ Shadow!Move(w, "popped")
      /\ UNCHANGED <<keyOf, newest, staged, comp, closed, live, cancelled, shuttingDown>>
  BY <1>2 DEF Shadow!PopJob, Shadow!compVars
<1>4. /\ Len(queue') = Len(queue) - 1 /\ Len(queue) \in Nat \ {0}
      /\ \A i \in 1..Len(queue') : queue'[i] = queue[i + 1]
      /\ job = queue[1] /\ job \in Nat
  BY <1>1, <1>2, <1>3, Shrinks DEF ShadowTypes
<1>5. /\ wpc'[w] = "popped" /\ \A v \in Workers : v # w => wpc'[v] = wpc[v]
      /\ wjob'[w] = job /\ \A v \in Workers : v # w => wjob'[v] = wjob[v]
  BY <1>1, <1>3 DEF ShadowTypes, Shadow!Move
<1>6. 1 \in 1..Len(queue) /\ job \in 1..Len(keyOf) /\ wjob[w] = 0
  <2>1. 1 \in 1..Len(queue) BY <1>4
  <2>2. job \in 1..Len(keyOf) BY ONLY <1>1, <1>4, <2>1 DEF ShadowHolds
  <2>3. wjob[w] = 0 BY ONLY <1>1, <1>3, w \in Workers DEF ShadowHolds, Idle
  <2> QED BY <2>1, <2>2, <2>3
<1>7. \A i \in 1..Len(queue') : i + 1 \in 1..Len(queue) /\ i + 1 # 1 BY ONLY <1>4
<1>8. ShadowHolds'
  <2>1. \A v \in Workers : wjob'[v] = 0 <=> wpc'[v] \in Idle
    BY ONLY <1>1, <1>5, <1>6 DEF ShadowHolds, Idle
  <2>2. \A v \in Workers : wjob'[v] <= Len(keyOf') BY ONLY <1>1, <1>3, <1>5, <1>6 DEF ShadowHolds
  <2>3. \A i \in 1..Len(queue') : queue'[i] \in 1..Len(keyOf')
    BY ONLY <1>1, <1>3, <1>4, <1>7 DEF ShadowHolds
  <2> QED BY ONLY <2>1, <2>2, <2>3 DEF ShadowHolds
<1>9. ShadowOnce'
  <2>1. ASSUME NEW i \in 1..Len(queue'), NEW j \in 1..Len(queue'), queue'[i] = queue'[j]
        PROVE  i = j
    <3>1. i + 1 = j + 1 BY ONLY <1>1, <1>4, <1>7, <2>1 DEF ShadowOnce
    <3> QED BY ONLY <1>4, <3>1, i \in 1..Len(queue'), j \in 1..Len(queue')
  <2>2. \A i \in 1..Len(queue'), v \in Workers : queue'[i] # wjob'[v]
    <3>1. \A i \in 1..Len(queue') : queue'[i] # job
      BY ONLY <1>1, <1>4, <1>6, <1>7 DEF ShadowOnce
    <3>2. \A i \in 1..Len(queue'), v \in Workers : queue'[i] # wjob[v]
      BY ONLY <1>1, <1>4, <1>7 DEF ShadowOnce
    <3> QED BY ONLY <1>5, <3>1, <3>2
  <2>3. \A u, v \in Workers : wjob'[u] = wjob'[v] /\ wjob'[u] # 0 => u = v
    <3>1. \A v \in Workers : wjob[v] # job BY ONLY <1>1, <1>4, <1>6 DEF ShadowOnce
    <3> QED BY ONLY <1>1, <1>5, <3>1 DEF ShadowOnce
  <2> QED BY ONLY <2>1, <2>2, <2>3 DEF ShadowOnce
<1>10. ShadowStaged'
  <2>1. staged # 0 => /\ \A i \in 1..Len(queue') : queue'[i] # staged
                      /\ \A v \in Workers : wjob'[v] # staged
    <3> HAVE staged # 0
    <3>1. /\ \A i \in 1..Len(queue) : queue[i] # staged
          /\ \A v \in Workers : wjob[v] # staged
      BY ONLY <1>1, staged # 0 DEF ShadowStaged
    <3> QED BY ONLY <1>4, <1>5, <1>6, <1>7, <3>1
  <2> QED BY ONLY <1>1, <1>3, <2>1 DEF ShadowStaged
<1>11. ShadowCancelled' BY ONLY <1>1, <1>3 DEF ShadowCancelled
<1>12. ShadowEntries'
  <2>1. ASSUME NEW j, \/ \E i \in 1..Len(queue) : queue[i] = j
                      \/ \E v \in Workers : wjob[v] = j,
               j # 0
        PROVE  \/ \E i \in 1..Len(queue') : queue'[i] = j
               \/ \E v \in Workers : wjob'[v] = j
    <3>1. CASE j = job BY ONLY <1>5, <3>1, w \in Workers
    <3>2. CASE j # job /\ \E i \in 1..Len(queue) : queue[i] = j
      <4>1. PICK i \in 1..Len(queue) : queue[i] = j BY <3>2
      <4>2. i # 1 BY <1>4, <3>2, <4>1
      <4>3. i - 1 \in 1..Len(queue') /\ (i - 1) + 1 = i BY <1>4, <4>2
      <4>4. queue'[i - 1] = j BY <1>4, <4>1, <4>3
      <4> QED BY <4>3, <4>4
    <3>3. CASE \E v \in Workers : wjob[v] = j
      <4>1. PICK v \in Workers : wjob[v] = j BY <3>3
      <4>2. v # w BY <1>6, <2>1, <4>1
      <4> QED BY <1>5, <4>1, <4>2
    <3> QED BY <2>1, <3>1, <3>2, <3>3
  <2> QED BY ONLY <1>1, <1>3, <2>1 DEF ShadowEntries
<1>13. ShadowKeeps'
  <2>1. \A i \in 1..Len(queue') :
           queue'[i] \notin cancelled => live[keyOf[queue'[i]]] = queue'[i]
    BY ONLY <1>1, <1>4, <1>7 DEF ShadowKeeps
  <2>2. job \notin cancelled => live[keyOf[job]] = job
    BY ONLY <1>1, <1>4, <1>6 DEF ShadowKeeps
  <2>3. \A v \in Workers :
           wjob'[v] # 0 /\ wjob'[v] \notin cancelled => live[keyOf[wjob'[v]]] = wjob'[v]
    BY ONLY <1>1, <1>5, <2>2 DEF ShadowKeeps
  <2> QED BY ONLY <1>3, <2>1, <2>3 DEF ShadowKeeps
<1>14. ShadowEnds'
  <2>1. \A v \in Workers : wpc[v] # "exited" BY ONLY <1>1, <1>3 DEF ShadowEnds
  <2>2. \A v \in Workers : wpc'[v] # "exited" BY ONLY <1>5, <2>1
  <2>3. ~ (shuttingDown /\ comp \in {"ready", "routed", "superseded", "draining"})
    BY ONLY <1>1, <2>1, w \in Workers DEF ShadowEnds
  <2> QED BY ONLY <1>1, <1>3, <2>2, <2>3 DEF ShadowEnds
<1> QED BY <1>8, <1>9, <1>10, <1>11, <1>12, <1>13, <1>14

\* A worker lets go of its job and of the entry that is the job's.
LEMMA RegistryPublish ==
    ASSUME ShadowInv, NEW w \in Workers, Shadow!Publish(w)
    PROVE  /\ ShadowHolds' /\ ShadowOnce' /\ ShadowStaged' /\ ShadowCancelled'
           /\ ShadowEntries' /\ ShadowKeeps' /\ ShadowEnds'
<1>1. ShadowTypes /\ ShadowHolds /\ ShadowOnce /\ ShadowStaged /\ ShadowCancelled
      /\ ShadowEntries /\ ShadowKeeps /\ ShadowEnds
  BY DEF ShadowInv
<1>2. PICK job : job = wjob[w] OBVIOUS
<1>3. /\ wpc[w] = "fence" /\ Shadow!Move(w, "pop")
      /\ live' = [k \in Keys |-> IF live[k] = job THEN 0 ELSE live[k]]
      /\ wjob' = [wjob EXCEPT ![w] = 0]
      /\ UNCHANGED <<keyOf, newest, staged, comp, queue, closed, cancelled, shuttingDown>>
  BY <1>2, PublishIs
<1>4. /\ wpc'[w] = "pop" /\ \A v \in Workers : v # w => wpc'[v] = wpc[v]
      /\ wjob'[w] = 0 /\ \A v \in Workers : v # w => wjob'[v] = wjob[v]
  BY <1>1, <1>3 DEF ShadowTypes, Shadow!Move
<1>5. job # 0 BY ONLY <1>1, <1>2, <1>3, w \in Workers DEF ShadowHolds, Idle
<1>6. /\ \A k \in Keys : live[k] # job => live'[k] = live[k]
      /\ \A k \in Keys : live'[k] # 0 => live'[k] = live[k] /\ live[k] # job
  BY ONLY <1>3
<1>7. Len(keyOf) \in Nat BY <1>1 DEF ShadowTypes
<1>8. ShadowHolds'
  <2>1. \A v \in Workers : wjob'[v] = 0 <=> wpc'[v] \in Idle
    BY ONLY <1>1, <1>4 DEF ShadowHolds, Idle
  <2>2. \A v \in Workers : wjob'[v] <= Len(keyOf') BY ONLY <1>1, <1>3, <1>4, <1>7 DEF ShadowHolds
  <2>3. \A i \in 1..Len(queue') : queue'[i] \in 1..Len(keyOf')
    BY ONLY <1>1, <1>3 DEF ShadowHolds
  <2> QED BY ONLY <2>1, <2>2, <2>3 DEF ShadowHolds
<1>9. ShadowOnce'
  <2>1. \A i \in 1..Len(queue) : queue[i] # 0
    BY ONLY <1>1 DEF ShadowHolds
  <2>2. \A i \in 1..Len(queue'), v \in Workers : queue'[i] # wjob'[v]
    BY ONLY <1>1, <1>3, <1>4, <2>1 DEF ShadowOnce
  <2>3. \A u, v \in Workers : wjob'[u] = wjob'[v] /\ wjob'[u] # 0 => u = v
    BY ONLY <1>1, <1>4 DEF ShadowOnce
  <2> QED BY ONLY <1>1, <1>3, <2>2, <2>3 DEF ShadowOnce
<1>10. ShadowStaged' BY ONLY <1>1, <1>3, <1>4 DEF ShadowStaged
<1>11. ShadowCancelled' BY ONLY <1>1, <1>3 DEF ShadowCancelled
<1>12. ShadowEntries'
  <2> SUFFICES ASSUME NEW k \in Keys, live'[k] # 0
               PROVE  /\ live'[k] <= Len(keyOf') /\ keyOf'[live'[k]] = k
                      /\ \/ \E i \in 1..Len(queue') : queue'[i] = live'[k]
                         \/ \E v \in Workers : wjob'[v] = live'[k]
                      /\ live'[k] \notin cancelled' /\ live'[k] = newest'[k]
    BY DEF ShadowEntries
  <2>1. live'[k] = live[k] /\ live[k] # job /\ live[k] # 0 BY <1>6
  <2>2. /\ live[k] <= Len(keyOf) /\ keyOf[live[k]] = k
        /\ \/ \E i \in 1..Len(queue) : queue[i] = live[k]
           \/ \E v \in Workers : wjob[v] = live[k]
        /\ live[k] \notin cancelled /\ live[k] = newest[k]
    BY ONLY <1>1, <2>1, k \in Keys DEF ShadowEntries
  <2>3. \/ \E i \in 1..Len(queue') : queue'[i] = live'[k]
        \/ \E v \in Workers : wjob'[v] = live'[k]
    BY ONLY <1>2, <1>3, <1>4, <2>1, <2>2
  <2> QED BY ONLY <1>3, <2>1, <2>2, <2>3
<1>13. ShadowKeeps'
  <2>1. \A i \in 1..Len(keyOf) : keyOf[i] \in Keys
    BY <1>1, ElementOfSeq DEF ShadowTypes
  <2>2. ASSUME NEW i \in 1..Len(queue), queue[i] \notin cancelled
        PROVE  live'[keyOf[queue[i]]] = queue[i]
    <3>1. live[keyOf[queue[i]]] = queue[i] BY ONLY <1>1, <2>2 DEF ShadowKeeps
    <3>2. queue[i] # job BY ONLY <1>1, <1>2, <2>2, w \in Workers DEF ShadowOnce
    <3>3. keyOf[queue[i]] \in Keys BY ONLY <1>1, <2>1, <2>2 DEF ShadowHolds
    <3> QED BY ONLY <1>6, <3>1, <3>2, <3>3
  <2>3. ASSUME NEW v \in Workers, wjob'[v] # 0, wjob'[v] \notin cancelled
        PROVE  live'[keyOf[wjob'[v]]] = wjob'[v]
    <3>1. v # w /\ wjob'[v] = wjob[v] BY ONLY <1>4, <2>3
    <3>2. live[keyOf[wjob[v]]] = wjob[v] BY ONLY <1>1, <2>3, <3>1 DEF ShadowKeeps
    <3>3. wjob[v] # job BY ONLY <1>1, <1>2, <2>3, <3>1, w \in Workers DEF ShadowOnce
    <3>4. wjob[v] \in 1..Len(keyOf)
      BY ONLY <1>1, <1>7, <2>3, <3>1 DEF ShadowHolds, ShadowTypes
    <3>5. keyOf[wjob[v]] \in Keys BY ONLY <2>1, <3>4
    <3> QED BY ONLY <1>6, <3>1, <3>2, <3>3, <3>5
  <2> QED BY ONLY <1>3, <2>2, <2>3 DEF ShadowKeeps
<1>14. ShadowEnds'
  <2>1. \A k \in Keys : live[k] = 0 => live'[k] = 0 BY ONLY <1>3
  <2>2. ~ (shuttingDown /\ comp \in {"ready", "routed", "superseded", "draining"})
    BY ONLY <1>1, <1>3, w \in Workers DEF ShadowEnds
  <2>3. \A v \in Workers : wpc'[v] = "exited" => closed /\ queue = <<>>
    BY ONLY <1>1, <1>4 DEF ShadowEnds
  <2> QED BY ONLY <1>1, <1>3, <2>1, <2>2, <2>3 DEF ShadowEnds
<1> QED BY <1>8, <1>9, <1>10, <1>11, <1>12, <1>13, <1>14

\* Nothing is registered at the start.
LEMMA ShadowInvInit == Shadow!Init => ShadowInv
<1> SUFFICES ASSUME Shadow!Init PROVE ShadowInv OBVIOUS
<1>1. /\ keyOf = <<>> /\ newest = [k \in Keys |-> 0] /\ staged = 0 /\ comp = "ready"
      /\ queue = <<>> /\ closed = FALSE /\ live = [k \in Keys |-> 0] /\ cancelled = {}
      /\ wpc = [w \in Workers |-> "pop"] /\ wjob = [w \in Workers |-> 0]
      /\ wrecord = [w \in Workers |-> FALSE] /\ mailbox = <<>> /\ shuttingDown = FALSE
      /\ pending = 0 /\ running = 0 /\ awaiting = 0
      /\ submitted = 0 /\ completed = 0 /\ lost = 0
  BY DEF Shadow!Init, Shadow!None
<1>2. Len(<<>>) = 0 /\ <<>> \in Seq(Keys) /\ <<>> \in Seq(Nat) /\ <<>> \in Seq(Completions)
  BY EmptySeq
<1>3. ShadowTypes
  <2>1. wpc \in [Workers -> Shadow!WorkerPcs] BY <1>1 DEF Shadow!WorkerPcs
  <2>2. comp \in Shadow!CompPcs BY <1>1 DEF Shadow!CompPcs
  <2>3. wjob \in [Workers -> Nat] /\ wrecord \in [Workers -> BOOLEAN]
        /\ newest \in [Keys -> Nat] /\ live \in [Keys -> Nat]
    BY <1>1
  <2>4. /\ keyOf \in Seq(Keys) /\ queue \in Seq(Nat) /\ mailbox \in Seq(Completions)
        /\ closed \in BOOLEAN /\ shuttingDown \in BOOLEAN /\ staged \in Nat
    BY <1>1, <1>2
  <2>5. /\ pending \in Int /\ running \in Int /\ awaiting \in Int
        /\ submitted \in Int /\ completed \in Int /\ lost \in Int
    BY <1>1
  <2> QED BY ONLY <2>1, <2>2, <2>3, <2>4, <2>5 DEF ShadowTypes
<1>4. ShadowHolds BY <1>1, <1>2 DEF ShadowHolds, Idle
<1>5. ShadowOnce BY <1>1, <1>2 DEF ShadowOnce
<1>6. ShadowStaged BY <1>1 DEF ShadowStaged
<1>7. ShadowCancelled /\ ShadowEntries /\ ShadowKeeps /\ ShadowEnds
  BY <1>1, <1>2 DEF ShadowCancelled, ShadowEntries, ShadowKeeps, ShadowEnds
<1>8. Shadow!GaugesExact
  <2>1. ASSUME NEW P, "pop" \notin P PROVE Shadow!Held(P) = 0
    <3>1. {v \in Workers : wpc[v] \in P} = {} BY <1>1, <2>1
    <3> QED BY <3>1, HeldIs, FS_EmptySet
  <2>2. \A P \in {AtPopped, AtRun, AtFence, AtWork} : Shadow!Held(P) = 0
    BY <2>1 DEF AtPopped, AtRun, AtFence, AtWork
  <2> QED BY <1>1, <1>2, <2>2, GaugesAre
<1> QED BY <1>3, <1>4, <1>5, <1>6, <1>7, <1>8 DEF ShadowInv

\* Every step keeps the invariant.
LEMMA ShadowInvStep == ASSUME ShadowInv, Shadow!Next PROVE ShadowInv'
<1>1. ShadowTypes /\ Shadow!GaugesExact BY DEF ShadowInv
<1>2. CASE Shadow!Composition
  <2>1. ShadowTypes' /\ Shadow!GaugesExact' BY <1>1, <1>2, ShadowTypesCompose, GaugesCompose
  <2>2. /\ ShadowHolds' /\ ShadowOnce' /\ ShadowStaged' /\ ShadowCancelled'
        /\ ShadowEntries' /\ ShadowKeeps' /\ ShadowEnds'
    BY <1>2, RegistryAside, RegistryStage, RegistrySupersede, RegistryCommit, RegistryEmptied
       DEF Shadow!Composition
  <2> QED BY <2>1, <2>2 DEF ShadowInv
<1>3. CASE \E w \in Workers : Shadow!Worker(w)
  <2>1. PICK w \in Workers : Shadow!Worker(w) BY <1>3
  <2>2. ShadowTypes' /\ Shadow!GaugesExact' BY <1>1, <2>1, ShadowTypesWork, GaugesWork
  <2>3. /\ ShadowHolds' /\ ShadowOnce' /\ ShadowStaged' /\ ShadowCancelled'
        /\ ShadowEntries' /\ ShadowKeeps' /\ ShadowEnds'
    BY <2>1, WorkerIs, RegistryBetween, RegistryPop, RegistryPublish
  <2> QED BY <2>2, <2>3 DEF ShadowInv
<1> QED BY <1>2, <1>3 DEF Shadow!Next

\* The invariant says that the gauges are exact, entries are live, jobs that
\* were not cancelled keep theirs and a shutdown leaves nothing.
LEMMA ShadowInvSays ==
    ASSUME ShadowInv
    PROVE  /\ Shadow!GaugesExact /\ Shadow!RegistryLive
           /\ Shadow!CurrentKeepsEntry /\ Shadow!ShutdownLeavesNothing
<1>1. /\ ShadowTypes /\ ShadowHolds /\ ShadowStaged /\ ShadowEntries /\ ShadowKeeps
      /\ ShadowEnds /\ Shadow!GaugesExact
  BY DEF ShadowInv
<1>2. DOMAIN queue = 1..Len(queue) BY <1>1 DEF ShadowTypes
<1>3. Shadow!RegistryLive
  BY <1>1, <1>2 DEF ShadowEntries, Shadow!RegistryLive, Shadow!Outstanding, Shadow!Queued,
     Shadow!Working, Shadow!None
<1>4. Shadow!CurrentKeepsEntry
  <2>1. \A j \in Shadow!Jobs : j # 0 BY WorkersFinite DEF Shadow!Jobs
  <2> QED BY <1>1, <1>2, <2>1 DEF ShadowKeeps, Shadow!CurrentKeepsEntry, Shadow!Outstanding,
         Shadow!Queued, Shadow!Working
<1>5. Shadow!ShutdownLeavesNothing
  <2>1. ASSUME comp = "ready", shuttingDown
        PROVE  /\ queue = <<>> /\ staged = 0
               /\ \A w \in Workers : wpc[w] = "exited"
               /\ \A k \in Keys : live[k] = 0
    BY <1>1, <2>1, WorkersFinite DEF ShadowEnds
  <2> QED BY <2>1 DEF Shadow!ShutdownLeavesNothing, Shadow!None
<1> QED BY <1>1, <1>3, <1>4, <1>5

\* Evidence is published of a chain's newest job only.
LEMMA PublishedIsFresh == ASSUME ShadowInv, Shadow!Next PROVE Shadow!PublishesFresh
<1>1. ShadowTypes /\ ShadowHolds /\ ShadowEntries BY DEF ShadowInv
<1>2. mailbox \in Seq(Completions) /\ Len(mailbox) \in Nat BY <1>1 DEF ShadowTypes
<1>3. CASE Shadow!Composition
  <2>1. \/ mailbox' = mailbox \/ mailbox' = <<>>
        \/ mailbox # <<>> /\ mailbox' = Tail(mailbox)
    BY <1>3 DEF Shadow!Composition, Shadow!Stage, Shadow!RouteFails, Shadow!Supersede,
       Shadow!CommitPush, Shadow!CommitNothing, Shadow!StartTick, Shadow!DrainOne,
       Shadow!DrainEnd, Shadow!ShutdownFlag, Shadow!Close, Shadow!NotifyAll,
       Shadow!CancelAll, Shadow!Join, Shadow!Drop
  <2>2. ~ (Len(mailbox') > Len(mailbox)) BY <1>2, <2>1, Shrinks, EmptySeq
  <2> QED BY <2>2 DEF Shadow!PublishesFresh
<1>4. ASSUME NEW w \in Workers, Shadow!Worker(w) PROVE Shadow!PublishesFresh
  <2>1. CASE Shadow!PopJob(w) \/ Between(w)
    <3>1. mailbox' = mailbox
      BY <2>1, BetweenIs DEF Shadow!PopJob, WorkerAside
    <3> QED BY <1>2, <3>1 DEF Shadow!PublishesFresh
  <2>2. CASE Shadow!Publish(w)
    <3>1. PICK c : c = [job |-> wjob[w], record |-> wrecord[w] /\ Shadow!Current(w)] OBVIOUS
    <3>2. mailbox' = mailbox \/ mailbox' = Append(mailbox, c) BY <2>2, <3>1, PublishIs
    <3>3. CASE mailbox' = mailbox BY <1>2, <3>3 DEF Shadow!PublishesFresh
    <3>4. CASE mailbox' = Append(mailbox, c)
      <4>1. c \in Completions
        <5>1. wjob[w] \in Nat /\ (wrecord[w] /\ Shadow!Current(w)) \in BOOLEAN
          BY <1>1 DEF ShadowTypes
        <5> QED BY <3>1, <5>1 DEF Completions
      <4>2. Shadow!Last(mailbox') = c
        BY <1>2, <3>4, <4>1, Grows DEF Shadow!Last
      <4>3. c.job = wjob[w] /\ (c.record => Shadow!Current(w)) BY <3>1
      <4>4. ASSUME Shadow!Current(w) PROVE newest[keyOf[wjob[w]]] = wjob[w]
        <5>1. live[keyOf[wjob[w]]] = wjob[w] BY <4>4 DEF Shadow!Current
        <5>2. wjob[w] # 0
          BY <1>1, <2>2, PublishIs DEF ShadowHolds, Idle
        <5>3. wjob[w] \in 1..Len(keyOf) BY <1>1, <5>2 DEF ShadowHolds, ShadowTypes
        <5>4. keyOf[wjob[w]] \in Keys BY <1>1, <5>3, ElementOfSeq DEF ShadowTypes
        <5> QED BY <1>1, <5>1, <5>2, <5>4 DEF ShadowEntries
      <4> QED BY <4>2, <4>3, <4>4 DEF Shadow!PublishesFresh
    <3> QED BY <3>2, <3>3, <3>4
  <2> QED BY <1>4, <2>1, <2>2, WorkerIs
<1> QED BY <1>3, <1>4 DEF Shadow!Next

\* The guarded invariant holds at the start, and every step keeps it.
LEMMA ShadowHoldsAllInit == Init => ShadowHoldsAll
BY ShadowInvInit DEF Init, ShadowHoldsAll

LEMMA ShadowHoldsAllStep ==
    ASSUME ShadowHoldsAll, [Next]_<<part, budgetVars, shadowVars, evidenceVars, routeVars,
                                   retrievalVars, speechVars>>
    PROVE  ShadowHoldsAll'
<1> SUFFICES ASSUME part' = "shadow" PROVE ShadowInv' BY DEF ShadowHoldsAll
<1>1. CASE Next
  <2>1. part = "shadow" BY <1>1 DEF Next
  <2>2. ShadowInv BY <2>1 DEF ShadowHoldsAll
  <2>3. Shadow!Next BY <1>1, <2>1 DEF Next
  <2> QED BY <2>2, <2>3, ShadowInvStep
<1>2. CASE UNCHANGED <<part, budgetVars, shadowVars, evidenceVars, routeVars,
                       retrievalVars, speechVars>>
  <2>1. part = "shadow" BY <1>2
  <2>2. ShadowInv BY <2>1 DEF ShadowHoldsAll
  <2>3. UNCHANGED <<keyOf, newest, staged, comp, queue, closed, live, cancelled, wpc, wjob,
                    wrecord, mailbox, shuttingDown, pending, running, awaiting, submitted,
                    completed, lost>>
    BY <1>2 DEF shadowVars
  <2>4. ShadowTypes' BY ONLY <2>2, <2>3 DEF ShadowInv, ShadowTypes
  <2>5. ShadowHolds' BY ONLY <2>2, <2>3 DEF ShadowInv, ShadowHolds
  <2>6. ShadowOnce' /\ ShadowCancelled' /\ ShadowEntries' /\ ShadowKeeps'
    BY ONLY <2>2, <2>3, RegistryKept DEF ShadowInv
  <2>7. ShadowStaged' BY ONLY <2>2, <2>3 DEF ShadowInv, ShadowStaged
  <2>8. ShadowEnds' BY ONLY <2>2, <2>3 DEF ShadowInv, ShadowEnds
  <2>9. Shadow!GaugesExact' BY <2>2, <2>3, GaugesAside DEF ShadowInv
  <2> QED BY <2>4, <2>5, <2>6, <2>7, <2>8, <2>9 DEF ShadowInv
<1> QED BY <1>1, <1>2

\* The gauges count exactly what is in each stage, the registry holds the
\* newest job of each chain while it is outstanding, a job that was not
\* cancelled keeps its entry and shutdown leaves nothing, for every pool,
\* queue and number of chains and events (shadow_orchestrator.rs).
THEOREM ShadowIsSound == Spec => []ShadowSound
<1>1. ShadowHoldsAll => ShadowSound BY ShadowInvSays DEF ShadowHoldsAll, ShadowSound
<1> QED BY <1>1, ShadowHoldsAllInit, ShadowHoldsAllStep, PTL DEF Spec

\* A step publishes evidence of a chain's newest job only.
LEMMA FreshStep ==
    ASSUME ShadowHoldsAll, [Next]_<<part, budgetVars, shadowVars, evidenceVars, routeVars,
                                   retrievalVars, speechVars>>
    PROVE  [part = "shadow" => Shadow!PublishesFresh]_shadowVars
<1> SUFFICES ASSUME part = "shadow", ~ UNCHANGED shadowVars PROVE Shadow!PublishesFresh
  OBVIOUS
<1>1. Next
  <2>1. UNCHANGED <<part, budgetVars, shadowVars, evidenceVars, routeVars,
                    retrievalVars, speechVars>>
        => UNCHANGED shadowVars
    OBVIOUS
  <2> QED BY <2>1
<1>2. Shadow!Next BY <1>1 DEF Next
<1> QED BY <1>2, PublishedIsFresh DEF ShadowHoldsAll

\* What was superseded is never published as evidence, however the fence, the
\* evaluation and supersession interleave (publish_fenced).
THEOREM NoStaleEvidenceIsDrained == Spec => NoStaleEvidence
BY ShadowHoldsAllInit, ShadowHoldsAllStep, FreshStep, PTL DEF Spec, NoStaleEvidence
=============================================================================
