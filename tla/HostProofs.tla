----------------------------- MODULE HostProofs ------------------------------
(***************************************************************************)
(* Proofs about the components of MCHost, for every value of their         *)
(* constants.  A component's part of the state is changed by its own steps *)
(* only, so that an invariant of the component, guarded by `part`, is one  *)
(* of the whole.                                                           *)
(***************************************************************************)
EXTENDS MCHost, FiniteSetTheorems, SequenceTheorems, TLAPS

(* Sequences                                                               *)

\* The head of one sequence moves to the end of another (Receive).
LEMMA TakeFront ==
    ASSUME NEW S, NEW r \in Seq(S), NEW q \in Seq(S), q # <<>>
    PROVE  Append(r, Head(q)) \o Tail(q) = r \o q
<1>1. Append(r, Head(q)) \in Seq(S) /\ Tail(q) \in Seq(S) /\ Head(q) \in S
  OBVIOUS
<1>2. Append(r, Head(q)) = r \o <<Head(q)>>
  BY <1>1, AppendIsConcat
<1>3. (r \o <<Head(q)>>) \o Tail(q) = r \o (<<Head(q)>> \o Tail(q))
  BY <1>1, ConcatAssociative, <<Head(q)>> \in Seq(S)
<1>4. <<Head(q)>> \o Tail(q) = q
  BY <1>1
<1> QED BY <1>2, <1>3, <1>4

\* What is sent to a queue is sent behind all that was taken from it.
LEMMA PutBack ==
    ASSUME NEW S, NEW r \in Seq(S), NEW q \in Seq(S), NEW x \in S
    PROVE  r \o Append(q, x) = Append(r \o q, x)
<1>1. <<x>> \in Seq(S) OBVIOUS
<1>2. Append(q, x) = q \o <<x>> BY AppendIsConcat
<1>3. r \o q \in Seq(S) OBVIOUS
<1>4. Append(r \o q, x) = (r \o q) \o <<x>> BY <1>3, AppendIsConcat
<1> QED BY <1>1, <1>2, <1>4, ConcatAssociative

\* A sequence without one of its places.
LEMMA DropsOne ==
    ASSUME NEW S, NEW s \in Seq(S), NEW k \in 1..Len(s)
    PROVE  LET t == SubSeq(s, 1, k - 1) \o SubSeq(s, k + 1, Len(s))
           IN /\ t \in Seq(S) /\ Len(t) = Len(s) - 1
              /\ \A i \in 1..(Len(s) - 1) : t[i] = IF i < k THEN s[i] ELSE s[i + 1]
<1>1. s \in Seq(S) /\ Len(s) \in Nat /\ \A i \in 1..Len(s) : s[i] \in S
  BY LenProperties, ElementOfSeq
<1>2. /\ SubSeq(s, 1, k - 1) \in Seq(S) /\ Len(SubSeq(s, 1, k - 1)) = k - 1
      /\ \A i \in 1..(k - 1) : SubSeq(s, 1, k - 1)[i] = s[i]
  <2>1. k - 1 \in Int /\ 1 \in Int /\ \A i \in 1..(k - 1) : s[i] \in S BY <1>1
  <2>2. /\ SubSeq(s, 1, k - 1) \in Seq(S)
        /\ Len(SubSeq(s, 1, k - 1)) = IF 1 <= k - 1 THEN k - 1 - 1 + 1 ELSE 0
        /\ \A i \in 1..(k - 1 - 1 + 1) : SubSeq(s, 1, k - 1)[i] = s[1 + i - 1]
    BY <2>1, SubSeqProperties
  <2> QED BY <2>2, <1>1
<1>3. /\ SubSeq(s, k + 1, Len(s)) \in Seq(S)
      /\ Len(SubSeq(s, k + 1, Len(s))) = Len(s) - k
      /\ \A i \in 1..(Len(s) - k) : SubSeq(s, k + 1, Len(s))[i] = s[k + i]
  <2>1. k + 1 \in Int /\ Len(s) \in Int /\ \A i \in (k + 1)..Len(s) : s[i] \in S BY <1>1
  <2>2. /\ SubSeq(s, k + 1, Len(s)) \in Seq(S)
        /\ Len(SubSeq(s, k + 1, Len(s)))
             = IF k + 1 <= Len(s) THEN Len(s) - (k + 1) + 1 ELSE 0
        /\ \A i \in 1..(Len(s) - (k + 1) + 1) : SubSeq(s, k + 1, Len(s))[i] = s[k + 1 + i - 1]
    BY <2>1, SubSeqProperties
  <2> QED BY <2>2, <1>1
<1> DEFINE a == SubSeq(s, 1, k - 1)
           b == SubSeq(s, k + 1, Len(s))
<1>4. /\ a \o b \in Seq(S) /\ Len(a \o b) = Len(a) + Len(b)
      /\ \A i \in 1..(Len(a) + Len(b)) :
            (a \o b)[i] = IF i <= Len(a) THEN a[i] ELSE b[i - Len(a)]
  BY <1>2, <1>3, ConcatProperties
<1> HIDE DEF a, b
<1>5. Len(a) = k - 1 /\ Len(b) = Len(s) - k BY <1>2, <1>3 DEF a, b
<1>6. ASSUME NEW i \in 1..(Len(s) - 1)
      PROVE  (a \o b)[i] = IF i < k THEN s[i] ELSE s[i + 1]
  <2>1. CASE i < k
    <3>1. (a \o b)[i] = a[i] BY <1>4, <1>5, <2>1, <1>1
    <3> QED BY <3>1, <2>1, <1>2, <1>1 DEF a
  <2>2. CASE i >= k
    <3>1. (a \o b)[i] = b[i - (k - 1)] /\ i - (k - 1) \in 1..(Len(s) - k) BY <1>4, <1>5, <2>2, <1>1
    <3>2. b[i - (k - 1)] = s[k + (i - (k - 1))] BY <3>1, <1>3 DEF b
    <3>3. k + (i - (k - 1)) = i + 1 BY <1>1
    <3> QED BY <3>1, <3>2, <3>3, <2>2, <1>1
  <2>3. i < k \/ i >= k BY <1>1
  <2> QED BY ONLY <2>1, <2>2, <2>3
<1>7. a \o b \in Seq(S) /\ Len(a \o b) = Len(s) - 1 BY <1>4, <1>5, <1>1
<1>8. \A i \in 1..(Len(s) - 1) : (a \o b)[i] = IF i < k THEN s[i] ELSE s[i + 1] BY ONLY <1>6
<1> QED BY ONLY <1>7, <1>8 DEF a, b

----------------------------------------------------------------------------
(* Raw ingress                                                             *)

\* The instance counts like FiniteSets.
LEMMA IngressCounts == ASSUME NEW S PROVE Ingress!Cardinality(S) = Cardinality(S)
BY DEF Ingress!Cardinality, Cardinality

Counters == [enqueued : Nat, full : Nat, oversize : Nat, errors : Nat, maxRetained : Nat]

\* The reader works on a line of the input, or on none behind the last.
IngressControl ==
    /\ pc \in {"read", "finish", "send", "count", "eof", "error", "disconnected"}
    /\ line \in 1..(MaxLines + 1)
    /\ sawInput => line <= MaxLines
    /\ pc \in {"finish", "send", "count"} => line <= MaxLines

IngressNumbers == retained \in Nat /\ total \in Nat /\ metrics \in Counters

IngressQueues == queue \in Seq(1..MaxLines) /\ received \in Seq(1..MaxLines)

\* What is retained is the line so far, until it is too long.
IngressSize ==
    /\ ~over => retained = total /\ total <= Ingress!RetainLimit
    /\ over => retained = Ingress!RetainLimit /\ total > Ingress!RetainLimit
    /\ metrics.maxRetained <= Ingress!RetainLimit

\* The last line the reader is done with.
Seen == IF pc = "count" THEN line ELSE line - 1

IngressOrder ==
    /\ DOMAIN dropped \subseteq 1..(line - 1)
    /\ \A i \in DOMAIN (received \o queue) : (received \o queue)[i] <= Seen
    /\ receiver \/ queue = <<>>
    /\ Ingress!InOrderWithoutLoss

IngressTypes == IngressControl /\ IngressNumbers /\ IngressQueues
IngressInv == IngressTypes /\ IngressSize /\ IngressOrder /\ Ingress!Accounting

\* The limits are positive numbers.
LEMMA IngressBounds ==
    /\ MaxRecordBytes \in Nat \ {0} /\ RawQueueCapacity \in Nat \ {0}
    /\ MaxBuffer \in Nat /\ MaxLineBytes \in Nat /\ MaxLines \in Nat
BY IngressAssumption DEF Ingress!BoundAssumption, Ingress!ConfigAssumption

\* A counter of the metrics may be set to any number.
LEMMA CountersSet ==
    ASSUME metrics \in Counters
    PROVE  /\ \A n \in Nat : /\ [metrics EXCEPT !.enqueued = n] \in Counters
                             /\ [metrics EXCEPT !.full = n] \in Counters
                             /\ [metrics EXCEPT !.oversize = n] \in Counters
                             /\ [metrics EXCEPT !.errors = n] \in Counters
                             /\ [metrics EXCEPT !.maxRetained = n] \in Counters
           /\ metrics.enqueued \in Nat /\ metrics.full \in Nat /\ metrics.oversize \in Nat
           /\ metrics.errors \in Nat /\ metrics.maxRetained \in Nat
BY DEF Counters

\* Reading starts on the first line with nothing retained.
LEMMA IngressTypesInit == Ingress!Init => IngressTypes
<1> SUFFICES ASSUME Ingress!Init PROVE IngressTypes OBVIOUS
<1>1. IngressControl BY IngressBounds DEF Ingress!Init, IngressControl
<1>2. IngressNumbers BY DEF Ingress!Init, IngressNumbers, Counters
<1>3. IngressQueues BY DEF Ingress!Init, IngressQueues
<1> QED BY <1>1, <1>2, <1>3 DEF IngressTypes

\* The reader stays on a line of the input.
LEMMA IngressControlStep == IngressControl /\ Ingress!Next => IngressControl'
<1> SUFFICES ASSUME IngressControl, Ingress!Next PROVE IngressControl' OBVIOUS
<1> USE IngressBounds DEF IngressControl, Ingress!record
<1>1. ASSUME NEW bytes \in 0..MaxBuffer, NEW newline \in BOOLEAN, NEW cr \in BOOLEAN,
             Ingress!FillBuffer(bytes, newline, cr)
      PROVE  IngressControl'
  BY <1>1 DEF Ingress!FillBuffer
<1>2. CASE Ingress!EndOfInput BY <1>2 DEF Ingress!EndOfInput
<1>3. CASE Ingress!ReadFails BY <1>3 DEF Ingress!ReadFails
<1>4. CASE Ingress!Finish BY <1>4 DEF Ingress!Finish, Ingress!NextRecord
<1>5. CASE Ingress!TrySendFull BY <1>5 DEF Ingress!TrySendFull, Ingress!NextRecord
<1>6. CASE Ingress!TrySend BY <1>6 DEF Ingress!TrySend
<1>7. CASE Ingress!CountEnqueued BY <1>7 DEF Ingress!CountEnqueued, Ingress!NextRecord
<1>8. CASE Ingress!TrySendDisconnected BY <1>8 DEF Ingress!TrySendDisconnected
<1>9. CASE Ingress!Receive BY <1>9 DEF Ingress!Receive
<1>10. CASE Ingress!DropReceiver BY <1>10 DEF Ingress!DropReceiver
<1>11. CASE Ingress!Done BY <1>11 DEF Ingress!Done, Ingress!vars
<1> QED
  BY <1>1, <1>2, <1>3, <1>4, <1>5, <1>6, <1>7, <1>8, <1>9, <1>10, <1>11 DEF Ingress!Next

\* The counters stay numbers.
LEMMA IngressNumbersStep == IngressNumbers /\ Ingress!Next => IngressNumbers'
<1> SUFFICES ASSUME IngressNumbers, Ingress!Next PROVE IngressNumbers' OBVIOUS
<1> USE IngressBounds, CountersSet DEF IngressNumbers, Ingress!record
<1>1. ASSUME NEW bytes \in 0..MaxBuffer, NEW newline \in BOOLEAN, NEW cr \in BOOLEAN,
             Ingress!FillBuffer(bytes, newline, cr)
      PROVE  IngressNumbers'
  <2>1. total' \in Nat /\ retained' \in Nat
    BY <1>1 DEF Ingress!FillBuffer, Ingress!Keep, Ingress!AtMost, Ingress!RetainLimit
  <2>2. metrics' \in Counters
    BY <2>1, <1>1 DEF Ingress!FillBuffer, Ingress!AtLeast
  <2> QED BY <2>1, <2>2
<1>2. CASE Ingress!EndOfInput BY <1>2 DEF Ingress!EndOfInput
<1>3. CASE Ingress!ReadFails
  <2>1. metrics' \in Counters BY <1>3 DEF Ingress!ReadFails, Counters
  <2> QED BY <2>1, <1>3 DEF Ingress!ReadFails
<1>4. CASE Ingress!Finish
  <2>1. metrics' \in Counters BY <1>4 DEF Ingress!Finish, Counters
  <2> QED BY <2>1, <1>4 DEF Ingress!Finish, Ingress!NextRecord
<1>5. CASE Ingress!TrySendFull
  <2>1. metrics' \in Counters BY <1>5 DEF Ingress!TrySendFull, Counters
  <2> QED BY <2>1, <1>5 DEF Ingress!TrySendFull, Ingress!NextRecord
<1>6. CASE Ingress!TrySend BY <1>6 DEF Ingress!TrySend
<1>7. CASE Ingress!CountEnqueued
  <2>1. metrics' \in Counters BY <1>7 DEF Ingress!CountEnqueued, Counters
  <2> QED BY <2>1, <1>7 DEF Ingress!CountEnqueued, Ingress!NextRecord
<1>8. CASE Ingress!TrySendDisconnected BY <1>8 DEF Ingress!TrySendDisconnected
<1>9. CASE Ingress!Receive BY <1>9 DEF Ingress!Receive
<1>10. CASE Ingress!DropReceiver BY <1>10 DEF Ingress!DropReceiver
<1>11. CASE Ingress!Done BY <1>11 DEF Ingress!Done, Ingress!vars
<1> QED
  BY <1>1, <1>2, <1>3, <1>4, <1>5, <1>6, <1>7, <1>8, <1>9, <1>10, <1>11 DEF Ingress!Next

\* The queues hold lines of the input.
LEMMA IngressQueuesStep ==
    IngressControl /\ IngressQueues /\ Ingress!Next => IngressQueues'
<1> SUFFICES ASSUME IngressControl, IngressQueues, Ingress!Next PROVE IngressQueues' OBVIOUS
<1> USE DEF IngressQueues
<1>1. CASE Ingress!TrySend
  <2>1. line \in 1..MaxLines BY <1>1, IngressBounds DEF Ingress!TrySend, IngressControl
  <2> QED BY <2>1, <1>1 DEF Ingress!TrySend
<1>2. CASE Ingress!Receive
  <2>1. Head(queue) \in 1..MaxLines /\ Tail(queue) \in Seq(1..MaxLines)
    BY <1>2, HeadTailProperties DEF Ingress!Receive
  <2> QED BY <2>1, <1>2 DEF Ingress!Receive
<1>3. CASE Ingress!DropReceiver BY <1>3 DEF Ingress!DropReceiver
<1>4. CASE UNCHANGED <<queue, received>> BY <1>4
<1> QED
  BY <1>1, <1>2, <1>3, <1>4
  DEF Ingress!Next, Ingress!FillBuffer, Ingress!EndOfInput, Ingress!ReadFails, Ingress!Finish,
      Ingress!TrySendFull, Ingress!CountEnqueued, Ingress!TrySendDisconnected, Ingress!Done,
      Ingress!vars

\* What is retained stays the line so far, or the limit once it is too long.
LEMMA IngressSizeStep == IngressNumbers /\ IngressSize /\ Ingress!Next => IngressSize'
<1> SUFFICES ASSUME IngressNumbers, IngressSize, Ingress!Next PROVE IngressSize' OBVIOUS
<1> USE IngressBounds, CountersSet DEF IngressNumbers, IngressSize, Ingress!RetainLimit
<1>1. ASSUME NEW bytes \in 0..MaxBuffer, NEW newline \in BOOLEAN, NEW cr \in BOOLEAN,
             Ingress!FillBuffer(bytes, newline, cr)
      PROVE  IngressSize'
  <2>1. CASE over BY <2>1, <1>1 DEF Ingress!FillBuffer
  <2>2. CASE ~over
    <3>1. total' = total + bytes /\ retained' = Ingress!Keep(retained, bytes)
          /\ over' = (total' > Ingress!RetainLimit)
          /\ metrics' = [metrics EXCEPT !.maxRetained = Ingress!AtLeast(@, retained')]
      BY <2>2, <1>1 DEF Ingress!FillBuffer
    <3>2. retained' = IF total' > MaxRecordBytes + 1 THEN MaxRecordBytes + 1 ELSE total'
      BY <2>2, <3>1 DEF Ingress!Keep, Ingress!AtMost
    <3>3. metrics'.maxRetained = Ingress!AtLeast(metrics.maxRetained, retained')
      BY <3>1 DEF Counters
    <3>4. metrics'.maxRetained <= MaxRecordBytes + 1
      BY <3>2, <3>3, <3>1 DEF Ingress!AtLeast
    <3>5. over' <=> total' > MaxRecordBytes + 1 BY <3>1
    <3> QED BY <3>1, <3>2, <3>4, <3>5
  <2> QED BY <2>1, <2>2
<1>2. CASE Ingress!Finish
  <2>1. metrics'.maxRetained = metrics.maxRetained BY <1>2 DEF Ingress!Finish, Counters
  <2> QED BY <2>1, <1>2 DEF Ingress!Finish, Ingress!NextRecord, Ingress!record
<1>3. CASE Ingress!TrySendFull
  <2>1. metrics'.maxRetained = metrics.maxRetained BY <1>3 DEF Ingress!TrySendFull, Counters
  <2> QED BY <2>1, <1>3 DEF Ingress!TrySendFull, Ingress!NextRecord
<1>4. CASE Ingress!CountEnqueued
  <2>1. metrics'.maxRetained = metrics.maxRetained BY <1>4 DEF Ingress!CountEnqueued, Counters
  <2> QED BY <2>1, <1>4 DEF Ingress!CountEnqueued, Ingress!NextRecord
<1>5. CASE Ingress!ReadFails
  <2>1. metrics'.maxRetained = metrics.maxRetained BY <1>5 DEF Ingress!ReadFails, Counters
  <2> QED BY <2>1, <1>5 DEF Ingress!ReadFails, Ingress!record
<1>6. CASE UNCHANGED <<Ingress!record, metrics>> BY <1>6 DEF Ingress!record
<1> QED
  BY <1>1, <1>2, <1>3, <1>4, <1>5, <1>6
  DEF Ingress!Next, Ingress!EndOfInput, Ingress!TrySend, Ingress!TrySendDisconnected,
      Ingress!Receive, Ingress!DropReceiver, Ingress!Done, Ingress!vars, Ingress!record
\* The lines dropped for a reason.
DropCount(why) == Ingress!Cardinality({n \in DOMAIN dropped : dropped[n] = why})

\* Ingress!Accounting, in these terms.
Accounted ==
    /\ receiver => Len(received) + Len(queue) = Ingress!SentCount
    /\ Len(received) <= Ingress!SentCount
    /\ metrics.full = DropCount("full")
    /\ metrics.oversize = DropCount("oversize")
    /\ Ingress!SentCount + metrics.full + metrics.oversize = Seen

\* The count of lines in the terms of this module.
LEMMA AccountedIs == (Ingress!Accounting <=> Accounted) /\ (Ingress!Accounting' <=> Accounted')
<1>1. Ingress!Accounting <=> Accounted
  BY DEF Ingress!Accounting, Accounted, DropCount, Seen
<1>2. Ingress!Accounting' <=> Accounted'
  BY <1>1, PTL
<1> QED BY <1>1, <1>2

\* The lines counted under one reason are one more when a line that was not
\* done before is dropped for it, and as many when it is for another.
LEMMA DroppedOneMore ==
    ASSUME NEW n \in Nat, DOMAIN dropped \subseteq 1..(n - 1), NEW why, NEW reason,
           DOMAIN dropped' = DOMAIN dropped \cup {n},
           dropped'[n] = why, \A m \in DOMAIN dropped : dropped'[m] = dropped[m]
    PROVE  /\ why = reason => DropCount(reason)' = DropCount(reason) + 1
           /\ why # reason => DropCount(reason)' = DropCount(reason)
<1> DEFINE D == {k \in DOMAIN dropped : dropped[k] = reason}
           E == {k \in DOMAIN dropped' : dropped'[k] = reason}
<1>1. IsFiniteSet(D) /\ n \notin D
  <2>1. D \subseteq 1..(n - 1) /\ n \notin 1..(n - 1) OBVIOUS
  <2>2. IsFiniteSet(1..(n - 1)) BY FS_Interval
  <2> QED BY <2>1, <2>2, FS_Subset
<1>2. E = IF why = reason THEN D \cup {n} ELSE D
  <2>1. n \notin DOMAIN dropped OBVIOUS
  <2> QED BY <2>1
<1>3. Cardinality(D) \in Nat BY <1>1, FS_CardinalityType
<1>4. Cardinality(D \cup {n}) = Cardinality(D) + 1 BY <1>1, FS_AddElement
<1>5. /\ why = reason => Cardinality(E) = Cardinality(D) + 1
      /\ why # reason => Cardinality(E) = Cardinality(D)
  <2> HIDE DEF D, E
  <2> QED BY <1>2, <1>3, <1>4
<1>6. DropCount(reason) = Cardinality(D) /\ DropCount(reason)' = Cardinality(E)
  BY IngressCounts, Zenon DEF DropCount
<1> QED BY <1>5, <1>6
\* Every line is counted under what became of it.
LEMMA IngressAccountingStep ==
    IngressTypes /\ IngressOrder /\ Ingress!Accounting /\ Ingress!Next
        => Ingress!Accounting'
<1> SUFFICES ASSUME IngressTypes, IngressOrder, Accounted, Ingress!Next
             PROVE  Accounted'
  BY AccountedIs
<1>c. metrics \in Counters /\ metrics.enqueued \in Nat /\ metrics.full \in Nat
      /\ metrics.oversize \in Nat
  BY CountersSet DEF IngressTypes, IngressNumbers
<1>s. queue \in Seq(1..MaxLines) /\ received \in Seq(1..MaxLines)
      /\ Len(queue) \in Nat /\ Len(received) \in Nat
  BY LenProperties DEF IngressTypes, IngressQueues
<1>l. line \in Nat /\ DOMAIN dropped \subseteq 1..(line - 1)
  BY IngressBounds DEF IngressTypes, IngressControl, IngressOrder
<1>n. Ingress!SentCount \in Nat /\ Seen \in Int
  BY <1>c, <1>l DEF Ingress!SentCount, Seen
<1>t. /\ line \in Nat /\ metrics \in Counters /\ DOMAIN dropped \subseteq 1..(line - 1)
      /\ queue \in Seq(1..MaxLines) /\ received \in Seq(1..MaxLines)
      /\ Len(queue) \in Nat /\ Len(received) \in Nat
      /\ metrics.enqueued \in Nat /\ metrics.full \in Nat /\ metrics.oversize \in Nat
      /\ Ingress!SentCount \in Nat /\ Seen \in Int
  BY <1>c, <1>s, <1>l, <1>n
<1>i. /\ Len(queue) \in Nat /\ Len(received) \in Nat
      /\ metrics.enqueued \in Nat /\ metrics.full \in Nat /\ metrics.oversize \in Nat
      /\ Ingress!SentCount \in Nat /\ Seen \in Int
  BY <1>t
<1>1. CASE Ingress!Finish /\ Ingress!Oversized
  <2>0. line \notin DOMAIN dropped BY <1>t
  <2>1. /\ pc = "finish" /\ pc' = "read" /\ line' = line + 1
        /\ metrics' = [metrics EXCEPT !.oversize = @ + 1]
        /\ DOMAIN dropped' = DOMAIN dropped \cup {line}
        /\ dropped'[line] = "oversize" /\ \A m \in DOMAIN dropped : dropped'[m] = dropped[m]
        /\ UNCHANGED <<queue, receiver, received>>
    BY <1>1, <2>0 DEF Ingress!Finish, Ingress!NextRecord
  <2>2. DropCount("full")' = DropCount("full")
    BY <2>1, <1>t, DroppedOneMore
  <2>3. DropCount("oversize")' = DropCount("oversize") + 1
    BY <2>1, <1>t, DroppedOneMore
  <2>4. /\ metrics'.enqueued = metrics.enqueued /\ metrics'.full = metrics.full
        /\ metrics'.oversize = metrics.oversize + 1
    BY <2>1, <1>t DEF Counters
  <2>5. Ingress!SentCount' = Ingress!SentCount /\ Seen' = Seen + 1
    BY <2>1, <2>4, <1>t DEF Ingress!SentCount, Seen
  <2> QED BY <2>1, <2>2, <2>3, <2>4, <2>5, <1>t DEF Accounted
<1>2. CASE Ingress!TrySendFull
  <2>0. line \notin DOMAIN dropped BY <1>t
  <2>1. /\ pc = "send" /\ pc' = "read" /\ line' = line + 1
        /\ metrics' = [metrics EXCEPT !.full = @ + 1]
        /\ DOMAIN dropped' = DOMAIN dropped \cup {line}
        /\ dropped'[line] = "full" /\ \A m \in DOMAIN dropped : dropped'[m] = dropped[m]
        /\ UNCHANGED <<queue, receiver, received>>
    BY <1>2, <2>0 DEF Ingress!TrySendFull, Ingress!NextRecord
  <2>2. DropCount("full")' = DropCount("full") + 1
    BY <2>1, <1>t, DroppedOneMore
  <2>3. DropCount("oversize")' = DropCount("oversize")
    BY <2>1, <1>t, DroppedOneMore
  <2>4. /\ metrics'.enqueued = metrics.enqueued /\ metrics'.full = metrics.full + 1
        /\ metrics'.oversize = metrics.oversize
    BY <2>1, <1>t DEF Counters
  <2>5. Ingress!SentCount' = Ingress!SentCount /\ Seen' = Seen + 1
    BY <2>1, <2>4, <1>t DEF Ingress!SentCount, Seen
  <2> QED BY <2>1, <2>2, <2>3, <2>4, <2>5, <1>t DEF Accounted
<1>3. CASE Ingress!TrySend
  <2>1. /\ pc = "send" /\ pc' = "count" /\ receiver /\ queue' = Append(queue, line)
        /\ UNCHANGED <<line, dropped, metrics, receiver, received>>
    BY <1>3 DEF Ingress!TrySend, Ingress!record
  <2>2. DropCount("full")' = DropCount("full")
    BY <2>1, <1>t DEF DropCount
  <2>3. DropCount("oversize")' = DropCount("oversize")
    BY <2>1, <1>t DEF DropCount
  <2>4. /\ metrics'.enqueued = metrics.enqueued /\ metrics'.full = metrics.full
        /\ metrics'.oversize = metrics.oversize
    BY <2>1, <1>t DEF Counters
  <2>5. Ingress!SentCount' = Ingress!SentCount + 1 /\ Seen' = Seen + 1
    BY <2>1, <2>4, <1>t DEF Ingress!SentCount, Seen
  <2>6. Len(queue') = Len(queue) + 1 /\ Len(received') = Len(received) /\ receiver
    BY <2>1, <1>t
  <2>7. receiver' => Len(received') + Len(queue') = Ingress!SentCount'
    BY ONLY Accounted, <2>5, <2>6, <1>i DEF Accounted
  <2>8. Len(received') <= Ingress!SentCount'
    BY ONLY Accounted, <2>5, <2>6, <1>i DEF Accounted
  <2>9. metrics'.full = DropCount("full")' /\ metrics'.oversize = DropCount("oversize")'
    BY ONLY Accounted, <2>2, <2>3, <2>4, <1>i DEF Accounted
  <2>10. Ingress!SentCount' + metrics'.full + metrics'.oversize = Seen'
    BY ONLY Accounted, <2>4, <2>5, <1>i DEF Accounted
  <2> QED BY <2>7, <2>8, <2>9, <2>10 DEF Accounted
<1>4. CASE Ingress!CountEnqueued
  <2>1. /\ pc = "count" /\ pc' = "read" /\ line' = line + 1
        /\ metrics' = [metrics EXCEPT !.enqueued = @ + 1]
        /\ UNCHANGED <<dropped, receiver, received, queue>>
    BY <1>4 DEF Ingress!CountEnqueued, Ingress!NextRecord
  <2>2. DropCount("full")' = DropCount("full")
    BY <2>1, <1>t DEF DropCount
  <2>3. DropCount("oversize")' = DropCount("oversize")
    BY <2>1, <1>t DEF DropCount
  <2>4. /\ metrics'.enqueued = metrics.enqueued + 1 /\ metrics'.full = metrics.full
        /\ metrics'.oversize = metrics.oversize
    BY <2>1, <1>t DEF Counters
  <2>5. Ingress!SentCount' = Ingress!SentCount /\ Seen' = Seen
    BY <2>1, <2>4, <1>t DEF Ingress!SentCount, Seen
  <2> QED BY <2>1, <2>2, <2>3, <2>4, <2>5, <1>t DEF Accounted
<1>5. CASE Ingress!Receive
  <2>1. /\ received' = Append(received, Head(queue)) /\ queue' = Tail(queue)
        /\ queue # <<>> /\ receiver
        /\ UNCHANGED <<pc, line, metrics, receiver, dropped>>
    BY <1>5 DEF Ingress!Receive, Ingress!record
  <2>2. DropCount("full")' = DropCount("full")
    BY <2>1, <1>t DEF DropCount
  <2>3. DropCount("oversize")' = DropCount("oversize")
    BY <2>1, <1>t DEF DropCount
  <2>4. /\ metrics'.enqueued = metrics.enqueued /\ metrics'.full = metrics.full
        /\ metrics'.oversize = metrics.oversize
    BY <2>1, <1>t DEF Counters
  <2>5. Ingress!SentCount' = Ingress!SentCount /\ Seen' = Seen
    BY <2>1, <2>4, <1>t DEF Ingress!SentCount, Seen
  <2>6. Len(received') = Len(received) + 1 /\ Len(queue') = Len(queue) - 1
        /\ Len(queue) > 0 /\ receiver
    BY <2>1, <1>t
  <2>7. receiver' => Len(received') + Len(queue') = Ingress!SentCount'
    BY ONLY Accounted, <2>5, <2>6, <1>i DEF Accounted
  <2>8. Len(received') <= Ingress!SentCount'
    BY ONLY Accounted, <2>5, <2>6, <1>i DEF Accounted
  <2>9. metrics'.full = DropCount("full")' /\ metrics'.oversize = DropCount("oversize")'
    BY ONLY Accounted, <2>2, <2>3, <2>4, <1>i DEF Accounted
  <2>10. Ingress!SentCount' + metrics'.full + metrics'.oversize = Seen'
    BY ONLY Accounted, <2>4, <2>5, <1>i DEF Accounted
  <2> QED BY <2>7, <2>8, <2>9, <2>10 DEF Accounted
<1>6. CASE Ingress!DropReceiver
  <2>1. /\ ~receiver'
        /\ UNCHANGED <<pc, line, metrics, received, dropped>>
    BY <1>6 DEF Ingress!DropReceiver, Ingress!record
  <2>2. DropCount("full")' = DropCount("full")
    BY <2>1, <1>t DEF DropCount
  <2>3. DropCount("oversize")' = DropCount("oversize")
    BY <2>1, <1>t DEF DropCount
  <2>4. /\ metrics'.enqueued = metrics.enqueued /\ metrics'.full = metrics.full
        /\ metrics'.oversize = metrics.oversize
    BY <2>1, <1>t DEF Counters
  <2>5. Ingress!SentCount' = Ingress!SentCount /\ Seen' = Seen
    BY <2>1, <2>4, <1>t DEF Ingress!SentCount, Seen
  <2> QED BY <2>1, <2>2, <2>3, <2>4, <2>5, <1>t DEF Accounted
<1>7. ASSUME pc = "count" <=> pc' = "count",
             UNCHANGED <<line, queue, receiver, received, dropped>>,
             metrics'.enqueued = metrics.enqueued, metrics'.full = metrics.full,
             metrics'.oversize = metrics.oversize
      PROVE  Accounted'
  <2>1. DropCount("full")' = DropCount("full") /\ DropCount("oversize")' = DropCount("oversize")
    BY <1>7 DEF DropCount
  <2>2. Ingress!SentCount' = Ingress!SentCount /\ Seen' = Seen
    BY <1>7, <1>t DEF Ingress!SentCount, Seen
  <2> QED BY <1>7, <2>1, <2>2 DEF Accounted
<1>8. ASSUME NEW bytes \in 0..MaxBuffer, NEW newline \in BOOLEAN, NEW cr \in BOOLEAN,
             Ingress!FillBuffer(bytes, newline, cr)
      PROVE  Accounted'
  BY <1>8, <1>7, <1>t DEF Ingress!FillBuffer, Counters
<1>9. CASE Ingress!EndOfInput BY <1>9, <1>7 DEF Ingress!EndOfInput, Ingress!record
<1>10. CASE Ingress!ReadFails
  BY <1>10, <1>7, <1>t DEF Ingress!ReadFails, Ingress!record, Counters
<1>11. CASE Ingress!Finish /\ ~Ingress!Oversized
  BY <1>11, <1>7 DEF Ingress!Finish, Ingress!record
<1>12. CASE Ingress!TrySendDisconnected
  BY <1>12, <1>7 DEF Ingress!TrySendDisconnected, Ingress!record
<1>13. CASE Ingress!Done BY <1>13, <1>7 DEF Ingress!Done, Ingress!vars
<1> QED
  BY <1>1, <1>2, <1>3, <1>4, <1>5, <1>6, <1>8, <1>9, <1>10, <1>11, <1>12, <1>13
  DEF Ingress!Next

\* What the loop has taken and what is queued, as one sequence.
Taken == received \o queue

\* What was received and what is queued are lines of the input.
LEMMA TakenTyped ==
    ASSUME IngressQueues
    PROVE  /\ Taken \in Seq(1..MaxLines) /\ Len(Taken) = Len(received) + Len(queue)
           /\ DOMAIN Taken = 1..Len(Taken) /\ Len(Taken) \in Nat
           /\ \A i \in 1..Len(Taken) : Taken[i] \in 1..MaxLines
BY ConcatProperties, LenProperties, ElementOfSeq DEF IngressQueues, Taken

\* Ingress!InOrderWithoutLoss and what it needs, over Taken.
Ordered ==
    /\ DOMAIN dropped \subseteq 1..(line - 1)
    /\ \A i \in DOMAIN Taken : Taken[i] <= Seen
    /\ receiver \/ queue = <<>>
    /\ \A i, j \in DOMAIN Taken : i < j => Taken[i] < Taken[j]
    /\ receiver => \A n \in Int :
          n \in 1..Seen /\ n \notin DOMAIN dropped <=> \E i \in DOMAIN Taken : Taken[i] = n

\* The order of lines in the terms of this module.
LEMMA OrderedIs ==
    /\ IngressTypes => (IngressOrder <=> Ordered)
    /\ IngressTypes' => (IngressOrder' <=> Ordered')
<1>1. IngressTypes => (IngressOrder <=> Ordered)
  <2> SUFFICES ASSUME IngressTypes PROVE IngressOrder <=> Ordered OBVIOUS
  <2>1. DOMAIN Taken = 1..Len(Taken) /\ \A i \in DOMAIN Taken : Taken[i] \in 1..MaxLines
    BY TakenTyped DEF IngressTypes
  <2>2. {Taken[i] : i \in DOMAIN Taken} = (1..Seen) \ DOMAIN dropped
          <=> \A n \in Int :
                n \in 1..Seen /\ n \notin DOMAIN dropped <=> \E i \in DOMAIN Taken : Taken[i] = n
    BY <2>1
  <2> QED BY <2>2 DEF IngressOrder, Ordered, Ingress!InOrderWithoutLoss, Taken, Seen
<1>2. IngressTypes' => (IngressOrder' <=> Ordered')
  BY <1>1, PTL
<1> QED BY <1>1, <1>2

\* Lines are queued and received in their order.
LEMMA IngressOrderStep ==
    IngressTypes /\ IngressTypes' /\ IngressOrder /\ Ingress!Next => IngressOrder'
<1> SUFFICES ASSUME IngressTypes, IngressTypes', Ordered, Ingress!Next
             PROVE  Ordered'
  BY OrderedIs
<1>t. /\ line \in Nat \ {0} /\ Seen \in Nat /\ DOMAIN Taken = 1..Len(Taken) /\ Len(Taken) \in Nat
      /\ \A i \in 1..Len(Taken) : Taken[i] \in 1..MaxLines
      /\ received \in Seq(1..MaxLines) /\ queue \in Seq(1..MaxLines)
  BY TakenTyped, IngressBounds DEF IngressTypes, IngressControl, IngressQueues, Seen
\* The reader is done with one more line, dropped or sent.
<1>1. ASSUME Taken' = Taken, Seen' = Seen + 1, line' = line + 1, Seen = line - 1,
             UNCHANGED <<receiver, queue>>,
             DOMAIN dropped' = DOMAIN dropped \cup {line}
      PROVE  Ordered'
  BY <1>1, <1>t DEF Ordered
<1>2. ASSUME Taken' = Append(Taken, line), Seen' = line, line' = line, Seen = line - 1,
             receiver, receiver', UNCHANGED dropped
      PROVE  Ordered'
  <2>1. line \in 1..MaxLines \cup {line} OBVIOUS
  <2>2. /\ DOMAIN Taken' = 1..(Len(Taken) + 1)
        /\ Taken'[Len(Taken) + 1] = line
        /\ \A i \in 1..Len(Taken) : Taken'[i] = Taken[i]
    BY <1>2, <1>t
  <2>3. \A i \in DOMAIN Taken' : Taken'[i] <= Seen'
    BY <2>2, <1>2, <1>t DEF Ordered
  <2>4. \A i, j \in DOMAIN Taken' : i < j => Taken'[i] < Taken'[j]
    BY <2>2, <1>2, <1>t DEF Ordered
  <2>5. ASSUME NEW n \in Int
        PROVE  n \in 1..Seen' /\ n \notin DOMAIN dropped'
                 <=> \E i \in DOMAIN Taken' : Taken'[i] = n
    <3>1. CASE n = line
      <4>1. n \in 1..Seen' /\ n \notin DOMAIN dropped' BY <3>1, <1>2, <1>t DEF Ordered
      <4>2. Len(Taken) + 1 \in DOMAIN Taken' /\ Taken'[Len(Taken) + 1] = n BY <3>1, <2>2, <1>t
      <4> QED BY <4>1, <4>2
    <3>2. CASE n # line
      <4>1. n \in 1..Seen /\ n \notin DOMAIN dropped <=> \E i \in DOMAIN Taken : Taken[i] = n
        BY <1>2 DEF Ordered
      <4>2. n \in 1..Seen' <=> n \in 1..Seen BY <1>2, <1>t, <3>2
      <4>3. (\E i \in DOMAIN Taken' : Taken'[i] = n) <=> (\E i \in DOMAIN Taken : Taken[i] = n)
        BY <2>2, <3>2, <1>t
      <4> QED BY <4>1, <4>2, <4>3, <1>2
    <3> QED BY <3>1, <3>2
  <2> QED BY <2>3, <2>4, <2>5, <1>2 DEF Ordered
<1>3. ASSUME Taken' = Taken, Seen' = Seen, line' >= line, line' \in Nat,
             UNCHANGED <<receiver, dropped>>, receiver \/ queue' = <<>>
      PROVE  Ordered'
  BY <1>3, <1>t DEF Ordered
<1>4. CASE Ingress!Receive
  <2>1. Taken' = Taken BY <1>4, <1>t, TakeFront DEF Ingress!Receive, Taken
  <2> QED BY <2>1, <1>3, <1>4, <1>t DEF Ingress!Receive, Ingress!record, Seen
<1>5. CASE Ingress!DropReceiver
  <2>1. Taken' = received BY <1>5, <1>t, ConcatEmptySeq DEF Ingress!DropReceiver, Taken
  <2>2. /\ DOMAIN Taken' \subseteq DOMAIN Taken
        /\ \A i \in DOMAIN Taken' : Taken'[i] = Taken[i]
    BY <2>1, <1>t, ConcatProperties, LenProperties DEF Taken
  <2> QED BY <2>2, <1>5, <1>t DEF Ingress!DropReceiver, Ingress!record, Seen, Ordered
<1>6. CASE Ingress!TrySend
  <2>1. line \in 1..MaxLines
    BY <1>6, <1>t DEF Ingress!TrySend, IngressTypes, IngressControl
  <2>2. Taken' = Append(Taken, line)
    BY <2>1, <1>6, <1>t, PutBack DEF Ingress!TrySend, Taken
  <2> QED BY <2>2, <1>2, <1>6, <1>t DEF Ingress!TrySend, Ingress!record, Seen
<1>7. CASE Ingress!CountEnqueued
  <2>1. Taken' = Taken /\ Seen' = Seen /\ line' = line + 1
    BY <1>7, <1>t DEF Ingress!CountEnqueued, Ingress!NextRecord, Taken, Seen
  <2> QED BY <2>1, <1>3, <1>7, <1>t DEF Ingress!CountEnqueued, Ordered
<1>8. CASE Ingress!TrySendFull
  <2>1. Taken' = Taken /\ Seen' = Seen + 1 /\ line' = line + 1 /\ Seen = line - 1
    BY <1>8, <1>t DEF Ingress!TrySendFull, Ingress!NextRecord, Taken, Seen
  <2> QED BY <2>1, <1>1, <1>8 DEF Ingress!TrySendFull
<1>9. CASE Ingress!Finish /\ Ingress!Oversized
  <2>1. Taken' = Taken /\ Seen' = Seen + 1 /\ line' = line + 1 /\ Seen = line - 1
    BY <1>9, <1>t DEF Ingress!Finish, Ingress!NextRecord, Taken, Seen
  <2> QED BY <2>1, <1>1, <1>9 DEF Ingress!Finish
<1>10. CASE UNCHANGED <<line, queue, receiver, received, dropped>> /\ (pc = "count" <=> pc' = "count")
  <2>1. Taken' = Taken /\ Seen' = Seen BY <1>10 DEF Taken, Seen
  <2> QED BY <2>1, <1>3, <1>10, <1>t DEF Ordered
<1> QED
  BY <1>4, <1>5, <1>6, <1>7, <1>8, <1>9, <1>10
  DEF Ingress!Next, Ingress!FillBuffer, Ingress!EndOfInput, Ingress!ReadFails, Ingress!Finish,
      Ingress!TrySendDisconnected, Ingress!Done, Ingress!vars, Ingress!record

\* The invariant holds before anything is read.
LEMMA IngressInvInit == Ingress!Init => IngressInv
<1> SUFFICES ASSUME Ingress!Init PROVE IngressInv OBVIOUS
<1>1. IngressTypes BY IngressTypesInit
<1>2. IngressSize BY IngressBounds DEF Ingress!Init, IngressSize, Ingress!RetainLimit
<1>3. DOMAIN dropped = {} /\ Seen = 0 /\ received = <<>> /\ queue = <<>> /\ line = 1
      /\ receiver = TRUE /\ pc = "read" /\ metrics.enqueued = 0 /\ metrics.full = 0
      /\ metrics.oversize = 0
  BY DEF Ingress!Init, Seen
<1>4. Taken = <<>> BY <1>3, ConcatEmptySeq DEF Taken
<1>5. Ordered BY <1>3, <1>4 DEF Ordered
<1>6. Accounted
  <2>1. DropCount("full") = 0 /\ DropCount("oversize") = 0
    <3>1. {n \in DOMAIN dropped : dropped[n] = "full"} = {}
          /\ {n \in DOMAIN dropped : dropped[n] = "oversize"} = {}
      BY <1>3
    <3> QED BY <3>1, IngressCounts, FS_EmptySet DEF DropCount
  <2> QED BY <1>3, <2>1 DEF Accounted, Ingress!SentCount
<1> QED BY <1>1, <1>2, <1>5, <1>6, OrderedIs, AccountedIs DEF IngressInv

\* It is kept by every step of reader and receiver.
LEMMA IngressInvStep == IngressInv /\ Ingress!Next => IngressInv'
BY IngressControlStep, IngressNumbersStep, IngressQueuesStep, IngressSizeStep,
   IngressOrderStep, IngressAccountingStep DEF IngressInv, IngressTypes

\* What the invariant says of the run's properties.
LEMMA IngressInvSound ==
    IngressInv => /\ Ingress!RetentionBounded /\ Ingress!SizeVerdictExact
                  /\ Ingress!Accounting /\ Ingress!InOrderWithoutLoss
<1> SUFFICES ASSUME IngressInv
             PROVE  Ingress!RetentionBounded /\ Ingress!SizeVerdictExact
  BY DEF IngressInv, IngressOrder
<1>1. IngressSize /\ IngressNumbers BY DEF IngressInv, IngressTypes
<1>2. Ingress!RetentionBounded
  BY <1>1, IngressBounds DEF IngressSize, Ingress!RetentionBounded, Ingress!RetainLimit
<1>3. Ingress!SizeVerdictExact
  <2>1. CASE over
    BY <2>1, <1>1, IngressBounds
    DEF IngressSize, IngressNumbers, Ingress!SizeVerdictExact, Ingress!Oversized, Ingress!RetainLimit
  <2>2. CASE ~over
    BY <2>2, <1>1, IngressBounds
    DEF IngressSize, IngressNumbers, Ingress!SizeVerdictExact, Ingress!Oversized, Ingress!RetainLimit
  <2> QED BY <2>1, <2>2
<1> QED BY <1>2, <1>3

\* What the reader retains is bounded whatever arrives in whatever buffers, a
\* record is refused for its size exactly when it is too long, and every line
\* is taken, queued in input order, or counted under one reason
\* (raw_ingress.rs).
THEOREM IngressIsSound == Spec => []IngressSound
<1> DEFINE Inv == part = "ingress" => IngressInv
<1>1. Init => Inv BY IngressInvInit DEF Init
<1>2. Inv /\ [Next]_<<part, ingressVars, loopVars, securityVars, pathVars, linkVars>> => Inv'
  <2> SUFFICES ASSUME Inv, part' = "ingress",
                      [Next]_<<part, ingressVars, loopVars, securityVars, pathVars, linkVars>>
               PROVE  IngressInv'
    OBVIOUS
  <2>1. part' = part BY DEF Next
  <2>2. IngressInv BY <2>1
  <2>3. CASE Ingress!Next BY <2>2, <2>3, IngressInvStep
  <2>4. CASE UNCHANGED ingressVars
    BY <2>2, <2>4
    DEF ingressVars, IngressInv, IngressTypes, IngressControl, IngressNumbers, IngressQueues,
        IngressSize, IngressOrder, Seen, Ingress!InOrderWithoutLoss, Ingress!Accounting,
        Ingress!SentCount
  <2> QED BY <2>1, <2>3, <2>4 DEF Next
<1>3. Inv => IngressSound BY IngressInvSound DEF IngressSound
<1> QED BY <1>1, <1>2, <1>3, PTL DEF Spec

----------------------------------------------------------------------------
(* The main loop and the operator endpoint                                 *)

\* The instance counts like FiniteSets.
LEMMA LoopCounts == ASSUME NEW S PROVE Loop!Cardinality(S) = Cardinality(S)
BY DEF Loop!Cardinality, Cardinality

\* A queue that holds each member of a set once and nothing else.
Lists(s, S) ==
    /\ s \in Seq(Connections)
    /\ \A i, j \in 1..Len(s) : s[i] = s[j] => i = j
    /\ \A c \in Connections : c \in S <=> \E i \in 1..Len(s) : s[i] = c

\* Entering a queue at its end (dispatcher.send).
LEMMA ListsAppend ==
    ASSUME NEW s, NEW S, NEW c \in Connections, Lists(s, S), c \notin S
    PROVE  Lists(Append(s, c), S \cup {c})
<1>1. s \in Seq(Connections) /\ Len(s) \in Nat BY LenProperties DEF Lists
<1>2. /\ Append(s, c) \in Seq(Connections) /\ Len(Append(s, c)) = Len(s) + 1
      /\ \A i \in 1..Len(s) : Append(s, c)[i] = s[i]
      /\ Append(s, c)[Len(s) + 1] = c
  BY <1>1, AppendProperties
<1>3. \A i \in 1..Len(s) : s[i] # c BY DEF Lists
<1>4. \A i, j \in 1..Len(Append(s, c)) : Append(s, c)[i] = Append(s, c)[j] => i = j
  BY <1>1, <1>2, <1>3 DEF Lists
<1>5. ASSUME NEW d \in Connections
      PROVE  d \in S \cup {c} <=> \E i \in 1..Len(Append(s, c)) : Append(s, c)[i] = d
  <2>1. CASE d = c
    <3>1. Len(s) + 1 \in 1..Len(Append(s, c)) BY <1>1, <1>2
    <3> QED BY <3>1, <2>1, <1>2
  <2>2. CASE d # c
    <3>1. (\E i \in 1..Len(Append(s, c)) : Append(s, c)[i] = d) <=> \E i \in 1..Len(s) : s[i] = d
      BY <2>2, <1>1, <1>2
    <3> QED BY <3>1, <2>2 DEF Lists
  <2> QED BY <2>1, <2>2
<1> QED BY <1>2, <1>4, <1>5 DEF Lists

\* Leaving a queue anywhere.
LEMMA ListsRemove ==
    ASSUME NEW s, NEW S, Lists(s, S), NEW k \in 1..Len(s)
    PROVE  Lists(SubSeq(s, 1, k - 1) \o SubSeq(s, k + 1, Len(s)), S \ {s[k]})
<1> DEFINE t == SubSeq(s, 1, k - 1) \o SubSeq(s, k + 1, Len(s))
<1>1. s \in Seq(Connections) /\ Len(s) \in Nat /\ \A i \in 1..Len(s) : s[i] \in Connections
  BY LenProperties, ElementOfSeq DEF Lists
<1>4. /\ t \in Seq(Connections) /\ Len(t) = Len(s) - 1
      /\ \A i \in 1..(Len(s) - 1) : t[i] = IF i < k THEN s[i] ELSE s[i + 1]
  BY <1>1, DropsOne
<1> HIDE DEF t
<1>5. \A i, j \in 1..Len(t) : t[i] = t[j] => i = j
  <2> SUFFICES ASSUME NEW i \in 1..Len(t), NEW j \in 1..Len(t), t[i] = t[j] PROVE i = j
    OBVIOUS
  <2> DEFINE p == IF i < k THEN i ELSE i + 1
             q == IF j < k THEN j ELSE j + 1
  <2>1. p \in 1..Len(s) /\ q \in 1..Len(s) BY <1>4, <1>1
  <2>2. s[p] = s[q] BY <1>4, <1>1
  <2>3. p = q BY <2>1, <2>2 DEF Lists
  <2> QED BY <2>3, <1>1, <1>4
<1>6. ASSUME NEW d \in Connections
      PROVE  d \in S \ {s[k]} <=> \E i \in 1..Len(t) : t[i] = d
  <2>1. ASSUME d \in S, d # s[k] PROVE \E i \in 1..Len(t) : t[i] = d
    <3>1. PICK m \in 1..Len(s) : s[m] = d BY <2>1 DEF Lists
    <3>2. m # k BY <2>1, <3>1
    <3>3. CASE m < k
      <4>1. m \in 1..Len(t) /\ t[m] = d BY <3>1, <3>3, <1>4, <1>1
      <4> QED BY <4>1
    <3>4. CASE m > k
      <4>1. m - 1 \in 1..Len(t) /\ t[m - 1] = s[m - 1 + 1] BY <3>1, <3>4, <1>4, <1>1
      <4>2. m - 1 + 1 = m BY <1>1
      <4> QED BY <4>1, <4>2, <3>1
    <3> QED BY <3>2, <3>3, <3>4, <1>1
  <2>2. ASSUME NEW i \in 1..Len(t), t[i] = d PROVE d \in S /\ d # s[k]
    <3> DEFINE p == IF i < k THEN i ELSE i + 1
    <3>1. p \in 1..Len(s) /\ s[p] = d /\ p # k BY <2>2, <1>4, <1>1
    <3> QED BY <3>1 DEF Lists
  <2> QED BY <2>1, <2>2
<1>7. Lists(t, S \ {s[k]}) BY <1>4, <1>5, <1>6 DEF Lists
<1> QED BY <1>7 DEF t

\* The front of a queue is taken (Dispatch, DrainOne).
LEMMA ListsTail ==
    ASSUME NEW s, NEW S, Lists(s, S), s # <<>>
    PROVE  Head(s) \in Connections /\ Head(s) \in S /\ Lists(Tail(s), S \ {Head(s)})
<1>1. s \in Seq(Connections) /\ Len(s) \in Nat /\ 1 \in 1..Len(s) /\ Head(s) = s[1]
      /\ \A i \in 1..Len(s) : s[i] \in Connections
  BY LenProperties, EmptySeq, ElementOfSeq DEF Lists
<1>2. Tail(s) = SubSeq(s, 2, Len(s)) BY <1>1, TailIsSubSeq
<1>3. SubSeq(s, 1, 0) = <<>> BY SubSeqEmpty
<1>4. SubSeq(s, 2, Len(s)) \in Seq(Connections) BY <1>1, SubSeqProperties
<1>5. SubSeq(s, 1, 0) \o SubSeq(s, 2, Len(s)) = Tail(s)
  BY <1>2, <1>3, <1>4, ConcatEmptySeq
<1>6. Lists(SubSeq(s, 1, 1 - 1) \o SubSeq(s, 1 + 1, Len(s)), S \ {s[1]})
  BY <1>1, ListsRemove
<1>7. 1 - 1 = 0 /\ 1 + 1 = 2 OBVIOUS
<1>8. Head(s) \in S BY <1>1 DEF Lists
<1> QED BY <1>1, <1>5, <1>6, <1>7, <1>8

\* A connection leaves a queue wherever it stands in it, or is not in it.
LEMMA ListsLeave ==
    ASSUME NEW s, NEW S, Lists(s, S), NEW c \in Connections
    PROVE  Lists(Loop!Leave(s, c), S \ {c})
<1> DEFINE at == {i \in DOMAIN s : s[i] = c}
<1>1. s \in Seq(Connections) /\ DOMAIN s = 1..Len(s) BY LenProperties DEF Lists
<1>2. CASE at = {}
  <2>1. Loop!Leave(s, c) = s BY <1>2 DEF Loop!Leave
  <2>2. c \notin S BY <1>1, <1>2 DEF Lists
  <2> QED BY <2>1, <2>2 DEF Lists
<1>3. CASE at # {}
  <2> DEFINE k == CHOOSE i \in at : TRUE
  <2>1. k \in at BY <1>3
  <2>2. k \in 1..Len(s) /\ s[k] = c BY <2>1, <1>1
  <2>3. Loop!Leave(s, c) = SubSeq(s, 1, k - 1) \o SubSeq(s, k + 1, Len(s))
    BY <1>3 DEF Loop!Leave, Loop!RemoveAt
  <2> HIDE DEF k
  <2> QED BY <2>2, <2>3, ListsRemove
<1> QED BY <1>2, <1>3

\* A member of the set stands in the queue once, anyone else nowhere.
LEMMA ListsCount ==
    ASSUME NEW s, NEW S, Lists(s, S), NEW c \in Connections
    PROVE  Loop!Cardinality({i \in DOMAIN s : s[i] = c}) = IF c \in S THEN 1 ELSE 0
<1> DEFINE at == {i \in DOMAIN s : s[i] = c}
<1>1. DOMAIN s = 1..Len(s) BY LenProperties DEF Lists
<1>2. CASE c \in S
  <2>1. PICK k \in 1..Len(s) : s[k] = c BY <1>2 DEF Lists
  <2>2. at = {k} BY <2>1, <1>1 DEF Lists
  <2> QED BY <2>2, <1>2, FS_Singleton, LoopCounts
<1>3. CASE c \notin S
  <2>1. at = {} BY <1>1, <1>3 DEF Lists
  <2> QED BY <2>1, <1>3, FS_EmptySet, LoopCounts
<1> QED BY <1>2, <1>3

\* Requests are handled in the first hour only.
FirstHour == \A t \in Uptimes : t <= 3599

\* The queues of the endpoint hold the connections that wait in them.
LoopTypes ==
    /\ conn \in [Connections -> {"reading", "sending", "waiting", "closed"}]
    /\ request \in [Connections -> Requests \cup {None}]
    /\ reply \in [Connections -> Loop!Replies \cup {None}]
    /\ clock \in Uptimes

LoopQueues ==
    /\ Lists(dispatch, {c \in Connections : conn[c] = "waiting"})
    /\ Lists(senders, {c \in Connections : conn[c] = "sending"})

\* A request is remembered while it is under way, its right is remembered
\* for good, and "ok" to a mute is a muted performer.
LoopHonest ==
    /\ \A c \in Connections :
          /\ conn[c] \in {"sending", "waiting"} => request[c] # None
          /\ reply[c] \in {"ok", "authentication failed"} => request[c] # None
          /\ request[c] # None /\ request[c].secret => request[c].action \in granted
          /\ reply[c] = "ok" /\ request[c].action = "mute" => loopMuted
          /\ FirstHour =>
                (reply[c] = "authentication failed" => ~request[c].secret)
    /\ loopMuted => "mute" \in granted

LoopInv == LoopTypes /\ LoopQueues /\ LoopHonest

\* Requests are no reply and no request is None.
LEMMA LoopBounds ==
    /\ Requests \subseteq Loop!RequestType /\ Uptimes \subseteq Nat /\ 0 \in Uptimes
    /\ None \notin Loop!RequestType /\ None \notin Loop!Replies
BY LoopAssumption DEF Loop!RequestsAssumption

\* Every connection reads at the start and the queues are empty.
LEMMA LoopInvInit == Loop!Init => LoopInv
<1> SUFFICES ASSUME Loop!Init PROVE LoopInv OBVIOUS
<1>1. LoopTypes BY LoopBounds DEF Loop!Init, LoopTypes
<1>2. LoopQueues
  <2>1. <<>> \in Seq(Connections) /\ Len(<<>>) = 0 BY EmptySeq
  <2> QED BY <2>1 DEF Loop!Init, LoopQueues, Lists
<1>3. LoopHonest BY LoopBounds DEF Loop!Init, LoopHonest, Loop!Replies
<1> QED BY <1>1, <1>2, <1>3 DEF LoopInv

\* Steps that answer or leave a reading connection.
LEMMA LoopReading ==
    ASSUME LoopInv, NEW c \in Connections, conn[c] = "reading",
           \/ conn' = conn
           \/ conn' = [conn EXCEPT ![c] = "closed"],
           \/ reply' = reply
           \/ \E text \in {"rate limited", "invalid request", "record too large"} :
                 reply' = [reply EXCEPT ![c] = text],
           UNCHANGED <<request, senders, dispatch, clock, loopMuted, granted>>
    PROVE  LoopInv'
<1>1. LoopTypes' BY DEF LoopInv, LoopTypes, Loop!Replies
<1>2. LoopQueues'
  <2>1. \A d \in Connections : /\ conn'[d] = "waiting" <=> conn[d] = "waiting"
                               /\ conn'[d] = "sending" <=> conn[d] = "sending"
    BY DEF LoopInv, LoopTypes
  <2>2. /\ {d \in Connections : conn'[d] = "waiting"} = {d \in Connections : conn[d] = "waiting"}
        /\ {d \in Connections : conn'[d] = "sending"} = {d \in Connections : conn[d] = "sending"}
    BY <2>1
  <2> QED BY <2>2 DEF LoopInv, LoopQueues
<1>3. LoopHonest'
  <2>1. \A d \in Connections : /\ conn'[d] \in {"sending", "waiting"} => conn'[d] = conn[d]
                               /\ reply'[d] \in {"ok", "authentication failed"} => reply'[d] = reply[d]
    BY DEF LoopInv, LoopTypes
  <2> QED BY <2>1 DEF LoopInv, LoopHonest
<1> QED BY <1>1, <1>2, <1>3 DEF LoopInv

\* Steps that leave the endpoint and the mute alone.
LEMMA LoopKept ==
    ASSUME LoopInv, clock' \in Uptimes,
           UNCHANGED <<conn, request, reply, senders, dispatch, loopMuted, granted>>
    PROVE  LoopInv'
<1>1. LoopTypes' BY DEF LoopInv, LoopTypes
<1>2. LoopQueues'
  <2>1. {d \in Connections : conn'[d] = "waiting"} = {d \in Connections : conn[d] = "waiting"}
        /\ {d \in Connections : conn'[d] = "sending"} = {d \in Connections : conn[d] = "sending"}
    OBVIOUS
  <2> QED BY <2>1 DEF LoopInv, LoopQueues
<1>3. LoopHonest' BY DEF LoopInv, LoopHonest
<1> QED BY <1>1, <1>2, <1>3 DEF LoopInv

\* A request lines up for the dispatch queue (handle_connection).
LEMMA LoopRequests ==
    ASSUME LoopInv, NEW c \in Connections, NEW q \in Requests, Loop!LineRequest(c, q)
    PROVE  LoopInv'
<1>1. /\ conn[c] = "reading" /\ conn' = [conn EXCEPT ![c] = "sending"]
      /\ request' = [request EXCEPT ![c] = q] /\ reply' = [reply EXCEPT ![c] = None]
      /\ senders' = Append(senders, c) /\ UNCHANGED <<dispatch, clock, loopMuted>>
      /\ granted' = IF q.secret THEN granted \cup {q.action} ELSE granted
  BY DEF Loop!LineRequest
<1>2. LoopTypes' BY <1>1 DEF LoopInv, LoopTypes
<1>3. LoopQueues'
  <2>1. {d \in Connections : conn'[d] = "waiting"} = {d \in Connections : conn[d] = "waiting"}
    BY <1>1 DEF LoopInv, LoopTypes
  <2>2. {d \in Connections : conn'[d] = "sending"} = {d \in Connections : conn[d] = "sending"} \cup {c}
    BY <1>1 DEF LoopInv, LoopTypes
  <2>3. c \notin {d \in Connections : conn[d] = "sending"} BY <1>1
  <2>4. Lists(senders', {d \in Connections : conn'[d] = "sending"})
    <3>1. Lists(Append(senders, c), {d \in Connections : conn[d] = "sending"} \cup {c})
      BY <2>3, ListsAppend DEF LoopInv, LoopQueues
    <3> QED BY ONLY <3>1, <2>2, <1>1
  <2>5. Lists(dispatch', {d \in Connections : conn'[d] = "waiting"})
    <3>1. Lists(dispatch, {d \in Connections : conn[d] = "waiting"}) BY DEF LoopInv, LoopQueues
    <3> QED BY ONLY <3>1, <2>1, <1>1
  <2> QED BY ONLY <2>4, <2>5 DEF LoopQueues
<1>4. LoopHonest'
  <2>1. q # None BY LoopBounds
  <2>2. ASSUME NEW d \in Connections
        PROVE  /\ conn'[d] \in {"sending", "waiting"} => request'[d] # None
               /\ reply'[d] \in {"ok", "authentication failed"} => request'[d] # None
               /\ request'[d] # None /\ request'[d].secret => request'[d].action \in granted'
               /\ reply'[d] = "ok" /\ request'[d].action = "mute" => loopMuted'
               /\ FirstHour =>
                     (reply'[d] = "authentication failed" => ~request'[d].secret)
    <3>1. CASE d = c
      <4>1. request'[d] = q /\ reply'[d] = None BY <3>1, <1>1 DEF LoopInv, LoopTypes
      <4>2. None # "ok" /\ None # "authentication failed" BY LoopBounds DEF Loop!Replies
      <4>3. q.secret => q.action \in granted' BY <1>1
      <4> QED BY ONLY <4>1, <4>2, <4>3, <2>1
    <3>2. CASE d # c
      <4>1. conn'[d] = conn[d] /\ request'[d] = request[d] /\ reply'[d] = reply[d]
        BY <3>2, <1>1 DEF LoopInv, LoopTypes
      <4>2. (granted \subseteq granted') /\ loopMuted' = loopMuted BY <1>1
      <4> QED BY ONLY <4>1, <4>2, LoopInv DEF LoopInv, LoopHonest
    <3> QED BY <3>1, <3>2
  <2> QED BY <2>2, <1>1 DEF LoopInv, LoopHonest
<1> QED BY <1>2, <1>3, <1>4 DEF LoopInv

\* The first in line enters the dispatch queue (dispatcher.send).
LEMMA LoopDispatches == ASSUME LoopInv, Loop!Dispatch PROVE LoopInv'
<1> DEFINE c == Head(senders)
<1>1. /\ senders # <<>> /\ dispatch' = Append(dispatch, c)
      /\ conn' = [conn EXCEPT ![c] = "waiting"] /\ senders' = Tail(senders)
      /\ UNCHANGED <<request, reply, clock, loopMuted, granted>>
  BY DEF Loop!Dispatch
<1>2. /\ c \in Connections /\ conn[c] = "sending"
      /\ Lists(Tail(senders), {d \in Connections : conn[d] = "sending"} \ {c})
  <2>1. /\ c \in Connections /\ c \in {d \in Connections : conn[d] = "sending"}
        /\ Lists(Tail(senders), {d \in Connections : conn[d] = "sending"} \ {c})
    BY <1>1, ListsTail DEF LoopInv, LoopQueues
  <2> QED BY <2>1
<1> HIDE DEF c
<1>3. LoopTypes' BY <1>1, <1>2 DEF LoopInv, LoopTypes
<1>4. LoopQueues'
  <2>1. {d \in Connections : conn'[d] = "waiting"} = {d \in Connections : conn[d] = "waiting"} \cup {c}
    BY <1>1, <1>2 DEF LoopInv, LoopTypes
  <2>2. {d \in Connections : conn'[d] = "sending"} = {d \in Connections : conn[d] = "sending"} \ {c}
    BY <1>1, <1>2 DEF LoopInv, LoopTypes
  <2>3. c \notin {d \in Connections : conn[d] = "waiting"} BY <1>2
  <2>4. Lists(Append(dispatch, c), {d \in Connections : conn[d] = "waiting"} \cup {c})
    BY <2>3, <1>2, ListsAppend DEF LoopInv, LoopQueues
  <2> QED BY <2>1, <2>2, <2>4, <1>1, <1>2 DEF LoopQueues
<1>5. LoopHonest'
  <2>1. \A d \in Connections : conn'[d] \in {"sending", "waiting"} => conn[d] \in {"sending", "waiting"}
    BY <1>1, <1>2 DEF LoopInv, LoopTypes
  <2> QED BY <2>1, <1>1 DEF LoopInv, LoopHonest
<1> QED BY <1>3, <1>4, <1>5 DEF LoopInv

\* A connection leaves its queue when the loop has ended.
LEMMA LoopLoses ==
    ASSUME LoopInv, NEW c \in Connections, Loop!ConnectionLost(c)
    PROVE  LoopInv'
<1>1. /\ conn[c] \in {"sending", "waiting"} /\ conn' = [conn EXCEPT ![c] = "closed"]
      /\ senders' = Loop!Leave(senders, c) /\ dispatch' = Loop!Leave(dispatch, c)
      /\ UNCHANGED <<request, reply, clock, loopMuted, granted>>
  BY DEF Loop!ConnectionLost
<1>2. LoopTypes' BY <1>1 DEF LoopInv, LoopTypes
<1>3. LoopQueues'
  <2>1. {d \in Connections : conn'[d] = "waiting"} = {d \in Connections : conn[d] = "waiting"} \ {c}
    BY <1>1 DEF LoopInv, LoopTypes
  <2>2. {d \in Connections : conn'[d] = "sending"} = {d \in Connections : conn[d] = "sending"} \ {c}
    BY <1>1 DEF LoopInv, LoopTypes
  <2> QED BY <2>1, <2>2, <1>1, ListsLeave DEF LoopInv, LoopQueues
<1>4. LoopHonest'
  <2>1. \A d \in Connections : conn'[d] \in {"sending", "waiting"} => conn'[d] = conn[d]
    BY <1>1 DEF LoopInv, LoopTypes
  <2> QED BY <2>1, <1>1 DEF LoopInv, LoopHonest
<1> QED BY <1>2, <1>3, <1>4 DEF LoopInv

\* The first in the queue is applied and answered (apply_dispatched_request).
LEMMA LoopDrains == ASSUME LoopInv, Loop!DrainOne PROVE LoopInv'
<1> DEFINE c == Head(dispatch)
           out == Loop!Outcome(request[c], clock)
<1>1. /\ dispatch # <<>> /\ dispatch' = Tail(dispatch)
      /\ reply' = [reply EXCEPT ![c] = out] /\ conn' = [conn EXCEPT ![c] = "reading"]
      /\ loopMuted' = (loopMuted \/ (out = "ok" /\ request[c].action = "mute"))
      /\ UNCHANGED <<request, senders, clock, granted>>
  BY DEF Loop!DrainOne, Loop!Answer
<1>2. /\ c \in Connections /\ c \in {d \in Connections : conn[d] = "waiting"}
      /\ Lists(Tail(dispatch), {d \in Connections : conn[d] = "waiting"} \ {c})
  BY <1>1, ListsTail DEF LoopInv, LoopQueues
<1>3. conn[c] = "waiting" /\ request[c] \in Requests /\ request[c] # None
  BY <1>2 DEF LoopInv, LoopTypes, LoopHonest
<1>4. out \in {"ok", "authentication failed", "unknown action"}
  BY DEF Loop!Outcome
<1>5. out = "ok" /\ request[c].action = "mute" => "mute" \in granted
  BY <1>2, <1>3 DEF Loop!Outcome, Loop!Reads, Loop!Authenticates, LoopInv, LoopHonest
<1>9. ASSUME FirstHour, out = "authentication failed" PROVE ~request[c].secret
  <2>0. clock \in Uptimes BY DEF LoopInv, LoopTypes
  <2>1. clock \in Nat BY ONLY <2>0, LoopBounds
  <2>3. clock <= 3599
    <3>1. FirstHour BY ONLY <1>9
    <3>2. \A t \in Uptimes : t <= 3599 BY ONLY <3>1 DEF FirstHour
    <3> QED BY ONLY <3>2, <2>0
  <2>2. Loop!TimestampValid(Loop!EventTime(clock))
    BY ONLY <2>1, <2>3 DEF Loop!TimestampValid, Loop!EventTime
  <2> QED BY <2>2, <1>9 DEF Loop!Outcome, Loop!Authenticates
<1> HIDE DEF c, out
<1>6. LoopTypes' BY <1>1, <1>2, <1>4 DEF LoopInv, LoopTypes, Loop!Replies
<1>7. LoopQueues'
  <2>1. {d \in Connections : conn'[d] = "waiting"} = {d \in Connections : conn[d] = "waiting"} \ {c}
    BY <1>1, <1>2 DEF LoopInv, LoopTypes
  <2>2. {d \in Connections : conn'[d] = "sending"} = {d \in Connections : conn[d] = "sending"}
    BY <1>1, <1>3 DEF LoopInv, LoopTypes
  <2>3. Lists(dispatch', {d \in Connections : conn'[d] = "waiting"})
    <3>1. Lists(Tail(dispatch), {d \in Connections : conn[d] = "waiting"} \ {c}) BY ONLY <1>2
    <3>2. dispatch' = Tail(dispatch) BY ONLY <1>1
    <3> HIDE DEF Lists
    <3> QED BY ONLY <3>1, <3>2, <2>1
  <2>4. Lists(senders', {d \in Connections : conn'[d] = "sending"})
    <3>1. Lists(senders, {d \in Connections : conn[d] = "sending"}) BY DEF LoopInv, LoopQueues
    <3>2. senders' = senders BY ONLY <1>1
    <3> QED BY ONLY <3>1, <3>2, <2>2
  <2> QED BY ONLY <2>3, <2>4 DEF LoopQueues
<1>8. LoopHonest'
  <2>1. loopMuted' => "mute" \in granted' BY <1>1, <1>5 DEF LoopInv, LoopHonest
  <2>2. ASSUME NEW d \in Connections
        PROVE  /\ conn'[d] \in {"sending", "waiting"} => request'[d] # None
               /\ reply'[d] \in {"ok", "authentication failed"} => request'[d] # None
               /\ request'[d] # None /\ request'[d].secret => request'[d].action \in granted'
               /\ reply'[d] = "ok" /\ request'[d].action = "mute" => loopMuted'
               /\ FirstHour =>
                     (reply'[d] = "authentication failed" => ~request'[d].secret)
    <3>1. CASE d = c
      <4>1. /\ conn'[d] = "reading" /\ reply'[d] = out
            /\ request'[d] = request[c] /\ granted' = granted
        BY <3>1, <1>1, <1>2 DEF LoopInv, LoopTypes
      <4>2. request[c] # None /\ (request[c].secret => request[c].action \in granted)
        BY <1>2, <1>3 DEF LoopInv, LoopHonest
      <4>3. out = "ok" /\ request[c].action = "mute" => loopMuted' BY <1>1
      <4>4. FirstHour => (out = "authentication failed" => ~request[c].secret)
        BY <1>9
      <4> QED BY ONLY <4>1, <4>2, <4>3, <4>4
    <3>2. CASE d # c
      <4>1. conn'[d] = conn[d] /\ reply'[d] = reply[d] /\ (loopMuted => loopMuted')
        BY <3>2, <1>1 DEF LoopInv, LoopTypes
      <4> QED BY <4>1, <1>1 DEF LoopInv, LoopHonest
    <3> QED BY <3>1, <3>2
  <2> QED BY <2>1, <2>2 DEF LoopHonest
<1> QED BY <1>6, <1>7, <1>8 DEF LoopInv

\* A step of the loop or of its surroundings.
LEMMA LoopInvStep == ASSUME LoopInv, Loop!Next PROVE LoopInv'
<1>1. ASSUME NEW r \in Records, Loop!RecordArrives(r) PROVE LoopInv'
  BY <1>1, LoopKept DEF Loop!RecordArrives, Loop!endpoint, LoopInv, LoopTypes
<1>2. CASE Loop!InputCloses BY <1>2, LoopKept DEF Loop!InputCloses, Loop!endpoint, LoopInv, LoopTypes
<1>3. CASE Loop!TimePasses
  BY <1>3, LoopKept DEF Loop!TimePasses, Loop!endpoint, LoopInv, LoopTypes
<1>4. CASE Loop!Refill BY <1>4, LoopKept DEF Loop!Refill, LoopInv, LoopTypes
<1>5. ASSUME NEW c \in Connections, Loop!LineRateLimited(c) PROVE LoopInv'
  BY <1>5, LoopReading DEF Loop!LineRateLimited, Loop!Answer
<1>6. ASSUME NEW c \in Connections, Loop!LineTooLong(c) PROVE LoopInv'
  BY <1>6, LoopReading DEF Loop!LineTooLong, Loop!Answer
<1>7. ASSUME NEW c \in Connections, Loop!ConnectionEnds(c) PROVE LoopInv'
  BY <1>7, LoopReading DEF Loop!ConnectionEnds
<1>8. ASSUME NEW c \in Connections, Loop!ConnectionLost(c) PROVE LoopInv' BY <1>8, LoopLoses
<1>9. ASSUME NEW c \in Connections, NEW q \in Requests, Loop!LineInvalid(c, q) PROVE LoopInv'
  BY <1>9, LoopReading DEF Loop!LineInvalid, Loop!Answer
<1>10. ASSUME NEW c \in Connections, NEW q \in Requests, Loop!LineRequest(c, q) PROVE LoopInv'
  BY <1>10, LoopRequests
<1>11. CASE Loop!Dispatch BY <1>11, LoopDispatches
<1>12. CASE Loop!LoopStep
  <2>1. CASE Loop!DrainOne BY <2>1, LoopDrains
  <2>2. CASE Loop!RecvBlank \/ Loop!RecvContent \/ Loop!RecvTimeout \/ Loop!RecvDisconnected
                \/ Loop!Tick
    BY <2>2, LoopKept DEF Loop!RecvBlank, Loop!RecvContent, Loop!RecvTimeout,
       Loop!RecvDisconnected, Loop!Tick, Loop!endpoint, LoopInv, LoopTypes
  <2> QED BY <2>1, <2>2, <1>12 DEF Loop!LoopStep
<1>13. CASE Loop!Ended BY <1>13, LoopKept DEF Loop!Ended, Loop!vars, LoopInv, LoopTypes
<1> QED
  BY <1>1, <1>2, <1>3, <1>4, <1>5, <1>6, <1>7, <1>8, <1>9, <1>10, <1>11, <1>12, <1>13
  DEF Loop!Next

\* What the invariant says of the run's properties.
LEMMA LoopInvSays ==
    ASSUME LoopInv
    PROVE  /\ Loop!OneOutstanding /\ Loop!MuteAnswersTruthful
           /\ FirstHour => Loop!SecretSuffices
<1>1. Loop!OneOutstanding
  <2> SUFFICES ASSUME NEW c \in Connections
               PROVE  /\ Loop!Cardinality({i \in DOMAIN dispatch : dispatch[i] = c})
                            = IF conn[c] = "waiting" THEN 1 ELSE 0
                      /\ Loop!Cardinality({i \in DOMAIN senders : senders[i] = c})
                            = IF conn[c] = "sending" THEN 1 ELSE 0
    BY DEF Loop!OneOutstanding
  <2>1. Loop!Cardinality({i \in DOMAIN dispatch : dispatch[i] = c})
          = IF c \in {d \in Connections : conn[d] = "waiting"} THEN 1 ELSE 0
    BY ListsCount DEF LoopInv, LoopQueues
  <2>2. Loop!Cardinality({i \in DOMAIN senders : senders[i] = c})
          = IF c \in {d \in Connections : conn[d] = "sending"} THEN 1 ELSE 0
    BY ListsCount DEF LoopInv, LoopQueues
  <2> QED BY <2>1, <2>2
<1>2. Loop!MuteAnswersTruthful BY DEF LoopInv, LoopHonest, Loop!MuteAnswersTruthful
<1>3. FirstHour => Loop!SecretSuffices
  BY DEF LoopInv, LoopHonest, Loop!SecretSuffices
<1> QED BY <1>1, <1>2, <1>3

\* The loop's invariant while the loop is the part that moves.
LoopHolds == part = "loop" => LoopInv

\* It holds at the start.
LEMMA LoopHoldsInit == Init => LoopHolds
BY LoopInvInit DEF Init, LoopHolds

\* It is kept by every step, whoever moves.
LEMMA LoopHoldsStep ==
    LoopHolds
    /\ [Next]_<<part, ingressVars, loopVars, securityVars, pathVars, linkVars>>
    => LoopHolds'
<1> SUFFICES ASSUME LoopHolds, part' = "loop",
                    [Next]_<<part, ingressVars, loopVars, securityVars, pathVars, linkVars>>
             PROVE  LoopInv'
  BY DEF LoopHolds
<1>1. CASE Next
  <2>1. part = "loop" /\ Loop!Next BY <1>1 DEF Next
  <2> QED BY <2>1, LoopInvStep DEF LoopHolds
<1>2. CASE UNCHANGED <<part, ingressVars, loopVars, securityVars, pathVars, linkVars>>
  BY <1>2, LoopKept DEF LoopHolds, loopVars, LoopInv, LoopTypes
<1> QED BY <1>1, <1>2

\* One request of a connection is under way at a time and in the queue once,
\* an "ok" to a mute is a muted performer, and nobody is muted without the
\* secret; within the first hour of uptime, after which rfc3339_from_ms makes
\* timestamps the validator refuses, the right secret is never refused either
\* (main.rs, operator_control.rs).
THEOREM LoopIsSound ==
    Spec => [](/\ part = "loop" => Loop!OneOutstanding /\ Loop!MuteAnswersTruthful
               /\ FirstHour => LoopSound)
<1>1. Spec => []LoopHolds BY LoopHoldsInit, LoopHoldsStep, PTL DEF Spec
<1>2. LoopHolds => /\ part = "loop" => Loop!OneOutstanding /\ Loop!MuteAnswersTruthful
                   /\ FirstHour => LoopSound
  BY LoopInvSays DEF LoopHolds, LoopSound
<1> QED BY <1>1, <1>2, PTL

----------------------------------------------------------------------------
(* The security runtime                                                    *)

\* The instance counts like FiniteSets.
LEMMA SecurityCounts ==
    ASSUME NEW S
    PROVE  Security!Cardinality(S) = Cardinality(S)
BY DEF Security!Cardinality, Cardinality

\* Tokens and time are counted in whole numbers.
SecurityTypes ==
    /\ now \in Nat
    /\ \A s \in DOMAIN buckets :
          /\ buckets[s].tokens \in Nat /\ buckets[s].at \in Nat
          /\ buckets[s].at <= now
    /\ admitted \in Seq(Sources \X Nat)

\* The sources the table knows are few.
SecurityTable ==
    IsFiniteSet(DOMAIN buckets) /\ Cardinality(DOMAIN buckets) <= MaxSources

\* The tokens spent by the source of one admission since then.
Spent(i, j) ==
    Security!Cardinality({k \in i..j : admitted[k][1] = admitted[i][1]})

\* What a source has spent since any of its admissions, with what is left in
\* its bucket, is covered by the burst and what the rate has added; a source
\* that was forgotten has been idle so long that its bucket would be full.
Covered(i) ==
    LET s == admitted[i][1]
        n == Spent(i, Len(admitted)) * Scale
    IN /\ s \in DOMAIN buckets =>
             n + buckets[s].tokens <= Burst * Scale + (buckets[s].at - admitted[i][2]) * Rate
       /\ s \notin DOMAIN buckets => n <= (now - admitted[i][2]) * Rate

SecurityCredit == \A i \in 1..Len(admitted) : Covered(i)

\* The windows of Security!RateBounded.
SecurityWindows ==
    \A i, j \in 1..Len(admitted) :
        (i <= j /\ admitted[i][1] = admitted[j][1]) =>
            Spent(i, j) * Scale <= Burst * Scale + (admitted[j][2] - admitted[i][2]) * Rate

\* The configuration's numbers.
LEMMA SecurityBounds ==
    /\ Rate \in Nat /\ Scale \in Nat /\ Burst \in Nat /\ SourceTtl \in Nat
    /\ Scale > 0 /\ Burst > 0 /\ MaxSources \in Nat \ {0} /\ AuditLimit \in Nat \ {0}
    /\ CorrelationLimit \in Nat \ {0}
    /\ Burst * Scale \in Nat /\ Burst * Scale >= Scale /\ SourceTtl * Rate >= Burst * Scale
<1>1. /\ Rate \in Nat \ {0} /\ Scale \in Nat \ {0} /\ Burst \in Nat \ {0}
      /\ SourceTtl \in Nat \ {0} /\ MaxSources \in Nat \ {0} /\ AuditLimit \in Nat \ {0}
      /\ CorrelationLimit \in Nat \ {0} /\ SourceTtl * Rate >= Burst * Scale
  BY SecurityAssumption DEF Security!ConfigAssumption, Security!TtlAssumption
<1>2. Burst * Scale \in Nat /\ Burst * Scale >= Scale BY ONLY <1>1
<1> QED BY <1>1, <1>2

\* Time fills every bucket at the same rate.
LEMMA RateAdds ==
    ASSUME NEW a \in Nat, NEW b \in Nat, NEW t \in Nat
    PROVE  /\ (a - t) * Rate \in Int /\ (b - t) * Rate \in Int /\ (b - a) * Rate \in Int
           /\ (b - t) * Rate = (a - t) * Rate + (b - a) * Rate
<1>1. Rate \in Int BY SecurityBounds
<1>2. \A x, y, r \in Int : (x + y) * r = x * r + y * r OBVIOUS
<1>3. b - t = (a - t) + (b - a) /\ a - t \in Int /\ b - a \in Int OBVIOUS
<1>4. (b - t) * Rate = (a - t) * Rate + (b - a) * Rate BY ONLY <1>1, <1>2, <1>3
<1> QED BY ONLY <1>1, <1>3, <1>4

\* A bucket that was filled up to now (consume_token on a known source).
LEMMA CreditRefilled ==
    ASSUME NEW n \in Int, NEW k \in Nat, NEW a \in Nat, NEW b \in Nat, NEW t \in Nat,
           n + k <= Burst * Scale + (a - t) * Rate
    PROVE  n + (k + (b - a) * Rate) <= Burst * Scale + (b - t) * Rate
<1>1. /\ (a - t) * Rate \in Int /\ (b - t) * Rate \in Int /\ (b - a) * Rate \in Int
      /\ (b - t) * Rate = (a - t) * Rate + (b - a) * Rate
  BY RateAdds
<1>2. Burst * Scale \in Int BY SecurityBounds
<1> DEFINE x == (a - t) * Rate
           y == (b - a) * Rate
           z == (b - t) * Rate
           w == Burst * Scale
<1> HIDE DEF x, y, z, w
<1>3. /\ x \in Int /\ y \in Int /\ z \in Int /\ w \in Int /\ z = x + y /\ n + k <= w + x
  BY <1>1, <1>2 DEF x, y, z, w
<1>4. n + (k + y) <= w + z BY ONLY <1>3, n \in Int, k \in Nat
<1> QED BY ONLY <1>4 DEF x, y, z, w

\* A source that was idle for SourceTtl has a full bucket
\* (expire_rate_limit_sources).
LEMMA CreditForgotten ==
    ASSUME NEW n \in Int, NEW k \in Nat, NEW a \in Nat, NEW b \in Nat, NEW t \in Nat,
           n + k <= Burst * Scale + (a - t) * Rate, ~ (b - a < SourceTtl)
    PROVE  n <= (b - t) * Rate
<1>1. /\ (a - t) * Rate \in Int /\ (b - t) * Rate \in Int /\ (b - a) * Rate \in Int
      /\ (b - t) * Rate = (a - t) * Rate + (b - a) * Rate
  BY RateAdds
<1>2. (b - a) * Rate >= SourceTtl * Rate
  <2>1. \A p, q, r \in Nat : p >= q => p * r >= q * r OBVIOUS
  <2>2. b - a \in Nat /\ b - a >= SourceTtl /\ SourceTtl \in Nat /\ Rate \in Nat
    BY SecurityBounds
  <2> QED BY ONLY <2>1, <2>2
<1>3. /\ Burst * Scale \in Int /\ SourceTtl * Rate \in Int /\ SourceTtl * Rate >= Burst * Scale
  BY SecurityBounds
<1> DEFINE x == (a - t) * Rate
           y == (b - a) * Rate
           z == (b - t) * Rate
           w == Burst * Scale
           v == SourceTtl * Rate
<1> HIDE DEF x, y, z, w, v
<1>4. /\ x \in Int /\ y \in Int /\ z \in Int /\ w \in Int /\ v \in Int /\ z = x + y
      /\ n + k <= w + x /\ y >= v /\ v >= w
  BY <1>1, <1>2, <1>3 DEF x, y, z, w, v
<1>5. n <= z BY ONLY <1>4, n \in Int, k \in Nat
<1> QED BY ONLY <1>5 DEF z

\* What a source has at most when its bucket is touched, and what it gets.
LEMMA RefilledIs ==
    ASSUME SecurityTypes, NEW s \in DOMAIN buckets
    PROVE  /\ Security!Refilled(s) \in Nat
           /\ Security!Refilled(s) <= Burst * Scale
           /\ Security!Refilled(s) <= buckets[s].tokens + (now - buckets[s].at) * Rate
<1>1. /\ buckets[s].tokens \in Nat /\ buckets[s].at \in Nat /\ now \in Nat
      /\ now - buckets[s].at \in Nat
  BY DEF SecurityTypes
<1>2. \A x, y \in Nat : x * y \in Nat OBVIOUS
<1>3. (now - buckets[s].at) * Rate \in Nat BY <1>1, <1>2, SecurityBounds
<1>4. Burst * Scale \in Nat BY SecurityBounds
<1> DEFINE y == (now - buckets[s].at) * Rate
           w == Burst * Scale
<1> HIDE DEF y, w
<1>5. y \in Nat /\ w \in Nat BY <1>3, <1>4 DEF y, w
<1>6. Security!Refilled(s) = IF buckets[s].tokens + y <= w THEN buckets[s].tokens + y ELSE w
  BY DEF Security!Refilled, Security!Minimum, y, w
<1>7. /\ Security!Refilled(s) \in Nat /\ Security!Refilled(s) <= w
      /\ Security!Refilled(s) <= buckets[s].tokens + y
  BY ONLY <1>1, <1>5, <1>6
<1> QED BY ONLY <1>7 DEF y, w

\* The source of one admission under the bucket that consume_token leaves:
\* what it has spent is covered, and one token more if it was granted one.
LEMMA ConsumeCovers ==
    ASSUME SecurityTypes, NEW s \in Sources, NEW granted_ \in BOOLEAN,
           Security!ConsumeToken(s, granted_),
           NEW x \in Sources, NEW t \in Nat, NEW n \in Nat,
           x \in DOMAIN buckets => n * Scale + buckets[x].tokens
                                      <= Burst * Scale + (buckets[x].at - t) * Rate,
           x \notin DOMAIN buckets => n * Scale <= (now - t) * Rate
    PROVE  LET m == IF granted_ /\ x = s THEN n + 1 ELSE n
           IN /\ x \in DOMAIN buckets' => m * Scale + buckets'[x].tokens
                                            <= Burst * Scale + (buckets'[x].at - t) * Rate
              /\ x \notin DOMAIN buckets' => m * Scale <= (now - t) * Rate
<1>1. /\ n * Scale \in Nat /\ (n + 1) * Scale = n * Scale + Scale /\ Scale \in Nat
      /\ Burst * Scale \in Nat
  <2>1. \A p, q \in Nat : p * q \in Nat /\ (p + 1) * q = p * q + q OBVIOUS
  <2> QED BY <2>1, SecurityBounds
<1>2. CASE Security!ConsumeKnown(s, granted_)
  <2>1. /\ s \in DOMAIN buckets /\ granted_ = (Security!Refilled(s) >= Scale)
        /\ buckets' = [buckets EXCEPT ![s] =
              [tokens |-> Security!Refilled(s) - IF granted_ THEN Scale ELSE 0, at |-> now]]
    BY <1>2 DEF Security!ConsumeKnown
  <2>2. DOMAIN buckets' = DOMAIN buckets BY <2>1
  <2>3. CASE x # s
    <3>1. x \in DOMAIN buckets => buckets'[x] = buckets[x] BY <2>1, <2>3
    <3> QED BY <3>1, <2>2, <2>3
  <2>4. CASE x = s
    <3>1. /\ buckets'[s].tokens = Security!Refilled(s) - IF granted_ THEN Scale ELSE 0
          /\ buckets'[s].at = now
      BY <2>1
    <3>2. /\ Security!Refilled(s) \in Nat
          /\ Security!Refilled(s) <= buckets[s].tokens + (now - buckets[s].at) * Rate
      BY <2>1, RefilledIs
    <3>3. n * Scale + (buckets[s].tokens + (now - buckets[s].at) * Rate)
            <= Burst * Scale + (now - t) * Rate
      <4>1. /\ buckets[s].tokens \in Nat /\ buckets[s].at \in Nat /\ now \in Nat
            /\ n * Scale \in Int
        BY <2>1, <1>1 DEF SecurityTypes
      <4>2. n * Scale + buckets[s].tokens <= Burst * Scale + (buckets[s].at - t) * Rate
        BY <2>1, <2>4
      <4> QED BY ONLY <4>1, <4>2, t \in Nat, CreditRefilled
    <3>4. (now - t) * Rate \in Int /\ (now - buckets[s].at) * Rate \in Int
      BY <2>1, RateAdds DEF SecurityTypes
    <3> DEFINE y == (now - buckets[s].at) * Rate
               z == (now - t) * Rate
               w == Burst * Scale
               p == n * Scale
               r == Security!Refilled(s)
    <3> HIDE DEF y, z, w, p, r
    <3>5. /\ y \in Int /\ z \in Int /\ w \in Int /\ p \in Int /\ r \in Int /\ Scale \in Int
          /\ buckets[s].tokens \in Int
          /\ r <= buckets[s].tokens + y /\ p + (buckets[s].tokens + y) <= w + z
      <4>1. y \in Int /\ z \in Int /\ w \in Int /\ p \in Int /\ r \in Int /\ Scale \in Int
        BY ONLY <3>2, <3>4, <1>1 DEF y, z, w, p, r
      <4>2. buckets[s].tokens \in Int BY <2>1 DEF SecurityTypes
      <4>3. r <= buckets[s].tokens + y BY ONLY <3>2 DEF y, r
      <4>4. p + (buckets[s].tokens + y) <= w + z BY ONLY <3>3 DEF y, z, w, p
      <4> QED BY ONLY <4>1, <4>2, <4>3, <4>4
    <3>6. p + r <= w + z /\ (p + Scale) + (r - Scale) <= w + z BY ONLY <3>5
    <3>7. CASE granted_
      <4>1. (n + 1) * Scale + buckets'[s].tokens <= Burst * Scale + (buckets'[s].at - t) * Rate
        <5>1. buckets'[s].tokens = r - Scale BY <3>1, <3>7 DEF r
        <5>2. (n + 1) * Scale = p + Scale BY <1>1 DEF p
        <5>3. (buckets'[s].at - t) * Rate = z BY <3>1 DEF z
        <5> QED BY ONLY <5>1, <5>2, <5>3, <3>6 DEF w
      <4> QED BY ONLY <4>1, <3>7, <2>4, <2>1, <2>2
    <3>8. CASE ~granted_
      <4>1. n * Scale + buckets'[s].tokens <= Burst * Scale + (buckets'[s].at - t) * Rate
        <5>1. buckets'[s].tokens = r BY <3>1, <3>8, <3>5 DEF r
        <5>3. (buckets'[s].at - t) * Rate = z BY <3>1 DEF z
        <5> QED BY ONLY <5>1, <5>3, <3>6 DEF w, p
      <4> QED BY ONLY <4>1, <3>8, <2>4, <2>1, <2>2
    <3> QED BY <3>7, <3>8
  <2> QED BY <2>3, <2>4
<1>3. CASE Security!ConsumeNew(s, granted_)
  <2>1. /\ s \notin DOMAIN buckets
        /\ DOMAIN buckets' = Security!Unexpired \cup (IF granted_ THEN {s} ELSE {})
        /\ \A y \in DOMAIN buckets' :
              buckets'[y] = IF y = s THEN [tokens |-> Burst * Scale - Scale, at |-> now]
                                     ELSE buckets[y]
    BY <1>3 DEF Security!ConsumeNew
  <2>2. \A y : y \in Security!Unexpired <=> y \in DOMAIN buckets /\ now - buckets[y].at < SourceTtl
    BY DEF Security!Unexpired
  <2>3. CASE x = s /\ granted_
    <3>1. x \in DOMAIN buckets' /\ buckets'[x].tokens = Burst * Scale - Scale /\ buckets'[x].at = now
      BY <2>1, <2>3
    <3>2. n * Scale <= (now - t) * Rate BY <2>1, <2>3
    <3>3. (now - t) * Rate \in Int BY RateAdds DEF SecurityTypes
    <3>4. (n * Scale + Scale) + (Burst * Scale - Scale) <= Burst * Scale + (now - t) * Rate
      <4> DEFINE p == n * Scale
                 z == (now - t) * Rate
                 w == Burst * Scale
      <4> HIDE DEF p, z, w
      <4>1. p \in Int /\ z \in Int /\ w \in Int /\ Scale \in Int /\ p <= z
        BY <3>2, <3>3, <1>1 DEF p, z, w
      <4>2. (p + Scale) + (w - Scale) <= w + z BY ONLY <4>1
      <4> QED BY ONLY <4>2 DEF p, z, w
    <3>5. (n + 1) * Scale + buckets'[x].tokens <= Burst * Scale + (buckets'[x].at - t) * Rate
      BY ONLY <3>1, <3>4, <1>1
    <3> QED BY ONLY <3>1, <3>5, <2>3
  <2>4. CASE ~(x = s /\ granted_)
    <3>1. CASE x \in DOMAIN buckets'
      <4>1. x \in DOMAIN buckets /\ buckets'[x] = buckets[x] BY <2>1, <2>2, <2>4, <3>1
      <4> QED BY <4>1, <3>1, <2>4
    <3>2. CASE x \notin DOMAIN buckets' /\ x \in DOMAIN buckets
      <4>1. ~(now - buckets[x].at < SourceTtl) BY <3>2, <2>1, <2>2
      <4>2. n * Scale <= (now - t) * Rate
        <5>1. /\ buckets[x].tokens \in Nat /\ buckets[x].at \in Nat /\ now \in Nat
              /\ n * Scale \in Int
          BY <3>2, <1>1 DEF SecurityTypes
        <5>2. n * Scale + buckets[x].tokens <= Burst * Scale + (buckets[x].at - t) * Rate
          BY <3>2
        <5> QED BY ONLY <4>1, <5>1, <5>2, t \in Nat, CreditForgotten
      <4> QED BY ONLY <4>2, <3>2, <2>4
    <3>3. CASE x \notin DOMAIN buckets' /\ x \notin DOMAIN buckets
      BY <3>3, <2>4
    <3> QED BY <3>1, <3>2, <3>3
  <2> QED BY <2>3, <2>4
<1> QED BY <1>2, <1>3 DEF Security!ConsumeToken

\* The bucket consume_token leaves: the tokens of a granted source are what
\* was left without the one it got.
LEMMA ConsumeTypes ==
    ASSUME SecurityTypes, SecurityTable, NEW s \in Sources, NEW granted_ \in BOOLEAN,
           Security!ConsumeToken(s, granted_)
    PROVE  /\ \A x \in DOMAIN buckets' :
                 /\ buckets'[x].tokens \in Nat /\ buckets'[x].at \in Nat
                 /\ buckets'[x].at <= now
           /\ SecurityTable'
           /\ granted_ => /\ s \in DOMAIN buckets' /\ buckets'[s].at = now
                          /\ buckets'[s].tokens + Scale <= Burst * Scale
<1>1. Scale \in Nat /\ Burst * Scale \in Nat /\ Scale <= Burst * Scale /\ MaxSources \in Nat
  BY SecurityBounds
<1>2. CASE Security!ConsumeKnown(s, granted_)
  <2>1. /\ s \in DOMAIN buckets /\ granted_ = (Security!Refilled(s) >= Scale)
        /\ buckets' = [buckets EXCEPT ![s] =
              [tokens |-> Security!Refilled(s) - IF granted_ THEN Scale ELSE 0, at |-> now]]
    BY <1>2 DEF Security!ConsumeKnown
  <2>2. DOMAIN buckets' = DOMAIN buckets BY <2>1
  <2>3. /\ buckets'[s].tokens = Security!Refilled(s) - IF granted_ THEN Scale ELSE 0
        /\ buckets'[s].at = now
    BY <2>1
  <2>4. Security!Refilled(s) \in Nat /\ Security!Refilled(s) <= Burst * Scale BY <2>1, RefilledIs
  <2>5. buckets'[s].tokens \in Nat /\ (granted_ => buckets'[s].tokens + Scale <= Burst * Scale)
    <3> DEFINE w == Burst * Scale
    <3> HIDE DEF w
    <3>1. w \in Nat /\ Security!Refilled(s) <= w BY <1>1, <2>4 DEF w
    <3>2. granted_ <=> Security!Refilled(s) >= Scale BY <2>1
    <3>3. buckets'[s].tokens \in Nat /\ (granted_ => buckets'[s].tokens + Scale <= w)
      BY ONLY <3>1, <3>2, <2>3, <2>4, <1>1
    <3> QED BY ONLY <3>3 DEF w
  <2>6. \A x \in DOMAIN buckets' : x # s => buckets'[x] = buckets[x] BY <2>1
  <2>7. now \in Nat BY DEF SecurityTypes
  <2> QED BY <2>1, <2>2, <2>3, <2>5, <2>6, <2>7 DEF SecurityTypes, SecurityTable
<1>3. CASE Security!ConsumeNew(s, granted_)
  <2>1. /\ s \notin DOMAIN buckets
        /\ granted_ = (Cardinality(Security!Unexpired) < MaxSources)
        /\ DOMAIN buckets' = Security!Unexpired \cup (IF granted_ THEN {s} ELSE {})
        /\ \A y \in DOMAIN buckets' :
              buckets'[y] = IF y = s THEN [tokens |-> Burst * Scale - Scale, at |-> now]
                                     ELSE buckets[y]
    BY <1>3, SecurityCounts DEF Security!ConsumeNew
  <2>2. Security!Unexpired \subseteq DOMAIN buckets BY DEF Security!Unexpired
  <2>3. /\ IsFiniteSet(Security!Unexpired) /\ Cardinality(Security!Unexpired) <= MaxSources
    <3>1. /\ IsFiniteSet(Security!Unexpired) /\ Cardinality(Security!Unexpired) \in Nat
          /\ Cardinality(DOMAIN buckets) \in Nat
          /\ Cardinality(Security!Unexpired) <= Cardinality(DOMAIN buckets)
      BY <2>2, FS_Subset, FS_CardinalityType DEF SecurityTable
    <3> QED BY ONLY <3>1, SecurityTable, <1>1 DEF SecurityTable
  <2>4. SecurityTable'
    <3>1. CASE granted_
      <4>1. DOMAIN buckets' = Security!Unexpired \cup {s} /\ s \notin Security!Unexpired
        BY <2>1, <2>2, <3>1
      <4>2. /\ IsFiniteSet(DOMAIN buckets')
            /\ Cardinality(DOMAIN buckets') = Cardinality(Security!Unexpired) + 1
        BY <4>1, <2>3, FS_AddElement
      <4>3. Cardinality(Security!Unexpired) \in Nat BY <2>3, FS_CardinalityType
      <4>4. Cardinality(Security!Unexpired) < MaxSources BY <2>1, <3>1
      <4>5. Cardinality(DOMAIN buckets') <= MaxSources BY ONLY <4>2, <4>3, <4>4, <1>1
      <4> QED BY <4>2, <4>5 DEF SecurityTable
    <3>2. CASE ~granted_
      <4>1. DOMAIN buckets' = Security!Unexpired BY <2>1, <3>2
      <4> QED BY <4>1, <2>3 DEF SecurityTable
    <3> QED BY <3>1, <3>2
  <2>5. ASSUME NEW x \in DOMAIN buckets'
        PROVE  buckets'[x].tokens \in Nat /\ buckets'[x].at \in Nat /\ buckets'[x].at <= now
    <3>1. CASE x = s BY <3>1, <2>1, <1>1 DEF SecurityTypes
    <3>2. CASE x # s
      <4>1. x \in DOMAIN buckets /\ buckets'[x] = buckets[x] BY <3>2, <2>1, <2>2
      <4> QED BY <4>1 DEF SecurityTypes
    <3> QED BY <3>1, <3>2
  <2>6. granted_ => /\ s \in DOMAIN buckets' /\ buckets'[s].at = now
                    /\ buckets'[s].tokens + Scale <= Burst * Scale
    <3> SUFFICES ASSUME granted_
                 PROVE  /\ s \in DOMAIN buckets' /\ buckets'[s].at = now
                        /\ buckets'[s].tokens + Scale <= Burst * Scale
      OBVIOUS
    <3>1. /\ s \in DOMAIN buckets' /\ buckets'[s].at = now
          /\ buckets'[s].tokens = Burst * Scale - Scale
      BY <2>1
    <3> QED BY ONLY <3>1, <1>1
  <2> QED BY <2>4, <2>5, <2>6
<1> QED BY <1>2, <1>3 DEF Security!ConsumeToken

\* Another token spent: the windows so far are what they were, and those up to
\* now count one more for its source.
LEMMA SpentGrows ==
    ASSUME SecurityTypes, NEW N, N = Len(admitted), NEW s \in Sources,
           admitted' = Append(admitted, <<s, now>>)
    PROVE  /\ admitted' \in Seq(Sources \X Nat) /\ Len(admitted') = N + 1
           /\ N \in Nat
           /\ \A i \in 1..N : /\ admitted'[i] = admitted[i]
                                          /\ admitted[i][1] \in Sources /\ admitted[i][2] \in Nat
           /\ admitted'[N + 1] = <<s, now>>
           /\ \A i, j \in 1..N : Spent(i, j)' = Spent(i, j) /\ Spent(i, j) \in Nat
           /\ \A i \in 1..N :
                 Spent(i, N + 1)' =
                    IF admitted[i][1] = s THEN Spent(i, N) + 1
                                          ELSE Spent(i, N)
           /\ Spent(N + 1, N + 1)' = 1
<1>1. /\ admitted \in Seq(Sources \X Nat) /\ now \in Nat /\ N \in Nat
      /\ \A i \in 1..N : admitted[i] \in Sources \X Nat
  BY LenProperties, ElementOfSeq DEF SecurityTypes
<1>2. <<s, now>> \in Sources \X Nat BY <1>1
<1>3. /\ admitted' \in Seq(Sources \X Nat) /\ Len(admitted') = N + 1
      /\ \A i \in 1..N : admitted'[i] = admitted[i]
      /\ admitted'[N + 1] = <<s, now>>
  BY <1>1, <1>2, AppendProperties
<1>4. \A i \in 1..N : admitted[i][1] \in Sources /\ admitted[i][2] \in Nat BY <1>1
<1>5. ASSUME NEW i \in 1..N, NEW j \in 1..N
      PROVE  /\ Spent(i, j)' = Spent(i, j) /\ Spent(i, j) \in Nat
             /\ IsFiniteSet({k \in i..j : admitted[k][1] = admitted[i][1]})
  <2>1. i \in Int /\ j \in Int /\ i..j \subseteq 1..N BY <1>1
  <2>2. \A k \in i..j : admitted'[k] = admitted[k] BY <2>1, <1>3
  <2>3. {k \in i..j : admitted'[k][1] = admitted'[i][1]}
          = {k \in i..j : admitted[k][1] = admitted[i][1]}
    BY <2>2, <1>3
  <2>4. IsFiniteSet(i..j) /\ {k \in i..j : admitted[k][1] = admitted[i][1]} \subseteq i..j
    BY <2>1, FS_Interval
  <2>5. IsFiniteSet({k \in i..j : admitted[k][1] = admitted[i][1]}) BY <2>4, FS_Subset
  <2>6. Cardinality({k \in i..j : admitted[k][1] = admitted[i][1]}) \in Nat
    BY <2>5, FS_CardinalityType
  <2> QED BY <2>3, <2>5, <2>6, SecurityCounts DEF Spent
<1>6. ASSUME NEW i \in 1..N
      PROVE  Spent(i, N + 1)' = IF admitted[i][1] = s THEN Spent(i, N) + 1 ELSE Spent(i, N)
  <2> DEFINE A == {k \in i..N : admitted[k][1] = admitted[i][1]}
             B == {k \in i..(N + 1) : admitted'[k][1] = admitted'[i][1]}
  <2>1. i \in Int /\ N \in 1..N /\ i <= N BY <1>1
  <2>2. IsFiniteSet(A) BY <2>1, <1>5
  <2>3. \A k : k \in i..(N + 1) <=> k \in i..N \/ k = N + 1 BY <2>1, <1>1
  <2>4. \A k \in i..N : admitted'[k] = admitted[k] BY <2>1, <1>1, <1>3
  <2>5. admitted'[i] = admitted[i] /\ admitted'[N + 1][1] = s BY <1>3, <1>1
  <2>6. CASE admitted[i][1] = s
    <3>1. B = A \cup {N + 1} BY <2>3, <2>4, <2>5, <2>6
    <3>2. N + 1 \notin A BY <1>1, <2>1
    <3> HIDE DEF A, B
    <3>3. Cardinality(B) = Cardinality(A) + 1 BY ONLY <3>1, <3>2, <2>2, FS_AddElement
    <3>4. Spent(i, N) = Cardinality(A) BY SecurityCounts DEF Spent, A
    <3>5. Spent(i, N + 1)' = Cardinality(B) BY SecurityCounts DEF Spent, B
    <3> QED BY ONLY <3>3, <3>4, <3>5, <2>6
  <2>7. CASE admitted[i][1] # s
    <3>1. B = A BY <2>3, <2>4, <2>5, <2>7
    <3> QED BY <3>1, <2>7, SecurityCounts DEF Spent
  <2> QED BY <2>6, <2>7
<1>7. Spent(N + 1, N + 1)' = 1
  <2>1. {k \in (N + 1)..(N + 1) : admitted'[k][1] = admitted'[N + 1][1]} = {N + 1} BY <1>1
  <2> QED BY <2>1, FS_Singleton, SecurityCounts DEF Spent
<1> QED BY <1>1, <1>3, <1>4, <1>5, <1>6, <1>7

\* What a window counts is a number.
LEMMA SpentIs ==
    ASSUME SecurityTypes
    PROVE  /\ Len(admitted) \in Nat
           /\ \A i \in 1..Len(admitted) : /\ admitted[i][1] \in Sources /\ admitted[i][2] \in Nat
                                          /\ Spent(i, Len(admitted)) \in Nat
<1>1. /\ admitted \in Seq(Sources \X Nat) /\ Len(admitted) \in Nat
      /\ \A i \in 1..Len(admitted) : admitted[i] \in Sources \X Nat
  BY LenProperties, ElementOfSeq DEF SecurityTypes
<1>2. ASSUME NEW i \in 1..Len(admitted) PROVE Spent(i, Len(admitted)) \in Nat
  <2> DEFINE A == {k \in i..Len(admitted) : admitted[k][1] = admitted[i][1]}
  <2>1. i \in Int /\ IsFiniteSet(i..Len(admitted)) /\ A \subseteq i..Len(admitted)
    BY <1>1, FS_Interval
  <2>2. IsFiniteSet(A) BY <2>1, FS_Subset
  <2> QED BY <2>2, FS_CardinalityType, SecurityCounts DEF Spent
<1> QED BY <1>1, <1>2

\* A token refused, or none asked for: the windows stay, and what was spent
\* stays covered.
LEMMA RefusalStep ==
    ASSUME SecurityTypes, SecurityTable, SecurityCredit, SecurityWindows, NEW s \in Sources,
           Security!ConsumeToken(s, FALSE), admitted' = admitted, now' = now
    PROVE  SecurityTypes' /\ SecurityTable' /\ SecurityCredit' /\ SecurityWindows'
<1>1. /\ SecurityTable'
      /\ \A x \in DOMAIN buckets' :
            buckets'[x].tokens \in Nat /\ buckets'[x].at \in Nat /\ buckets'[x].at <= now
  BY ConsumeTypes
<1>2. SecurityTypes' BY <1>1 DEF SecurityTypes
<1>3. SecurityCredit'
  <2> SUFFICES ASSUME NEW i \in 1..Len(admitted) PROVE Covered(i)' BY DEF SecurityCredit
  <2> DEFINE x == admitted[i][1]
             t == admitted[i][2]
             n == Spent(i, Len(admitted))
  <2>1. x \in Sources /\ t \in Nat /\ n \in Nat BY SpentIs
  <2>2. /\ x \in DOMAIN buckets => n * Scale + buckets[x].tokens
                                     <= Burst * Scale + (buckets[x].at - t) * Rate
        /\ x \notin DOMAIN buckets => n * Scale <= (now - t) * Rate
    BY DEF SecurityCredit, Covered
  <2>3. n' = n BY DEF Spent
  <2> HIDE DEF x, t, n
  <2>4. /\ x \in DOMAIN buckets' => n * Scale + buckets'[x].tokens
                                     <= Burst * Scale + (buckets'[x].at - t) * Rate
        /\ x \notin DOMAIN buckets' => n * Scale <= (now - t) * Rate
    BY <2>1, <2>2, ConsumeCovers
  <2>5. now' = now /\ admitted' = admitted OBVIOUS
  <2> QED BY ONLY <2>3, <2>4, <2>5 DEF Covered, x, t, n
<1>4. SecurityWindows' BY DEF SecurityWindows, Spent
<1> QED BY <1>1, <1>2, <1>3, <1>4

\* A token spent: the windows that end now are covered by what the bucket had.
LEMMA SpendStep ==
    ASSUME SecurityTypes, SecurityTable, SecurityCredit, SecurityWindows, NEW s \in Sources,
           Security!ConsumeToken(s, TRUE), admitted' = Append(admitted, <<s, now>>), now' = now
    PROVE  SecurityTypes' /\ SecurityTable' /\ SecurityCredit' /\ SecurityWindows'
<1>0. PICK N : N = Len(admitted) OBVIOUS
<1>1. /\ SecurityTable'
      /\ \A x \in DOMAIN buckets' :
            buckets'[x].tokens \in Nat /\ buckets'[x].at \in Nat /\ buckets'[x].at <= now
      /\ s \in DOMAIN buckets' /\ buckets'[s].at = now /\ buckets'[s].tokens + Scale <= Burst * Scale
  BY ConsumeTypes
<1>2. /\ admitted' \in Seq(Sources \X Nat) /\ Len(admitted') = N + 1 /\ N \in Nat
      /\ \A i \in 1..N : /\ admitted'[i] = admitted[i]
                         /\ admitted[i][1] \in Sources /\ admitted[i][2] \in Nat
      /\ admitted'[N + 1] = <<s, now>>
      /\ \A i, j \in 1..N : Spent(i, j)' = Spent(i, j) /\ Spent(i, j) \in Nat
      /\ \A i \in 1..N :
            Spent(i, N + 1)' = IF admitted[i][1] = s THEN Spent(i, N) + 1 ELSE Spent(i, N)
      /\ Spent(N + 1, N + 1)' = 1
  BY ONLY SpentGrows, <1>0, SecurityTypes, s \in Sources, admitted' = Append(admitted, <<s, now>>)
<1>3. now \in Nat /\ Scale \in Nat /\ Burst * Scale \in Nat /\ Scale <= Burst * Scale /\ Rate \in Nat
  BY SecurityBounds DEF SecurityTypes
<1>4. SecurityTypes'
  <2>1. now' \in Nat BY <1>3
  <2>2. \A x \in DOMAIN buckets' : /\ buckets'[x].tokens \in Nat /\ buckets'[x].at \in Nat
                                   /\ buckets'[x].at <= now'
    BY <1>1
  <2> QED BY ONLY <2>1, <2>2, <1>2 DEF SecurityTypes
<1>5. ASSUME NEW i \in 1..(N + 1)
      PROVE  LET x == admitted'[i][1]
                 t == admitted'[i][2]
                 m == Spent(i, N + 1)'
             IN /\ x \in DOMAIN buckets' => m * Scale + buckets'[x].tokens
                                             <= Burst * Scale + (buckets'[x].at - t) * Rate
                /\ x \notin DOMAIN buckets' => m * Scale <= (now - t) * Rate
  <2>1. CASE i \in 1..N
    <3> DEFINE x == admitted[i][1]
               t == admitted[i][2]
               n == Spent(i, N)
    <3>1. x \in Sources /\ t \in Nat /\ n \in Nat BY <1>2, <2>1
    <3>2. /\ x \in DOMAIN buckets => n * Scale + buckets[x].tokens
                                       <= Burst * Scale + (buckets[x].at - t) * Rate
          /\ x \notin DOMAIN buckets => n * Scale <= (now - t) * Rate
      BY <2>1, <1>0 DEF SecurityCredit, Covered
    <3>3. admitted'[i] = admitted[i] /\ Spent(i, N + 1)' = IF x = s THEN n + 1 ELSE n
      BY <1>2, <2>1
    <3> HIDE DEF x, t, n
    <3>4. LET m == IF TRUE /\ x = s THEN n + 1 ELSE n
          IN /\ x \in DOMAIN buckets' => m * Scale + buckets'[x].tokens
                                           <= Burst * Scale + (buckets'[x].at - t) * Rate
             /\ x \notin DOMAIN buckets' => m * Scale <= (now - t) * Rate
      BY <3>1, <3>2, ConsumeCovers
    <3> QED BY ONLY <3>3, <3>4 DEF x, t
  <2>2. CASE i = N + 1
    <3>1. admitted'[i][1] = s /\ admitted'[i][2] = now /\ Spent(i, N + 1)' = 1
      BY <1>2, <2>2
    <3>2. (buckets'[s].at - now) * Rate = 0
      <4>1. buckets'[s].at - now = 0 BY <1>1, <1>3
      <4>2. 0 * Rate = 0 BY <1>3
      <4> QED BY ONLY <4>1, <4>2
    <3>3. 1 * Scale = Scale BY <1>3
    <3>4. buckets'[s].tokens \in Nat BY <1>1
    <3>5. 1 * Scale + buckets'[s].tokens <= Burst * Scale + (buckets'[s].at - now) * Rate
      BY ONLY <3>2, <3>3, <3>4, <1>1, <1>3
    <3> QED BY ONLY <3>1, <3>5, <1>1
  <2>3. i \in 1..N \/ i = N + 1 BY <1>2
  <2> QED BY ONLY <2>1, <2>2, <2>3
<1>6. SecurityCredit'
  <2> SUFFICES ASSUME NEW i \in 1..(N + 1) PROVE Covered(i)'
    BY <1>2 DEF SecurityCredit
  <2>1. Spent(i, Len(admitted))' = Spent(i, N + 1)' BY ONLY <1>2 DEF Spent
  <2>2. now' = now OBVIOUS
  <2> QED BY ONLY <1>5, <2>1, <2>2 DEF Covered
<1>7. SecurityWindows'
  <2> SUFFICES ASSUME NEW i \in 1..(N + 1), NEW j \in 1..(N + 1), i <= j,
                      admitted'[i][1] = admitted'[j][1]
               PROVE  Spent(i, j)' * Scale
                        <= Burst * Scale + (admitted'[j][2] - admitted'[i][2]) * Rate
    BY <1>2 DEF SecurityWindows
  <2>1. CASE j \in 1..N
    <3>1. i \in 1..N BY <1>2, <2>1
    <3>2. /\ Spent(i, j)' = Spent(i, j)
          /\ admitted'[i] = admitted[i] /\ admitted'[j] = admitted[j]
      BY <3>1, <2>1, <1>2
    <3>3. Spent(i, j) * Scale <= Burst * Scale + (admitted[j][2] - admitted[i][2]) * Rate
      BY <3>1, <3>2, <2>1, <1>0 DEF SecurityWindows
    <3> QED BY ONLY <3>2, <3>3
  <2>2. CASE j = N + 1
    <3>1. admitted'[j][1] = s /\ admitted'[j][2] = now BY <1>2, <2>2
    <3> DEFINE t == admitted'[i][2]
               m == Spent(i, N + 1)'
    <3>2. m * Scale + buckets'[s].tokens <= Burst * Scale + (now - t) * Rate
      BY <1>5, <1>1, <3>1
    <3>3. t \in Nat /\ m \in Nat
      <4>1. CASE i \in 1..N
        <5>1. N \in 1..N BY <4>1, <1>2
        <5>2. t \in Nat BY <4>1, <1>2
        <5>3. Spent(i, N) \in Nat BY <4>1, <5>1, <1>2
        <5>4. m = IF admitted[i][1] = s THEN Spent(i, N) + 1 ELSE Spent(i, N) BY <4>1, <1>2
        <5> QED BY ONLY <5>2, <5>3, <5>4
      <4>2. CASE i = N + 1
        <5>1. t = now BY <4>2, <1>2
        <5>2. m = 1 BY <4>2, <1>2
        <5> QED BY ONLY <5>1, <5>2, <1>3
      <4>3. i \in 1..N \/ i = N + 1 BY <1>2
      <4> QED BY ONLY <4>1, <4>2, <4>3
    <3> HIDE DEF t, m
    <3>4. m * Scale \in Int /\ (now - t) * Rate \in Int /\ buckets'[s].tokens \in Nat
      BY <3>3, <1>1, <1>3
    <3>5. m * Scale <= Burst * Scale + (now - t) * Rate BY ONLY <3>2, <3>4, <1>3
    <3> QED BY ONLY <3>1, <3>5, <2>2 DEF t, m
  <2>3. j \in 1..N \/ j = N + 1 BY <1>2
  <2> QED BY ONLY <2>1, <2>2, <2>3
<1> QED BY <1>1, <1>4, <1>6, <1>7

\* Time passes: an idle source gains, a known one keeps what it had.
LEMMA TimeStep ==
    ASSUME SecurityTypes, SecurityTable, SecurityCredit, SecurityWindows,
           admitted' = admitted, buckets' = buckets, now' \in Nat, now <= now'
    PROVE  SecurityTypes' /\ SecurityTable' /\ SecurityCredit' /\ SecurityWindows'
<1>1. SecurityTypes' BY DEF SecurityTypes
<1>2. SecurityTable' BY DEF SecurityTable
<1>3. SecurityCredit'
  <2> SUFFICES ASSUME NEW i \in 1..Len(admitted) PROVE Covered(i)' BY DEF SecurityCredit
  <2> DEFINE x == admitted[i][1]
             t == admitted[i][2]
             n == Spent(i, Len(admitted))
  <2>1. x \in Sources /\ t \in Nat /\ n \in Nat BY SpentIs
  <2>2. /\ x \in DOMAIN buckets => n * Scale + buckets[x].tokens
                                     <= Burst * Scale + (buckets[x].at - t) * Rate
        /\ x \notin DOMAIN buckets => n * Scale <= (now - t) * Rate
    BY DEF SecurityCredit, Covered
  <2>3. n' = n BY DEF Spent
  <2>4. (now - t) * Rate <= (now' - t) * Rate /\ (now - t) * Rate \in Int /\ (now' - t) * Rate \in Int
    <3>1. \A p, q \in Int, r \in Nat : p <= q => p * r <= q * r /\ p * r \in Int /\ q * r \in Int
      OBVIOUS
    <3>2. now - t \in Int /\ now' - t \in Int /\ now - t <= now' - t /\ Rate \in Nat
      <4>1. now \in Int /\ now' \in Int /\ now <= now' /\ t \in Int /\ Rate \in Nat
        BY <2>1, SecurityBounds DEF SecurityTypes
      <4>2. \A a, b, c \in Int : a <= b => a - c \in Int /\ b - c \in Int /\ a - c <= b - c
        OBVIOUS
      <4> QED BY ONLY <4>1, <4>2
    <3> QED BY ONLY <3>1, <3>2
  <2> HIDE DEF x, t, n
  <2>5. n * Scale \in Int BY <2>1, SecurityBounds
  <2>6. x \notin DOMAIN buckets => n * Scale <= (now' - t) * Rate BY ONLY <2>2, <2>4, <2>5
  <2>7. buckets' = buckets /\ admitted' = admitted OBVIOUS
  <2> QED BY ONLY <2>2, <2>3, <2>6, <2>7 DEF Covered, x, t, n
<1>4. SecurityWindows' BY DEF SecurityWindows, Spent
<1> QED BY <1>1, <1>2, <1>3, <1>4

\* An order that lists what a registry knows, the oldest first.
Registered(o, r) ==
    /\ o \in Seq(Correlations)
    /\ \A c : c \in DOMAIN r <=> \E i \in 1..Len(o) : o[i] = c
    /\ \A c \in DOMAIN r : r[c] \in Nat
    /\ \A i, j \in 1..Len(o) : i < j => r[o[i]] < r[o[j]]

\* An id moves to the end of the order, or enters it there, with a number
\* above all others (record_correlation).
LEMMA RegisteredMoves ==
    ASSUME NEW o, NEW r, NEW r2, NEW c \in Correlations, NEW m \in Nat, Registered(o, r),
           \A d \in DOMAIN r : r[d] < m,
           DOMAIN r2 = DOMAIN r \cup {c},
           \A d \in DOMAIN r2 : r2[d] = IF d = c THEN m ELSE r[d]
    PROVE  Registered(Append(Security!Without(o, c), c), r2)
<1> DEFINE at == {i \in DOMAIN o : o[i] = c}
           w == Security!Without(o, c)
<1>1. o \in Seq(Correlations) /\ Len(o) \in Nat /\ DOMAIN o = 1..Len(o)
      /\ \A i \in 1..Len(o) : o[i] \in DOMAIN r
  BY LenProperties DEF Registered
\* What is left is the order without the id.
<1>2. /\ w \in Seq(Correlations) /\ Len(w) \in Nat
      /\ \A i \in 1..Len(w) : w[i] \in DOMAIN r /\ w[i] # c
      /\ \A i, j \in 1..Len(w) : i < j => r[w[i]] < r[w[j]]
      /\ \A d \in DOMAIN r : d # c => \E i \in 1..Len(w) : w[i] = d
  <2>1. CASE at = {}
    <3>1. w = o BY <2>1 DEF Security!Without
    <3>2. \A i \in 1..Len(o) : o[i] # c BY <2>1, <1>1
    <3> QED BY <3>1, <3>2, <1>1 DEF Registered
  <2>2. CASE at # {}
    <3> DEFINE k == CHOOSE i \in at : TRUE
    <3>1. k \in 1..Len(o) /\ o[k] = c
      <4>1. k \in at BY <2>2
      <4> QED BY <4>1, <1>1
    <3>2. w = SubSeq(o, 1, k - 1) \o SubSeq(o, k + 1, Len(o))
      BY <2>2 DEF Security!Without, Security!RemoveAt
    <3> HIDE DEF k, w
    <3>3. /\ w \in Seq(Correlations) /\ Len(w) = Len(o) - 1
          /\ \A i \in 1..(Len(o) - 1) : w[i] = IF i < k THEN o[i] ELSE o[i + 1]
      <4>1. LET t == SubSeq(o, 1, k - 1) \o SubSeq(o, k + 1, Len(o))
            IN /\ t \in Seq(Correlations) /\ Len(t) = Len(o) - 1
               /\ \A i \in 1..(Len(o) - 1) : t[i] = IF i < k THEN o[i] ELSE o[i + 1]
        BY ONLY <3>1, <1>1, DropsOne
      <4> QED BY ONLY <4>1, <3>2
    <3>4. \A i, j \in 1..Len(o) : i # j => o[i] # o[j]
      <4> SUFFICES ASSUME NEW i \in 1..Len(o), NEW j \in 1..Len(o), i < j PROVE o[i] # o[j]
        BY <1>1
      <4>1. r[o[i]] < r[o[j]] /\ r[o[i]] \in Nat /\ r[o[j]] \in Nat BY <1>1 DEF Registered
      <4> QED BY <4>1
    <3>5. ASSUME NEW i \in 1..Len(w)
          PROVE  w[i] \in DOMAIN r /\ w[i] # c
      <4>1. i \in 1..(Len(o) - 1) /\ i \in 1..Len(o) /\ i + 1 \in 1..Len(o) BY <3>3, <1>1
      <4>2. CASE i < k BY <4>1, <4>2, <3>1, <3>3, <3>4, <1>1
      <4>3. CASE ~(i < k)
        <5>1. w[i] = o[i + 1] /\ i + 1 # k BY <4>1, <4>3, <3>3, <3>1, <1>1
        <5> QED BY <5>1, <4>1, <3>1, <3>4, <1>1
      <4> QED BY <4>2, <4>3
    <3>6. ASSUME NEW i \in 1..Len(w), NEW j \in 1..Len(w), i < j
          PROVE  r[w[i]] < r[w[j]]
      <4> DEFINE p == IF i < k THEN i ELSE i + 1
                 q == IF j < k THEN j ELSE j + 1
      <4>1. w[i] = o[p] /\ w[j] = o[q] BY <3>3
      <4>2. p \in 1..Len(o) /\ q \in 1..Len(o) /\ p < q BY <3>6, <3>3, <3>1, <1>1
      <4> QED BY <4>1, <4>2 DEF Registered
    <3>7. ASSUME NEW d \in DOMAIN r, d # c PROVE \E i \in 1..Len(w) : w[i] = d
      <4>1. PICK n \in 1..Len(o) : o[n] = d BY DEF Registered
      <4>2. n # k BY <4>1, <3>1, <3>7
      <4>3. CASE n < k
        <5>1. n \in 1..Len(w) /\ w[n] = d BY <4>1, <4>3, <3>1, <3>3, <1>1
        <5> QED BY <5>1
      <4>4. CASE n > k
        <5>1. n - 1 \in 1..(Len(o) - 1) /\ ~(n - 1 < k) /\ n - 1 + 1 = n BY <4>4, <3>1, <1>1
        <5>2. n - 1 \in 1..Len(w) /\ w[n - 1] = d BY <5>1, <4>1, <3>3
        <5> QED BY <5>2
      <4> QED BY <4>2, <4>3, <4>4, <1>1, <3>1
    <3>8. Len(w) \in Nat BY <3>3, <3>1, <1>1
    <3> QED BY ONLY <3>3, <3>5, <3>6, <3>7, <3>8
  <2> QED BY <2>1, <2>2
<1> HIDE DEF w
<1> DEFINE t == Append(w, c)
<1>3. /\ t \in Seq(Correlations) /\ Len(t) = Len(w) + 1
      /\ \A i \in 1..Len(w) : t[i] = w[i]
      /\ t[Len(w) + 1] = c
  BY <1>2, AppendProperties
<1> HIDE DEF t
<1>4. ASSUME NEW d PROVE d \in DOMAIN r2 <=> \E i \in 1..Len(t) : t[i] = d
  <2>1. ASSUME d \in DOMAIN r2 PROVE \E i \in 1..Len(t) : t[i] = d
    <3>1. CASE d = c
      <4>1. Len(w) + 1 \in 1..Len(t) BY <1>2, <1>3
      <4> QED BY <4>1, <3>1, <1>3
    <3>2. CASE d # c
      <4>1. PICK i \in 1..Len(w) : w[i] = d BY <3>2, <2>1, <1>2
      <4>2. i \in 1..Len(t) /\ t[i] = d BY <4>1, <1>2, <1>3
      <4> QED BY <4>2
    <3> QED BY <3>1, <3>2
  <2>2. ASSUME NEW i \in 1..Len(t), t[i] = d PROVE d \in DOMAIN r2
    <3>1. CASE i = Len(w) + 1 BY <3>1, <2>2, <1>3
    <3>2. CASE i \in 1..Len(w) BY <3>2, <2>2, <1>2, <1>3
    <3> QED BY <3>1, <3>2, <1>2, <1>3
  <2> QED BY <2>1, <2>2
<1>5. \A d \in DOMAIN r2 : r2[d] \in Nat BY DEF Registered
<1>6. ASSUME NEW i \in 1..Len(t), NEW j \in 1..Len(t), i < j PROVE r2[t[i]] < r2[t[j]]
  <2>1. i \in 1..Len(w) BY <1>6, <1>2, <1>3
  <2>2. t[i] = w[i] /\ w[i] \in DOMAIN r /\ w[i] # c BY <2>1, <1>2, <1>3
  <2>3. r2[t[i]] = r[w[i]] BY <2>2
  <2>4. CASE j = Len(w) + 1
    <3>1. t[j] = c /\ r2[c] = m BY <2>4, <1>3
    <3> QED BY <3>1, <2>2, <2>3
  <2>5. CASE j \in 1..Len(w)
    <3>1. t[j] = w[j] /\ w[j] \in DOMAIN r /\ w[j] # c BY <2>5, <1>2, <1>3
    <3>2. r2[t[j]] = r[w[j]] BY <3>1
    <3>3. r[w[i]] < r[w[j]] BY <2>1, <2>5, <1>6, <1>2
    <3> QED BY ONLY <2>3, <3>2, <3>3
  <2>6. j = Len(w) + 1 \/ j \in 1..Len(w) BY <1>2, <1>3
  <2> QED BY ONLY <2>4, <2>5, <2>6
<1>7. Registered(t, r2) BY <1>3, <1>4, <1>5, <1>6 DEF Registered
<1> QED BY <1>7 DEF t, w

\* The oldest id leaves both.
LEMMA RegisteredEvicts ==
    ASSUME NEW o, NEW r, NEW r2, Registered(o, r), o # <<>>,
           DOMAIN r2 = DOMAIN r \ {Head(o)}, \A d \in DOMAIN r2 : r2[d] = r[d]
    PROVE  Registered(Tail(o), r2) /\ Head(o) \in DOMAIN r
<1>1. /\ o \in Seq(Correlations) /\ Len(o) \in Nat /\ 1 \in 1..Len(o) /\ Head(o) = o[1]
      /\ \A i \in 1..Len(o) : o[i] \in DOMAIN r
  BY LenProperties, EmptySeq DEF Registered
<1> DEFINE t == Tail(o)
<1>2. /\ t \in Seq(Correlations) /\ Len(t) = Len(o) - 1
      /\ \A i \in 1..Len(t) : t[i] = o[i + 1]
  BY <1>1, HeadTailProperties
<1> HIDE DEF t
<1>3. \A i \in 1..Len(t) : i + 1 \in 1..Len(o) /\ 1 < i + 1 BY <1>1, <1>2
<1>4. ASSUME NEW i \in 1..Len(t) PROVE t[i] \in DOMAIN r2
  <2>1. r[o[1]] < r[o[i + 1]] /\ r[o[1]] \in Nat /\ r[o[i + 1]] \in Nat
    BY <1>1, <1>3 DEF Registered
  <2>2. o[i + 1] # o[1] BY <2>1
  <2> QED BY <2>2, <1>1, <1>2, <1>3
<1>5. ASSUME NEW d \in DOMAIN r2 PROVE \E i \in 1..Len(t) : t[i] = d
  <2>1. PICK n \in 1..Len(o) : o[n] = d BY DEF Registered
  <2>2. n # 1 BY <2>1, <1>1
  <2>3. n - 1 \in 1..Len(t) /\ n - 1 + 1 = n BY <2>2, <1>1, <1>2
  <2> QED BY <2>1, <2>3, <1>2
<1>6. ASSUME NEW i \in 1..Len(t), NEW j \in 1..Len(t), i < j PROVE r2[t[i]] < r2[t[j]]
  <2>1. r2[t[i]] = r[o[i + 1]] /\ r2[t[j]] = r[o[j + 1]] BY <1>4, <1>2
  <2>2. i + 1 \in 1..Len(o) /\ j + 1 \in 1..Len(o) /\ i + 1 < j + 1 BY <1>3, <1>6
  <2> QED BY <2>1, <2>2 DEF Registered
<1>7. Registered(t, r2) BY <1>2, <1>4, <1>5, <1>6 DEF Registered
<1> QED BY <1>7, <1>1 DEF t

\* The audit log keeps the newest records, numbered.
SecurityAudit ==
    /\ audited \in Nat /\ evicted \in Nat
    /\ audit \in Seq(Nat)
    /\ Security!AuditAccounted

\* The registry and its order, which is as long as it has entries at most.
SecurityRegistry ==
    /\ Registered(order, registry)
    /\ IsFiniteSet(DOMAIN registry) /\ Cardinality(DOMAIN registry) <= CorrelationLimit
    /\ \A c \in DOMAIN registry : registry[c] <= audited

SecurityInv ==
    /\ SecurityTypes /\ SecurityTable /\ SecurityCredit /\ SecurityWindows
    /\ SecurityAudit /\ SecurityRegistry

\* Before the first call nothing is spent, listed or audited.
LEMMA SecurityInvInit == Security!Init => SecurityInv
<1> SUFFICES ASSUME Security!Init PROVE SecurityInv OBVIOUS
<1>1. /\ now = 0 /\ DOMAIN buckets = {} /\ audit = <<>> /\ evicted = 0 /\ order = <<>>
      /\ DOMAIN registry = {} /\ admitted = <<>> /\ audited = 0
  BY DEF Security!Init
<1>2. /\ <<>> \in Seq(Sources \X Nat) /\ <<>> \in Seq(Nat) /\ <<>> \in Seq(Correlations)
      /\ Len(<<>>) = 0 /\ DOMAIN <<>> = {}
  BY EmptySeq
<1>3. IsFiniteSet({}) /\ Cardinality({}) = 0 BY FS_EmptySet
<1>4. MaxSources \in Nat /\ CorrelationLimit \in Nat BY SecurityBounds
<1>5. SecurityTypes BY <1>1, <1>2 DEF SecurityTypes
<1>6. SecurityTable BY <1>1, <1>3, <1>4 DEF SecurityTable
<1>7. SecurityCredit /\ SecurityWindows BY <1>1, <1>2 DEF SecurityCredit, SecurityWindows
<1>8. SecurityAudit BY <1>1, <1>2 DEF SecurityAudit, Security!AuditAccounted
<1>9. SecurityRegistry BY <1>1, <1>2, <1>3, <1>4 DEF SecurityRegistry, Registered
<1> QED BY <1>5, <1>6, <1>7, <1>8, <1>9 DEF SecurityInv

\* Another record: the oldest beyond the limit is counted instead (push_audit).
LEMMA AuditStep ==
    ASSUME SecurityAudit, Security!PushAudit
    PROVE  SecurityAudit' /\ audited' = audited + 1 /\ audited \in Nat
<1> DEFINE all == Append(audit, audited + 1)
           remove == IF Len(all) > AuditLimit THEN Len(all) - AuditLimit ELSE 0
<1>1. /\ audit' = SubSeq(all, remove + 1, Len(all))
      /\ evicted' = evicted + remove /\ audited' = audited + 1
  BY DEF Security!PushAudit
<1>2. /\ audited \in Nat /\ evicted \in Nat /\ audit \in Seq(Nat) /\ Len(audit) \in Nat
      /\ Len(audit) + evicted = audited
      /\ \A i \in 1..Len(audit) : audit[i] = evicted + i
  BY LenProperties DEF SecurityAudit, Security!AuditAccounted
<1>3. /\ all \in Seq(Nat) /\ Len(all) = Len(audit) + 1
      /\ \A i \in 1..Len(audit) : all[i] = audit[i]
      /\ all[Len(audit) + 1] = audited + 1
  BY <1>2, AppendProperties
<1> HIDE DEF all
<1>4. remove \in Nat /\ remove <= Len(all) BY <1>3, <1>2, SecurityBounds
<1> HIDE DEF remove
<1>5. \A i \in 1..Len(all) : all[i] = evicted + i /\ all[i] \in Nat
  <2> SUFFICES ASSUME NEW i \in 1..Len(all) PROVE all[i] = evicted + i /\ all[i] \in Nat
    OBVIOUS
  <2>0. i \in Nat /\ (i \in 1..Len(audit) \/ i = Len(audit) + 1) BY <1>2, <1>3
  <2>1. CASE i \in 1..Len(audit)
    <3>1. all[i] = evicted + i BY <2>1, <1>2, <1>3
    <3> QED BY ONLY <3>1, <1>2, <2>0
  <2>2. CASE i = Len(audit) + 1
    <3>1. all[i] = audited + 1 BY <2>2, <1>3
    <3>2. audited + 1 = evicted + i BY ONLY <2>2, <1>2
    <3> QED BY ONLY <3>1, <3>2, <1>2, <2>0
  <2> QED BY ONLY <2>0, <2>1, <2>2
<1>6. /\ audit' \in Seq(Nat) /\ Len(audit') = Len(all) - remove
      /\ \A i \in 1..(Len(all) - remove) : audit'[i] = all[remove + i]
  <2>1. remove + 1 \in Int /\ Len(all) \in Int /\ \A i \in (remove + 1)..Len(all) : all[i] \in Nat
    BY <1>5, <1>4, <1>3, <1>2
  <2>2. /\ SubSeq(all, remove + 1, Len(all)) \in Seq(Nat)
        /\ Len(SubSeq(all, remove + 1, Len(all)))
             = IF remove + 1 <= Len(all) THEN Len(all) - (remove + 1) + 1 ELSE 0
        /\ \A i \in 1..(Len(all) - (remove + 1) + 1) :
              SubSeq(all, remove + 1, Len(all))[i] = all[remove + 1 + i - 1]
    BY <2>1, SubSeqProperties
  <2>3. Len(all) \in Nat BY <1>3, <1>2
  <2>4. Len(all) - (remove + 1) + 1 = Len(all) - remove BY <2>3, <1>4
  <2>5. \A i \in 1..(Len(all) - remove) : remove + 1 + i - 1 = remove + i BY <1>4, <2>3
  <2>6. IF remove + 1 <= Len(all) THEN Len(all) - (remove + 1) + 1 = Len(all) - remove
                                  ELSE Len(all) - remove = 0
    BY ONLY <2>3, <1>4
  <2>7. Len(audit') = Len(all) - remove BY ONLY <2>2, <2>6, <1>1
  <2>8. \A i \in 1..(Len(all) - remove) : audit'[i] = all[remove + i]
    BY ONLY <2>2, <2>4, <2>5, <1>1
  <2> QED BY ONLY <2>2, <2>7, <2>8, <1>1
<1>7. \A i \in 1..Len(audit') : audit'[i] = evicted' + i
  BY <1>1, <1>2, <1>3, <1>4, <1>5, <1>6
<1>8. Len(audit') + evicted' = audited'
  <2>0. Len(audit') = Len(all) - remove BY ONLY <1>6
  <2>4. Len(all) = Len(audit) + 1 BY ONLY <1>3
  <2>2. /\ Len(audit) \in Nat /\ evicted \in Nat /\ remove \in Nat
        /\ Len(audit) + evicted = audited
    BY ONLY <1>2, <1>4
  <2>1. Len(audit') = Len(audit) + 1 - remove BY ONLY <2>0, <2>4, <2>2
  <2>3. evicted' = evicted + remove /\ audited' = audited + 1 BY ONLY <1>1
  <2> QED BY ONLY <2>1, <2>2, <2>3
<1>9. DOMAIN audit' = 1..Len(audit') BY <1>6, LenProperties
<1>10. audited' \in Nat /\ evicted' \in Nat BY <1>1, <1>2, <1>4
<1>11. Security!AuditAccounted' BY <1>7, <1>8, <1>9 DEF Security!AuditAccounted
<1> QED BY <1>1, <1>2, <1>6, <1>10, <1>11 DEF SecurityAudit

\* The id of a queued event becomes the newest, and the oldest leaves when
\* there are too many (record_correlation).
LEMMA RegistryStep ==
    ASSUME SecurityRegistry, audited \in Nat, audited' = audited + 1, NEW c \in Correlations,
           Security!RecordCorrelation(c)
    PROVE  SecurityRegistry'
<1> DEFINE longer == Append(Security!Without(order, c), c)
           D == DOMAIN registry \cup {c}
           outgrown == Cardinality(D) > CorrelationLimit
           r == [x \in D |-> IF x = c THEN audited + 1 ELSE registry[x]]
<1>1. /\ order' = IF outgrown THEN Tail(longer) ELSE longer
      /\ DOMAIN registry' = D \ (IF outgrown THEN {Head(longer)} ELSE {})
      /\ \A x \in DOMAIN registry' :
            registry'[x] = IF x = c THEN audited + 1 ELSE registry[x]
  BY SecurityCounts DEF Security!RecordCorrelation
<1>2. Registered(longer, r)
  <2>1. \A d \in DOMAIN registry : registry[d] < audited + 1
    BY DEF SecurityRegistry, Registered
  <2>2. /\ DOMAIN r = DOMAIN registry \cup {c} /\ audited + 1 \in Nat
        /\ \A d \in DOMAIN r : r[d] = IF d = c THEN audited + 1 ELSE registry[d]
    OBVIOUS
  <2>3. Registered(order, registry) BY DEF SecurityRegistry
  <2> HIDE DEF r
  <2> QED BY ONLY <2>1, <2>2, <2>3, RegisteredMoves, c \in Correlations
<1>3. \A d \in D : r[d] <= audited + 1
  BY DEF SecurityRegistry, Registered
<1>4. /\ IsFiniteSet(D) /\ Cardinality(D) \in Nat /\ Cardinality(D) <= CorrelationLimit + 1
  <2>1. IsFiniteSet(DOMAIN registry) /\ Cardinality(DOMAIN registry) \in Nat
    BY FS_CardinalityType DEF SecurityRegistry
  <2>2. /\ IsFiniteSet(D)
        /\ Cardinality(D) = IF c \in DOMAIN registry THEN Cardinality(DOMAIN registry)
                                                     ELSE Cardinality(DOMAIN registry) + 1
    BY <2>1, FS_AddElement
  <2>3. Cardinality(DOMAIN registry) <= CorrelationLimit BY DEF SecurityRegistry
  <2>4. CorrelationLimit \in Nat BY SecurityBounds
  <2> QED BY ONLY <2>1, <2>2, <2>3, <2>4
<1>5. DOMAIN r = D /\ \A x \in DOMAIN registry' : x \in D /\ registry'[x] = r[x] BY <1>1
<1>6. longer # <<>> BY DEF Registered
<1> HIDE DEF longer, r, D
<1>7. CASE ~outgrown
  <2>1. order' = longer /\ DOMAIN registry' = DOMAIN r BY <1>1, <1>5, <1>7
  <2>2. Registered(order', registry')
    <3>1. \A x \in DOMAIN r : registry'[x] = r[x] BY <2>1, <1>5
    <3> QED BY <3>1, <2>1, <1>2 DEF Registered
  <2>3. IsFiniteSet(DOMAIN registry') /\ Cardinality(DOMAIN registry') <= CorrelationLimit
    BY <2>1, <1>4, <1>5, <1>7, SecurityBounds
  <2>4. \A x \in DOMAIN registry' : registry'[x] <= audited'
    BY <1>3, <1>5
  <2> QED BY <2>2, <2>3, <2>4 DEF SecurityRegistry
<1>8. CASE outgrown
  <2>1. order' = Tail(longer) /\ DOMAIN registry' = DOMAIN r \ {Head(longer)}
    BY <1>1, <1>5, <1>8
  <2>2. Registered(order', registry') /\ Head(longer) \in D
    BY <2>1, <1>2, <1>5, <1>6, RegisteredEvicts
  <2>3. IsFiniteSet(DOMAIN registry') /\ Cardinality(DOMAIN registry') <= CorrelationLimit
    <3>1. DOMAIN registry' = D \ {Head(longer)} BY <2>1, <1>5
    <3>2. IsFiniteSet(D \ {Head(longer)}) /\ Cardinality(D \ {Head(longer)}) = Cardinality(D) - 1
      BY <2>2, <1>4, FS_RemoveElement
    <3>3. CorrelationLimit \in Nat BY SecurityBounds
    <3> QED BY ONLY <3>1, <3>2, <3>3, <1>4
  <2>4. \A x \in DOMAIN registry' : registry'[x] <= audited'
    BY <1>3, <1>5
  <2> QED BY <2>2, <2>3, <2>4 DEF SecurityRegistry
<1> QED BY <1>7, <1>8

\* The parts of the invariant that an audited decision leaves alone.
LEMMA SecurityKept ==
    ASSUME SecurityInv, UNCHANGED <<buckets, order, registry, admitted>>,
           now' \in Nat, now <= now',
           \/ Security!PushAudit
           \/ UNCHANGED <<audit, evicted, audited>>
    PROVE  SecurityInv'
<1>1. SecurityTypes' /\ SecurityTable' /\ SecurityCredit' /\ SecurityWindows'
  BY TimeStep DEF SecurityInv
<1>2. SecurityAudit' /\ audited <= audited' /\ audited \in Nat
  <2>1. CASE Security!PushAudit BY <2>1, AuditStep DEF SecurityInv
  <2>2. CASE UNCHANGED <<audit, evicted, audited>>
    BY <2>2 DEF SecurityInv, SecurityAudit, Security!AuditAccounted
  <2> QED BY <2>1, <2>2
<1>3. SecurityRegistry'
  <2>1. \A c \in DOMAIN registry : registry[c] \in Nat /\ registry[c] <= audited
    BY DEF SecurityInv, SecurityRegistry, Registered
  <2>2. \A c \in DOMAIN registry : registry[c] <= audited'
    <3>1. audited' \in Nat BY <1>2 DEF SecurityAudit
    <3> QED BY ONLY <3>1, <2>1, <1>2
  <2> QED BY <2>2 DEF SecurityInv, SecurityRegistry, Registered
<1> QED BY <1>1, <1>2, <1>3 DEF SecurityInv

\* The registry when only the audit log grows.
LEMMA RegistryKept ==
    ASSUME SecurityRegistry, audited \in Nat, audited' = audited + 1,
           UNCHANGED <<order, registry>>
    PROVE  SecurityRegistry'
<1>1. \A c \in DOMAIN registry : registry[c] \in Nat /\ registry[c] <= audited
  BY DEF SecurityRegistry, Registered
<1>2. \A c \in DOMAIN registry : registry[c] <= audited' BY <1>1
<1> QED BY <1>2 DEF SecurityRegistry, Registered

\* One call on the security runtime, or time that passes.
LEMMA SecurityInvStep == ASSUME SecurityInv, Security!Next PROVE SecurityInv'
<1>0. now \in Nat /\ audited \in Nat BY DEF SecurityInv, SecurityTypes, SecurityAudit
<1>1. ASSUME NEW e \in Security!Event, Security!AdmitInvalid(e) PROVE SecurityInv'
  <2>1. UNCHANGED <<now, buckets, order, registry, admitted, audit, evicted, audited>>
    BY <1>1 DEF Security!AdmitInvalid, Security!vars
  <2>2. now' \in Nat /\ now <= now' BY <2>1, <1>0
  <2> QED BY ONLY <2>1, <2>2, SecurityInv, SecurityKept
<1>2. ASSUME NEW e \in Security!Event, Security!AdmitRefused(e) PROVE SecurityInv'
  <2>1. Security!PushAudit /\ UNCHANGED <<now, buckets, order, registry, admitted>>
    BY <1>2 DEF Security!AdmitRefused, Security!admission
  <2>2. now' \in Nat /\ now <= now' BY <2>1, <1>0
  <2> QED BY ONLY <2>1, <2>2, SecurityInv, SecurityKept
<1>3. ASSUME NEW e \in Security!Event, Security!AdmitDroppedRate(e) PROVE SecurityInv'
  <2>1. /\ Security!ConsumeToken(e.source, FALSE) /\ Security!PushAudit
        /\ UNCHANGED <<now, order, registry, admitted>> /\ e.source \in Sources
    BY <1>3 DEF Security!AdmitDroppedRate, Security!Event
  <2>2. SecurityTypes' /\ SecurityTable' /\ SecurityCredit' /\ SecurityWindows'
    BY <2>1, RefusalStep DEF SecurityInv
  <2>3. SecurityAudit' /\ audited' = audited + 1 BY <2>1, AuditStep DEF SecurityInv
  <2>4. SecurityRegistry' BY <2>1, <2>3, <1>0, RegistryKept DEF SecurityInv
  <2> QED BY <2>2, <2>3, <2>4 DEF SecurityInv
<1>4. ASSUME NEW e \in Security!Event, Security!AdmitBackpressure(e) PROVE SecurityInv'
  <2>1. /\ Security!ConsumeToken(e.source, TRUE) /\ Security!PushAudit
        /\ admitted' = Append(admitted, <<e.source, now>>)
        /\ UNCHANGED <<now, order, registry>> /\ e.source \in Sources
    BY <1>4 DEF Security!AdmitBackpressure, Security!Event
  <2>2. SecurityTypes' /\ SecurityTable' /\ SecurityCredit' /\ SecurityWindows'
    BY <2>1, SpendStep DEF SecurityInv
  <2>3. SecurityAudit' /\ audited' = audited + 1 BY <2>1, AuditStep DEF SecurityInv
  <2>4. SecurityRegistry' BY <2>1, <2>3, <1>0, RegistryKept DEF SecurityInv
  <2> QED BY <2>2, <2>3, <2>4 DEF SecurityInv
<1>5. ASSUME NEW e \in Security!Event, Security!AdmitQueued(e) PROVE SecurityInv'
  <2>1. /\ Security!ConsumeToken(e.source, TRUE) /\ Security!PushAudit
        /\ admitted' = Append(admitted, <<e.source, now>>)
        /\ Security!RecordCorrelation(e.correlation)
        /\ now' = now /\ e.source \in Sources /\ e.correlation \in Correlations
    BY <1>5 DEF Security!AdmitQueued, Security!Event
  <2>2. SecurityTypes' /\ SecurityTable' /\ SecurityCredit' /\ SecurityWindows'
    BY <2>1, SpendStep DEF SecurityInv
  <2>3. SecurityAudit' /\ audited' = audited + 1 BY <2>1, AuditStep DEF SecurityInv
  <2>4. SecurityRegistry' BY <2>1, <2>3, <1>0, RegistryStep DEF SecurityInv
  <2> QED BY <2>2, <2>3, <2>4 DEF SecurityInv
<1>6. CASE Security!PopContent BY <1>6, <1>0, SecurityKept DEF Security!PopContent
<1>7. ASSUME NEW action, NEW claim, NEW capable, Security!HandleControl(action, claim, capable)
      PROVE  SecurityInv'
  BY <1>7, <1>0, SecurityKept DEF Security!HandleControl, Security!admission
<1>8. CASE Security!AuditedDecision
  BY <1>8, <1>0, SecurityKept DEF Security!AuditedDecision, Security!admission
<1>9. CASE Security!TimePasses
  <2>1. now' = now + 1 /\ UNCHANGED <<buckets, order, registry, admitted, audit, evicted, audited>>
    BY <1>9 DEF Security!TimePasses, Security!admission
  <2>2. now' \in Nat /\ now <= now' BY <2>1, <1>0
  <2> QED BY <2>1, <2>2, SecurityKept
<1> QED BY <1>1, <1>2, <1>3, <1>4, <1>5, <1>6, <1>7, <1>8, <1>9 DEF Security!Next

\* What the invariant says of the run's properties.
LEMMA SecurityInvSays ==
    ASSUME SecurityInv
    PROVE  Security!RateBounded /\ Security!RegistryConsistent /\ Security!AuditAccounted
<1>1. Security!RateBounded
  <2>1. DOMAIN admitted = 1..Len(admitted) BY LenProperties DEF SecurityInv, SecurityTypes
  <2>2. Security!Cardinality(DOMAIN buckets) <= MaxSources
    BY SecurityCounts DEF SecurityInv, SecurityTable
  <2> QED BY <2>1, <2>2 DEF SecurityInv, SecurityWindows, Spent, Security!RateBounded
<1>2. Security!RegistryConsistent
  <2>1. DOMAIN order = 1..Len(order)
    BY LenProperties DEF SecurityInv, SecurityRegistry, Registered
  <2>2. Security!Cardinality(DOMAIN registry) <= CorrelationLimit
    BY SecurityCounts DEF SecurityInv, SecurityRegistry
  <2>3. {order[i] : i \in DOMAIN order} = DOMAIN registry
    BY <2>1 DEF SecurityInv, SecurityRegistry, Registered
  <2> QED BY <2>1, <2>2, <2>3
      DEF SecurityInv, SecurityRegistry, Registered, Security!RegistryConsistent
<1>3. Security!AuditAccounted BY DEF SecurityInv, SecurityAudit
<1> QED BY <1>1, <1>2, <1>3

\* The security runtime's invariant while it is the part that moves.
SecurityHolds == part = "security" => SecurityInv

\* It holds at the start.
LEMMA SecurityHoldsInit == Init => SecurityHolds
BY SecurityInvInit DEF Init, SecurityHolds

\* It is kept by every step, whoever moves.
LEMMA SecurityHoldsStep ==
    SecurityHolds
    /\ [Next]_<<part, ingressVars, loopVars, securityVars, pathVars, linkVars>>
    => SecurityHolds'
<1> SUFFICES ASSUME SecurityHolds, part' = "security",
                    [Next]_<<part, ingressVars, loopVars, securityVars, pathVars, linkVars>>
             PROVE  SecurityInv'
  BY DEF SecurityHolds
<1>1. CASE Next
  <2>1. part = "security" /\ Security!Next BY <1>1 DEF Next
  <2> QED BY <2>1, SecurityInvStep DEF SecurityHolds
<1>2. CASE UNCHANGED <<part, ingressVars, loopVars, securityVars, pathVars, linkVars>>
  <2>1. SecurityInv /\ UNCHANGED <<now, buckets, order, registry, admitted, audit, evicted, audited>>
    BY <1>2 DEF SecurityHolds, securityVars
  <2>2. now' \in Nat /\ now <= now' BY <2>1 DEF SecurityInv, SecurityTypes
  <2> QED BY <2>1, <2>2, SecurityKept
<1> QED BY <1>1, <1>2

\* In any window of time a source spends at most the burst and what the rate
\* adds, however often the table forgot it; the table and the correlation
\* registry keep their limits, the registry lists what it knows in the order of
\* admission, and every audited operation is retained or counted
\* (SecurityRuntime of runtime/src/lib.rs).
THEOREM SecurityIsSound == Spec => []SecuritySound
<1>1. SecurityHolds => SecuritySound BY SecurityInvSays DEF SecurityHolds, SecuritySound
<1> QED BY <1>1, SecurityHoldsInit, SecurityHoldsStep, PTL DEF Spec
=============================================================================
