----------------------------- MODULE RawIngress -----------------------------
(***************************************************************************)
(* The raw-ingress reader of crates/app/src/raw_ingress.rs: a thread reads *)
(* newline-delimited records from standard input buffer by buffer, keeps a *)
(* bounded prefix of each, and offers complete records to the runtime loop *)
(* through a bounded channel, dropping the newest when the channel is      *)
(* full.  The runtime loop receives concurrently and may go away.          *)
(*                                                                         *)
(* Bytes are abstracted to counts; the only byte whose value matters is a  *)
(* carriage return at the end of what has been read.  Records carry the    *)
(* number of the line they came from.                                      *)
(***************************************************************************)
EXTENDS Integers, Sequences, FiniteSets

CONSTANTS
    MaxRecordBytes,   \* config.max_record_bytes
    QueueCapacity,    \* config.queue_capacity
    MaxBuffer,        \* bound: the longest buffer fill_buf returns
    MaxLineBytes,     \* bound: the longest line on the input
    MaxLines          \* bound: lines on the input

\* RawIngressConfig::validate
ConfigAssumption ==
    /\ MaxRecordBytes \in Nat \ {0}
    /\ QueueCapacity \in Nat \ {0}

BoundAssumption ==
    MaxBuffer \in Nat /\ MaxLineBytes \in Nat /\ MaxLines \in Nat

RetainLimit == MaxRecordBytes + 1

VARIABLES
    pc,        \* the reader: "read", "finish", "send", "count", or how it exited
    line,      \* number of the line being read
    retained,  \* retained.len()
    lastCr,    \* retained.last() == Some(&b'\r')
    total,     \* total_bytes
    sawInput,  \* saw_input
    over,      \* definitely_oversized
    metrics,   \* RawIngressMetricState
    queue,     \* the sync_channel: line numbers of the records in it
    receiver,  \* is the receiving end alive?
    received,  \* records the loop has taken, in order (history variable)
    dropped    \* line -> why it never reached the queue (history variable)

vars == <<pc, line, retained, lastCr, total, sawInput, over, metrics, queue,
          receiver, received, dropped>>
record == <<line, retained, lastCr, total, sawInput, over>>

Exits == {"eof", "error", "disconnected"}

Init ==
    /\ pc = "read"
    /\ line = 1
    /\ retained = 0 /\ total = 0
    /\ lastCr = FALSE /\ sawInput = FALSE /\ over = FALSE
    /\ metrics = [enqueued |-> 0, full |-> 0, oversize |-> 0, errors |-> 0,
                  maxRetained |-> 0]
    /\ queue = <<>> /\ receiver = TRUE
    /\ received = <<>> /\ dropped = [n \in {} |-> "full"]

NextRecord ==
    /\ line' = line + 1
    /\ retained' = 0 /\ total' = 0
    /\ lastCr' = FALSE /\ sawInput' = FALSE /\ over' = FALSE

-----------------------------------------------------------------------------
(* read_bounded_record                                                     *)

AtLeast(a, b) == IF a >= b THEN a ELSE b
AtMost(a, b)  == IF a <= b THEN a ELSE b

\* What of a buffer's bytes is kept: what still fits under the limit.
Keep(kept, bytes) ==
    kept + AtMost(bytes, IF kept > RetainLimit THEN 0 ELSE RetainLimit - kept)

\* fill_buf returns bytes, with or without a newline behind the first `bytes`
\* of them; `cr` says whether the last of these is a carriage return.
FillBuffer(bytes, newline, cr) ==
    /\ pc = "read" /\ line <= MaxLines
    /\ total + bytes <= MaxLineBytes
    /\ bytes > 0 \/ newline
    /\ cr => bytes > 0
    /\ sawInput' = TRUE
    /\ total' = total + bytes
    /\ IF over THEN UNCHANGED <<retained, lastCr, over, metrics>>
       ELSE /\ retained' = Keep(retained, bytes)
            /\ lastCr' = IF bytes = 0 THEN lastCr ELSE cr
            /\ over' = (total' > RetainLimit)
            /\ metrics' = [metrics EXCEPT !.maxRetained = AtLeast(@, retained')]
    /\ pc' = IF newline THEN "finish" ELSE "read"
    /\ UNCHANGED <<line, queue, receiver, received, dropped>>

\* An empty buffer is the end of the input: it ends a record that has begun.
EndOfInput ==
    /\ pc = "read"
    /\ pc' = IF sawInput THEN "finish" ELSE "eof"
    /\ UNCHANGED <<record, metrics, queue, receiver, received, dropped>>

\* fill_buf fails: what was read of the record is lost and the reader ends.
ReadFails ==
    /\ pc = "read"
    /\ metrics' = [metrics EXCEPT !.errors = @ + 1]
    /\ pc' = "error"
    /\ UNCHANGED <<record, queue, receiver, received, dropped>>

\* Mutant: the carriage return counts towards the record.
CountCr == over \/ total > MaxRecordBytes

\* finish_record: is the record oversized?
Oversized ==
    LET logical == IF lastCr THEN total - 1 ELSE total
        kept    == IF lastCr THEN retained - 1 ELSE retained
    IN over \/ logical > MaxRecordBytes \/ kept > MaxRecordBytes

Finish ==
    /\ pc = "finish"
    /\ \/ /\ Oversized
          /\ metrics' = [metrics EXCEPT !.oversize = @ + 1]
          /\ dropped' = [n \in DOMAIN dropped \cup {line} |->
                            IF n = line THEN "oversize" ELSE dropped[n]]
          /\ pc' = "read"
          /\ NextRecord
       \/ /\ ~Oversized
          /\ pc' = "send"
          /\ UNCHANGED <<record, metrics, dropped>>
    /\ UNCHANGED <<queue, receiver, received>>

-----------------------------------------------------------------------------
(* pump_bounded_records: the handoff and its accounting                    *)

TrySendFull ==
    /\ pc = "send" /\ receiver
    /\ Len(queue) >= QueueCapacity
    /\ metrics' = [metrics EXCEPT !.full = @ + 1]
    /\ dropped' = [n \in DOMAIN dropped \cup {line} |->
                      IF n = line THEN "full" ELSE dropped[n]]
    /\ pc' = "read"
    /\ NextRecord
    /\ UNCHANGED <<queue, receiver, received>>

TrySend ==
    /\ pc = "send" /\ receiver
    /\ Len(queue) < QueueCapacity
    /\ queue' = Append(queue, line)
    /\ pc' = "count"
    /\ UNCHANGED <<record, metrics, receiver, received, dropped>>

\* The counter follows the send, so that the loop may hold a record that the
\* counters do not show yet.
CountEnqueued ==
    /\ pc = "count"
    /\ metrics' = [metrics EXCEPT !.enqueued = @ + 1]
    /\ pc' = "read"
    /\ NextRecord
    /\ UNCHANGED <<queue, receiver, received, dropped>>

TrySendDisconnected ==
    /\ pc = "send" /\ ~receiver
    /\ pc' = "disconnected"
    /\ UNCHANGED <<record, metrics, queue, receiver, received, dropped>>

\* The runtime loop takes the oldest record.
Receive ==
    /\ receiver /\ queue # <<>>
    /\ received' = Append(received, Head(queue))
    /\ queue' = Tail(queue)
    /\ UNCHANGED <<pc, record, metrics, receiver, dropped>>

\* The receiving end goes away when the runtime thread unwinds.
DropReceiver ==
    /\ receiver
    /\ receiver' = FALSE
    /\ queue' = <<>>
    /\ UNCHANGED <<pc, record, metrics, received, dropped>>

Done ==
    /\ pc \in Exits
    /\ queue = <<>> \/ ~receiver
    /\ UNCHANGED vars

Next ==
    \/ \E bytes \in 0..MaxBuffer, newline, cr \in BOOLEAN :
          FillBuffer(bytes, newline, cr)
    \/ EndOfInput \/ ReadFails \/ Finish
    \/ TrySendFull \/ TrySend \/ CountEnqueued \/ TrySendDisconnected
    \/ Receive \/ DropReceiver \/ Done

Spec == Init /\ [][Next]_vars

-----------------------------------------------------------------------------
(* Properties                                                              *)

TypeOK ==
    /\ pc \in {"read", "finish", "send", "count"} \cup Exits
    /\ line \in 1..(MaxLines + 1)
    /\ retained \in Nat /\ total \in Nat
    /\ lastCr \in BOOLEAN /\ sawInput \in BOOLEAN /\ over \in BOOLEAN
    /\ metrics \in [enqueued : Nat, full : Nat, oversize : Nat, errors : Nat,
                    maxRetained : Nat]
    /\ queue \in Seq(1..MaxLines)
    /\ receiver \in BOOLEAN
    /\ received \in Seq(1..MaxLines)
    /\ DOMAIN dropped \subseteq 1..MaxLines

\* The comment above pump_bounded_records: at most max_record_bytes + 1 bytes
\* are retained, however the line is cut into buffers and however long it is.
RetentionBounded ==
    /\ retained <= RetainLimit
    /\ metrics.maxRetained <= RetainLimit

\* A record is refused as oversized exactly when its text, without newline and
\* without a carriage return before it, is longer than the limit, although
\* the reader stops keeping bytes one byte past it.
SizeVerdictExact ==
    pc = "finish" =>
        (Oversized <=> (IF lastCr /\ ~over THEN total - 1 ELSE total) > MaxRecordBytes)

SentCount == metrics.enqueued + (IF pc = "count" THEN 1 ELSE 0)

\* Every line the reader is done with is in the queue, or was received, or is
\* counted under exactly one drop reason, with reader and loop interleaved.
Accounting ==
    /\ receiver => Len(received) + Len(queue) = SentCount
    /\ Len(received) <= SentCount
    /\ metrics.full = Cardinality({n \in DOMAIN dropped : dropped[n] = "full"})
    /\ metrics.oversize = Cardinality({n \in DOMAIN dropped : dropped[n] = "oversize"})
    /\ SentCount + metrics.full + metrics.oversize
          = IF pc = "count" THEN line ELSE line - 1

\* Records arrive in input order without repetition, and the gaps are the
\* dropped lines: saturation drops the newest and never one already queued.
InOrderWithoutLoss ==
    LET taken == received \o queue
    IN /\ \A i, j \in DOMAIN taken : i < j => taken[i] < taken[j]
       /\ receiver =>
             {taken[i] : i \in DOMAIN taken} =
             (1..(IF pc = "count" THEN line ELSE line - 1)) \ DOMAIN dropped
=============================================================================
