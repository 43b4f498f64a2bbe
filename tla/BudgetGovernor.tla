--------------------------- MODULE BudgetGovernor ---------------------------
(***************************************************************************)
(* The generative budget governor of crates/app/src/budget.rs and the life *)
(* of its reservations in crates/app/src/lib.rs: admission against the     *)
(* concurrency limit and the rolling ledgers before a generation is        *)
(* submitted; the reservation travels with the job through the worker and  *)
(* back, and is settled, released or dropped on whichever thread holds it. *)
(*                                                                         *)
(* The ledgers of TTS calls and of cost are handled line by line like the  *)
(* ledgers of LLM calls and of TTS characters, so that one ledger of call  *)
(* times and one of amounts stand for each pair.  The LLM-unit ledger is   *)
(* left out: nothing in the code adds to it.  Admission runs on the        *)
(* composition thread only and the worker can only return slots, so the    *)
(* load and the later fetch_add of try_admit are one step.                 *)
(***************************************************************************)
EXTENDS Integers, Sequences, FiniteSets, SequencesExt

CONSTANTS
    Reservations,   \* bound: the reservations that may be granted
    MaxConcurrent,  \* max_concurrent_generations
    CallLimit,      \* max_llm_calls_per_interval
    AmountLimit,    \* max_tts_chars_per_interval
    Interval,       \* interval_ms
    ReservePercent, \* high_priority_reserve_percent
    ChargeShadow,   \* charge_shadow_to_budget
    Amounts,        \* observed and estimated characters
    MaxTime,        \* bound on logical time
    MaxDenials      \* bound on denials

\* GenerativeBudgetPolicy::validate
PolicyAssumption ==
    /\ {MaxConcurrent, CallLimit, AmountLimit, Interval} \subseteq Nat \ {0}
    /\ ReservePercent \in 0..100
    /\ ChargeShadow \in BOOLEAN

BoundAssumption ==
    /\ Amounts \subseteq Nat /\ MaxTime \in Nat /\ MaxDenials \in Nat
    /\ IsFiniteSet(Reservations)

Classes == {"high", "ordinary", "shadow"}

\* Where a reservation is: not granted, with the composition thread before
\* submission, in the work queue, with the worker, in the mailbox, finished.
Places == {"none", "submitting", "queued", "running", "mailbox", "finished"}

VARIABLES
    now,       \* logical time
    place,     \* reservation -> place
    slot,      \* reservation -> does it hold its in_flight_slot?
    charged,   \* reservation -> characters charged up front
    inFlight,  \* the shared atomic
    calls,     \* llm_calls: times
    chars,     \* tts_chars: amounts
    degraded,  \* rejected_degraded
    denied,    \* denied_total
    grants,    \* history: what was granted when
    spent      \* history: when characters were charged

vars == <<now, place, slot, charged, inFlight, calls, chars, degraded, denied,
          grants, spent>>
ledgers == <<calls, chars, grants, spent>>

Init ==
    /\ now = 0
    /\ place = [r \in Reservations |-> "none"]
    /\ slot = [r \in Reservations |-> FALSE]
    /\ charged = [r \in Reservations |-> 0]
    /\ inFlight = 0
    /\ calls = <<>> /\ chars = <<>>
    /\ degraded = 0 /\ denied = 0
    /\ grants = <<>> /\ spent = <<>>

-----------------------------------------------------------------------------
(* Ledgers                                                                 *)

HorizonAt(t) == IF t > Interval THEN t - Interval ELSE 0

\* trim_windows pops entries from the front while they are below the horizon,
\* in every ledger alike: in a ledger of amounts it compares an amount.
Trim(ledger, t) ==
    LET keep == {k \in DOMAIN ledger : ledger[k] >= HorizonAt(t)}
    IN IF keep = {} THEN <<>>
       ELSE SubSeq(ledger, CHOOSE k \in keep : \A m \in keep : k <= m, Len(ledger))

Sum(ledger) == FoldSeq(LAMBDA x, y : x + y, 0, ledger)

\* ordinary_share
OrdinaryShare(limit) == limit - (limit * ReservePercent) \div 100

Share(class, limit) == IF class = "high" THEN limit ELSE OrdinaryShare(limit)

\* try_admit: is the request within the budget, after trimming?
WithinBudget(class, estimate) ==
    /\ inFlight < MaxConcurrent
    /\ Len(Trim(calls, now)) < Share(class, CallLimit)
    /\ Sum(Trim(chars, now)) + estimate <= Share(class, AmountLimit)

Charged(class) == class # "shadow" \/ ChargeShadow

Append1(seq, amount) == IF amount > 0 THEN Append(seq, amount) ELSE seq

\* What was really charged since the horizon (for the properties).
SpentInWindow ==
    FoldSeq(LAMBDA e, y : y + e.amount, 0,
            SelectSeq(spent, LAMBDA e : e.at >= HorizonAt(now)))

\* The ledger effects of a grant.
Charge(class, estimate) ==
    /\ calls' = Append(Trim(calls, now), now)
    /\ chars' = Append1(Trim(chars, now), estimate)
    /\ grants' = Append(grants, [at |-> now, class |-> class,
                                 window |-> SpentInWindow + estimate])
    /\ spent' = IF estimate > 0
                THEN Append(spent, [at |-> now, amount |-> estimate]) ELSE spent

-----------------------------------------------------------------------------
(* Admission and submission (composition thread)                           *)

\* submit_generation: admission before submit.
Admit(r, class, estimate) ==
    /\ class # "shadow"
    /\ place[r] = "none" /\ \A x \in Reservations : place[x] # "submitting"
    /\ WithinBudget(class, estimate)
    /\ Charge(class, estimate)
    /\ place' = [place EXCEPT ![r] = "submitting"]
    /\ slot' = [slot EXCEPT ![r] = TRUE]
    /\ charged' = [charged EXCEPT ![r] = estimate]
    /\ inFlight' = inFlight + 1
    /\ UNCHANGED <<now, degraded, denied>>

\* A denial is counted, noted as degraded, and allocates nothing.
Deny(class, estimate) ==
    /\ Charged(class)
    /\ ~WithinBudget(class, estimate)
    /\ denied < MaxDenials
    /\ calls' = Trim(calls, now) /\ chars' = Trim(chars, now)
    /\ denied' = denied + 1
    /\ degraded' = IF class = "shadow" THEN degraded ELSE degraded + 1
    /\ UNCHANGED <<now, place, slot, charged, inFlight, grants, spent>>

\* commit_shadow_budget: admitted and settled with nothing in one go.
AdmitShadow ==
    /\ ChargeShadow
    /\ Len(grants) < Cardinality(Reservations)
    /\ WithinBudget("shadow", 0)
    /\ Charge("shadow", 0)
    /\ UNCHANGED <<now, place, slot, charged, inFlight, degraded, denied>>

SubmitSucceeds(r) ==
    /\ place[r] = "submitting"
    /\ place' = [place EXCEPT ![r] = "queued"]
    /\ UNCHANGED <<now, slot, charged, inFlight, ledgers, degraded, denied>>

\* Mutant: a dropped reservation keeps its slot.
DropKeepsSlot(r, from) ==
    /\ place[r] = from
    /\ place' = [place EXCEPT ![r] = "finished"]
    /\ UNCHANGED <<now, slot, charged, inFlight, ledgers, degraded, denied>>

\* Drop for BudgetReservation: the slot returns if it is still held.
DropReservation(r, from) ==
    /\ place[r] = from
    /\ place' = [place EXCEPT ![r] = "finished"]
    /\ slot' = [slot EXCEPT ![r] = FALSE]
    /\ inFlight' = IF slot[r] THEN inFlight - 1 ELSE inFlight
    /\ UNCHANGED <<now, charged, ledgers, degraded, denied>>

\* A submission that fails, a job dropped by the worker at shutdown or by a
\* closed mailbox, and a queue or mailbox dropped with the app.
Dropped(r) ==
    \E from \in {"submitting", "queued", "running", "mailbox"} :
        DropReservation(r, from)

-----------------------------------------------------------------------------
(* The worker, and the completion on the composition thread                *)

WorkerTakes(r) ==
    /\ place[r] = "queued"
    /\ place' = [place EXCEPT ![r] = "running"]
    /\ UNCHANGED <<now, slot, charged, inFlight, ledgers, degraded, denied>>

WorkerPublishes(r) ==
    /\ place[r] = "running"
    /\ place' = [place EXCEPT ![r] = "mailbox"]
    /\ UNCHANGED <<now, slot, charged, inFlight, ledgers, degraded, denied>>

\* A stale or cancelled completion releases: no characters are charged.
Release(r) ==
    /\ place[r] = "mailbox"
    /\ place' = [place EXCEPT ![r] = "finished"]
    /\ slot' = [slot EXCEPT ![r] = FALSE]
    /\ inFlight' = IF slot[r] THEN inFlight - 1 ELSE inFlight
    /\ degraded' = degraded + 1
    /\ UNCHANGED <<now, charged, ledgers, denied>>

\* A committed completion settles: the ledger is topped up to what was used.
Settle(r, used) ==
    /\ place[r] = "mailbox"
    /\ place' = [place EXCEPT ![r] = "finished"]
    /\ slot' = [slot EXCEPT ![r] = FALSE]
    /\ inFlight' = IF slot[r] THEN inFlight - 1 ELSE inFlight
    /\ LET extra == IF used > charged[r] THEN used - charged[r] ELSE 0
       IN /\ chars' = Append1(chars, extra)
          /\ spent' = IF extra > 0
                      THEN Append(spent, [at |-> now, amount |-> extra]) ELSE spent
    /\ UNCHANGED <<now, charged, calls, grants, degraded, denied>>

\* Time passes and the app ticks, which trims the windows.
Tick ==
    /\ now < MaxTime
    /\ now' = now + 1
    /\ calls' = Trim(calls, now')
    /\ chars' = Trim(chars, now')
    /\ UNCHANGED <<place, slot, charged, inFlight, degraded, denied, grants, spent>>

Next ==
    \/ \E r \in Reservations, class \in Classes, e \in Amounts : Admit(r, class, e)
    \/ \E class \in Classes, e \in Amounts : Deny(class, e)
    \/ AdmitShadow \/ Tick
    \/ \E r \in Reservations :
          \/ SubmitSucceeds(r) \/ Dropped(r)
          \/ WorkerTakes(r) \/ WorkerPublishes(r) \/ Release(r)
          \/ \E used \in Amounts : Settle(r, used)

Spec == Init /\ [][Next]_vars

-----------------------------------------------------------------------------
(* Properties                                                              *)

TypeOK ==
    /\ now \in 0..MaxTime
    /\ place \in [Reservations -> Places]
    /\ slot \in [Reservations -> BOOLEAN]
    /\ charged \in [Reservations -> Amounts \cup {0}]
    /\ inFlight \in Nat /\ degraded \in Nat /\ denied \in Nat
    /\ calls \in Seq(0..MaxTime) /\ chars \in Seq(Nat)

\* The shared counter is the number of reservations that are still under way,
\* whichever thread settled, released or dropped the others, so that no slot
\* leaks and none is returned twice.
SlotsExact ==
    /\ inFlight = Cardinality({r \in Reservations : slot[r]})
    /\ \A r \in Reservations : slot[r] <=> place[r] \notin {"none", "finished"}

\* max_concurrent_generations holds at every moment.
ConcurrencyBounded == inFlight <= MaxConcurrent

\* In any interval at most the limit of calls is granted, and a request of
\* ordinary class is granted only what the reserve leaves over.
CallsRoll ==
    \A i \in DOMAIN grants :
        Cardinality({j \in 1..i : grants[j].at >= grants[i].at - Interval})
           <= Share(grants[i].class, CallLimit)

\* The same for characters: what was charged in the interval that ends with a
\* grant, together with its own estimate, is within the limit.
CharsRoll ==
    \A i \in DOMAIN grants : grants[i].window <= Share(grants[i].class, AmountLimit)
=============================================================================
