---------------------------- MODULE RoutePlanning ---------------------------
(***************************************************************************)
(* From a routing decision to what is performed: a template filled with    *)
(* fields of the event (app/src/routing.rs), or a thinking request with    *)
(* bounded text and retained claims (domain/src/context.rs,                *)
(* app/src/memory_context.rs).                                             *)
(*                                                                         *)
(* A template is a sequence of one-byte tokens: braces, slot names, "x"    *)
(* for a letter, "_" for whitespace and "^" for a control character.  Text *)
(* of a request is a sequence of the byte widths of its characters, a      *)
(* claim is its length in bytes.                                           *)
(***************************************************************************)
EXTENDS Integers, Sequences, FiniteSets, SequencesExt, FiniteSetsExt

CONSTANTS
    Templates,       \* template id -> [text, slots], the pack
    Events,          \* events there may be
    Claims,          \* claims that may be retained
    MaxSlots, MaxSlotBytes, MaxRender,          \* MAX_TEMPLATE_...
    MaxText, MaxContext, MaxItems, MaxLabel,    \* MAX_THINKING_..., MAX_SNAPSHOT_STRING_BYTES
    MaxClaims        \* bound of the model: retained claims

RouteAssumption ==
    {MaxSlots, MaxSlotBytes, MaxRender, MaxText, MaxContext, MaxItems, MaxLabel, MaxClaims}
        \subseteq Nat

VARIABLES
    memory,     \* the claims context_for returns, in rank order
    event,      \* the event routed last
    route,      \* its route
    fallback    \* last_template_fallback

vars == <<memory, event, route, fallback>>

----------------------------------------------------------------------------
(* TemplateComposer.                                                       *)

\* str::trim.
Trim(s) ==
    LET solid == {k \in DOMAIN s : s[k] # "_"}
    IN  IF solid = {} THEN <<>> ELSE SubSeq(s, Min(solid), Max(solid))
Normalized(value) == SelectSeq(Trim(value), LAMBDA c : c # "^")

\* str::replace of {name}: every occurrence, left to right, in one pass.
At(s, name, k) == k \in 1..(Len(s) - 2) /\ SubSeq(s, k, k + 2) = <<"{", name, "}">>
Bind(s, name, value) ==
    FlattenSeq([k \in DOMAIN s |->
        IF At(s, name, k) THEN value
        ELSE IF At(s, name, k - 1) \/ At(s, name, k - 2) THEN <<>>
        ELSE <<s[k]>>])

\* remove_placeholders changes a text that has an opening brace before a
\* closing one, and no other.
HasPlaceholder(s) == \E i, j \in DOMAIN s : i < j /\ s[i] = "{" /\ s[j] = "}"

\* The declared slots that the payload has a value for, in declared order.
SlotsOf(template, payload) == SelectSeq(template.slots, LAMBDA n : n \in DOMAIN payload)

Fell(why) == [ok |-> FALSE, text |-> <<>>, why |-> why]
Render(template, payload) ==
    LET names == SlotsOf(template, payload)
        bound == FoldLeft(LAMBDA s, n : Bind(s, n, Normalized(payload[n])), template.text, names)
    IN  IF Trim(template.text) = <<>> THEN Fell("invalid")
        ELSE IF Len(names) > MaxSlots THEN Fell("slot_limit")
        ELSE IF \E k \in DOMAIN names : Len(payload[names[k]]) > MaxSlotBytes
             THEN Fell("slot_too_large")
        ELSE IF Len(bound) > MaxRender THEN Fell("render_too_large")
        ELSE IF HasPlaceholder(bound) \/ Trim(bound) = <<>> THEN Fell("invalid")
        ELSE [ok |-> TRUE, text |-> Trim(bound), why |-> "none"]

Compose(id, payload) ==
    IF id \notin DOMAIN Templates THEN Fell("missing") ELSE Render(Templates[id], payload)

----------------------------------------------------------------------------
(* The thinking request.                                                   *)

Bytes(text) == FoldLeft(LAMBDA n, w : n + w, 0, text)

\* truncate_utf8: back from the limit to the nearest character boundary.
TruncateUtf8(text, limit) ==
    IF Bytes(text) <= limit THEN text
    ELSE LET whole == {k \in 0..Len(text) : Bytes(SubSeq(text, 1, k)) <= limit}
         IN  SubSeq(text, 1, Max(whole))

\* bounded_current_event_text: the first field with text, or the kind's name.
CurrentText(e) == TruncateUtf8(IF Bytes(e.text) > 0 THEN e.text ELSE e.label, MaxText)

\* EpistemicClass::derive.
ClassOf(source, trust, claimIsBound) ==
    CASE source = "system" /\ trust = "trusted" /\ claimIsBound -> "verified_fact"
      [] source \in {"public_chat", "donation"} -> "viewer_claim"
      [] source = "speech" /\ trust = "trusted" -> "performer_experience"
      [] source = "operator" -> "persona_opinion"
      [] OTHER -> "observation"

PrivacyForSource(source) ==
    CASE source \in {"public_chat", "donation", "speech"} -> "pseudonymous"
      [] source = "operator" -> "private"
      [] OTHER -> "public"

\* One item of a request; a claim keeps the class it was retained under.
FromEvent(e) ==
    [source |-> "current_event", id |-> e.id, bytes |-> Bytes(CurrentText(e)),
     class |-> "none", privacy |-> PrivacyForSource(e.source)]
MemoryContent(c) ==
    [source |-> "memory", id |-> c.id, bytes |-> c.bytes,
     class |-> ClassOf(c.source, c.trust, c.bound), privacy |-> PrivacyForSource(c.source)]

ItemValid(item) ==
    /\ item.bytes \in 1..MaxText
    /\ item.id \in 1..MaxLabel
    /\ (item.source = "memory") = (item.class # "none")
TotalBytes(items) == FoldLeft(LAMBDA n, i : n + i.bytes, 0, items)
RequestValid(input, items) ==
    /\ input.source = "current_event" /\ ItemValid(input)
    /\ Len(items) <= MaxItems
    /\ \A k \in DOMAIN items : ItemValid(items[k]) /\ items[k].source # "current_event"
    /\ input.bytes + TotalBytes(items) <= MaxContext

\* bounded_prefix: in rank order until an item does not fit; one that is too
\* large by itself is passed over.
Taking(st, item) ==
    IF st.full \/ item.bytes > MaxText THEN st
    ELSE IF Len(st.items) >= MaxItems \/ st.used + item.bytes > MaxContext
         THEN [st EXCEPT !.full = TRUE]
    ELSE [st EXCEPT !.items = Append(@, item), !.used = @ + item.bytes]
BoundedContext(items, charged) ==
    FoldLeft(Taking, [items |-> <<>>, used |-> charged, full |-> FALSE], items).items

\* context_for returns at most MaxItems entries, best first.
RetainedContext(charged) ==
    BoundedContext([k \in 1..Min({Len(memory), MaxItems}) |-> MemoryContent(memory[k])], charged)

\* attach_memory_context: all of it, or none when the request is refused.
Attached(input) ==
    LET items == RetainedContext(input.bytes)
    IN  IF RequestValid(input, items) THEN items ELSE <<>>

----------------------------------------------------------------------------
(* The planner's choice, with what the composition root adds to it.        *)

NoInput == [source |-> "none", id |-> 0, bytes |-> 0, class |-> "none", privacy |-> "none"]
Silent == [kind |-> "silent", text |-> <<>>, input |-> NoInput, items |-> <<>>]
NoEvent == [id |-> 0, source |-> "none", action |-> "none", template |-> "none",
            payload |-> <<>>, text |-> <<>>, label |-> <<>>]

\* ExecutedAction::Template.
RouteTemplate(e) ==
    LET c == Compose(e.template, e.payload)
    IN  /\ e.action = "template"
        /\ fallback' = c.why
        /\ route' = IF c.ok THEN [Silent EXCEPT !.kind = "template", !.text = c.text] ELSE Silent

\* ExecutedAction::Llm: generation_route; an invalid request is an error, and
\* the planner keeps what it remembers of the event before.
RouteGenerate(e) ==
    LET input == FromEvent(e)
    IN  /\ e.action = "llm"
        /\ IF RequestValid(input, <<>>)
           THEN /\ route' = [Silent EXCEPT !.kind = "generate", !.input = input,
                                           !.items = Attached(input)]
                /\ fallback' = "none"
           ELSE /\ route' = [Silent EXCEPT !.kind = "error"] /\ UNCHANGED fallback

RouteOther(e) == e.action = "silent" /\ route' = Silent /\ fallback' = "none"

Plan ==
    \E e \in Events :
        /\ event' = e
        /\ RouteTemplate(e) \/ RouteGenerate(e) \/ RouteOther(e)
        /\ UNCHANGED memory

\* A claim the write gate admitted takes its place in the ranking.
Remember ==
    /\ Len(memory) < MaxClaims
    /\ \E c \in Claims, k \in 1..(Len(memory) + 1) : memory' = InsertAt(memory, k, c)
    /\ route' = Silent /\ event' = NoEvent
    /\ UNCHANGED fallback

Init == memory = <<>> /\ event = NoEvent /\ route = Silent /\ fallback = "none"
Next == Plan \/ Remember
Spec == Init /\ [][Next]_vars

----------------------------------------------------------------------------
(* Properties.                                                             *)

\* "templates must not leak placeholders" (routing.rs:193): what is spoken
\* holds none, whatever the fields of the event hold, and is bounded.
NoPlaceholderSpoken ==
    route.kind = "template" =>
        ~HasPlaceholder(route.text) /\ route.text = Trim(route.text) /\ route.text # <<>>
        /\ Len(route.text) <= MaxRender

\* Fields without braces are bound at once and independently: replacing one
\* after the other is the same in any order of the slots.
Braceless(payload) == \A n \in DOMAIN payload : {"{", "}"} \cap ToSet(payload[n]) = {}
Reordered(template) == [template EXCEPT !.slots = Reverse(@)]
SlotsIndependent ==
    event.template \in DOMAIN Templates /\ Braceless(event.payload) =>
        Render(Templates[event.template], event.payload)
          = Render(Reordered(Templates[event.template]), event.payload)

\* The same for every field: "untrusted event content cannot inject arbitrary
\* text" (routing.rs:171).  It fails: a field that names a later slot in braces
\* is filled with that slot's value, and one with any other braces silences
\* the template.
SlotsAlwaysIndependent ==
    event.template \in DOMAIN Templates =>
        Render(Templates[event.template], event.payload)
          = Render(Reordered(Templates[event.template]), event.payload)

\* A request that is sent is valid with its claims; the claims are whole, in
\* rank order, and the first that was left out for room did not fit.
ContextFits ==
    route.kind = "generate" =>
        LET offered == [k \in 1..Min({Len(memory), MaxItems}) |-> MemoryContent(memory[k])]
            eligible == SelectSeq(offered, LAMBDA i : i.bytes <= MaxText)
            n == Len(route.items)
        IN  /\ RequestValid(route.input, route.items)
            /\ IsPrefix(route.items, eligible)
            /\ n < Len(eligible) =>
                 \/ n = 0 /\ \E k \in DOMAIN eligible : eligible[k].id > MaxLabel
                 \/ route.input.bytes + TotalBytes(SubSeq(eligible, 1, n + 1)) > MaxContext

\* One claim that cannot be sent does not cost the others: it fails for a
\* claim whose event id is longer than a label, which the event's own checks
\* allow (event.rs:127, context.rs:330).
OneClaimSparesOthers ==
    route.kind = "generate" =>
        \A k \in DOMAIN memory :
            memory[k].id <= MaxLabel /\ memory[k].bytes <= MaxText
            /\ route.input.bytes + memory[k].bytes <= MaxContext /\ k = 1 => route.items # <<>>

\* Cutting a text keeps whole characters, and as many as there is room for.
CutWhole ==
    event # NoEvent =>
        LET full == IF Bytes(event.text) > 0 THEN event.text ELSE event.label
            cut == CurrentText(event)
        IN  /\ IsPrefix(cut, full) /\ Bytes(cut) <= MaxText
            /\ cut # full => Bytes(SubSeq(full, 1, Len(cut) + 1)) > MaxText
=============================================================================
