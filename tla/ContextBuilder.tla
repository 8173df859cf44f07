--------------------------- MODULE ContextBuilder ---------------------------
(***************************************************************************)
(* Assembly of the prompt: the pinned system message, the newest usable    *)
(* turns of the history and the new question.  Contents are abstracted to  *)
(* the call a turn belongs to.                                             *)
(***************************************************************************)
EXTENDS Naturals, Sequences, FiniteSets

CONSTANT ContextMaxMessages  \* settings.context_max_messages

\* ContextBuilder refuses a window that is not positive.
ASSUME WindowAssumption == ContextMaxMessages \in Nat \ {0}

\* Mutant: failed turns are sent as well.
UsableOrFailed(m) == m.role \in {"user", "assistant"}

\* A turn worth sending: part of the dialogue, and not a failed reply.
Usable(m) == m.role \in {"user", "assistant"} /\ m.status = "complete"

\* usable[-max_messages:], the newest turns within the window.
Recent(turns) ==
    IF Len(turns) <= ContextMaxMessages
    THEN turns
    ELSE SubSeq(turns, Len(turns) + 1 - ContextMaxMessages, Len(turns))

\* The elements of S, each once, by increasing rank.
InOrder(S, rank) ==
    CHOOSE f \in [1 .. Cardinality(S) -> S] :
        \A i, j \in DOMAIN f : i < j => rank[f[i]] < rank[f[j]]

\* The comprehension that keeps the usable turns, in the order they have.
UsableTurns(past) ==
    LET at == {i \in DOMAIN past : Usable(past[i])}
        kept == InOrder(at, [i \in at |-> i])
    IN [k \in DOMAIN kept |-> past[kept[k]]]

AsPrompt(m) == [role |-> m.role, of |-> m.of]

\* The turns of the past that are sent.
Kept(past) == LET recent == Recent(UsableTurns(past))
              IN [i \in DOMAIN recent |-> AsPrompt(recent[i])]

\* pinned is the system message, or empty without a system prompt.
Build(pinned, past, question) ==
    pinned \o Kept(past) \o <<question>>
=============================================================================
