----------------------------- MODULE ChatContext -----------------------------
(***************************************************************************)
(* The prompts that ChatService sends: ContextBuilder applied to the       *)
(* history each exchange loaded, compared with the conversation as the     *)
(* database holds it while the provider is working on the prompt.          *)
(***************************************************************************)
EXTENDS ChatService, ContextBuilder, SequencesExt

CONSTANT Prompted  \* the sessions that have a system prompt

ASSUME PromptAssumption == Prompted \subseteq SessionId

\* list_messages orders by seq.
Listed(S) == InOrder(S, [m \in S |-> m.seq])

SystemMessage(s) == [role |-> "system", of |-> s]

Pinned(s) == IF s \in Prompted THEN <<SystemMessage(s)>> ELSE <<>>

\* The prompt of call r.
Context(r) == Build(Pinned(sid[r]), Listed(history[r]),
                    [role |-> "user", of |-> r])

\* The provider has, or had, the prompt of call r.
Prompting(r) == pc[r] \in {"calling", "answered", "inserted", "charging"}

-----------------------------------------------------------------------------
\* The usable turns that stand before the question of r in its generation,
\* as the database has them now.
Past(r) == {m \in Dialogue(sid[r], loaded[r].generation) :
               m.seq < seq[r] /\ m.status = "complete"}

\* Those among them that have fewer than ContextMaxMessages successors.
Window(r) == {m \in Past(r) : Cardinality({n \in Past(r) : n.seq > m.seq})
                              < ContextMaxMessages}

\* The window without the pinned message and the question.
Middle(r) == LET c == Context(r)
             IN SubSeq(c, Len(Pinned(sid[r])) + 1, Len(c) - 1)

\* A prompt starts with the system message if there is one, ends with the
\* question, and between them holds the newest usable turns of the active
\* generation, each once and in order, as many as the window admits.
\* (context_builder.py states it operationally, by filtering and slicing.)
ContextIsWindow ==
    \A r \in Request : Prompting(r) =>
        /\ Len(Context(r)) = Len(Pinned(sid[r])) + Cardinality(Window(r)) + 1
        /\ sid[r] \in Prompted => Head(Context(r)) = SystemMessage(sid[r])
        /\ Last(Context(r)) = [role |-> "user", of |-> r]
        /\ \A m \in Window(r) :
              Middle(r)[1 + Cardinality({n \in Window(r) : n.seq < m.seq})]
              = AsPrompt(m)

\* The model never sees a reply away from its question: in a prompt a reply
\* directly follows the question it answered, unless it is the oldest turn
\* that the full window admits.
RepliesKeepTheirQuestion ==
    \A r \in Request : Prompting(r) =>
        \A i \in DOMAIN Middle(r) : Middle(r)[i].role = "assistant" =>
            \/ i > 1 /\ Middle(r)[i - 1] = [role |-> "user",
                                            of |-> Middle(r)[i].of]
            \/ i = 1 /\ Len(Middle(r)) = ContextMaxMessages
=============================================================================
