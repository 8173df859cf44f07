----------------------------- MODULE ChatService -----------------------------
(***************************************************************************)
(* The chat sessions service: requests running concurrently in one API     *)
(* process against PostgreSQL.                                             *)
(*                                                                         *)
(* Every client call is a Request.  It moves through the handler one       *)
(* database wait or provider wait at a time (pc), keeping in its locals    *)
(* what the handler keeps in Python variables: the ORM row it loaded, the  *)
(* history, the claimed position and the provider's reply.  Committed rows *)
(* are in the database variables; what a transaction wrote and has not yet *)
(* committed, and the row locks it holds, follow from its pc.              *)
(*                                                                         *)
(* A running total is kept as the set of the exchanges it adds up, so that *)
(* a lost or a misplaced charge is a missing or a foreign element.         *)
(***************************************************************************)
EXTENDS Naturals, FiniteSets

CONSTANTS
    Request,       \* client calls; each is made at most once
    SessionId,     \* ids a client may name, created or not
    Model,         \* model names
    NoModel,       \* the optional "model" field left out
    DefaultModel,  \* settings.openai_model
    MaxMessages,   \* settings.max_messages_per_session
    MaxRestarts,   \* bound on restarts of the API process
    Faults         \* which faults happen: subset of {"database", "restart"}

ASSUME ConfigAssumption ==
    /\ NoModel \notin Model
    /\ DefaultModel \in Model
    /\ MaxMessages \in Nat
    /\ MaxRestarts \in Nat
    /\ Faults \subseteq {"database", "restart"}

VARIABLES
    \* the database
    created,    \* ids of the rows of table sessions
    row,        \* the mutable columns of each session row, and its model
    messages,   \* table messages
    usage,      \* table message_usage: the exchanges it has a row for
    \* the API process
    priced,     \* models with a tariff in the pricing file this process loaded
    restarts,   \* how often the process was restarted
    \* one request
    pc,         \* where its handler is
    outcome,    \* what its caller was told
    sid,        \* the session it names
    wanted,     \* the model its caller asked for, or NoModel
    loaded,     \* the session object the handler holds
    history,    \* the messages list_messages returned to it
    seq,        \* the position it claimed for the user's message
    reply       \* what the provider returned

dbVars == <<created, row, messages, usage>>
processVars == <<priced, restarts>>
callVars == <<sid, wanted>>
localVars == <<loaded, history, seq, reply>>
vars == <<dbVars, processVars, pc, outcome, callVars, localVars>>

-----------------------------------------------------------------------------
(* Types.                                                                  *)

Row == [model: Model, generation: Nat \ {0},
        total: SUBSET Request, lifetime: SUBSET Request]

Message == [session: SessionId, seq: Nat, generation: Nat,
            role: {"user", "assistant"}, status: {"complete", "failed"},
            of: Request]

SendStep == {"wait_send", "locked", "read", "stored", "calling", "answered",
             "inserted", "charging"}
ResetStep == {"wait_reset", "resetting"}

Outcome == {"none", "created", "ok", "session_not_found", "validation_error",
            "session_message_limit", "unknown_model_pricing",
            "upstream_unavailable", "upstream_rejected", "internal_error",
            "empty_reply", "database_error", "lost"}

TypeOK ==
    /\ created \in SUBSET SessionId
    /\ row \in [SessionId -> Row]
    /\ messages \in SUBSET Message
    /\ usage \in SUBSET Request
    /\ priced \in SUBSET Model
    /\ restarts \in Nat
    /\ pc \in [Request -> {"idle", "done"} \cup SendStep \cup ResetStep]
    /\ outcome \in [Request -> Outcome]
    /\ sid \in [Request -> SessionId]
    /\ wanted \in [Request -> Model \cup {NoModel}]
    /\ loaded \in [Request -> Row]
    /\ history \in [Request -> SUBSET Message]
    /\ seq \in [Request -> Nat]
    /\ reply \in [Request -> {"none", "text", "empty"}]

-----------------------------------------------------------------------------
(* Queries and rows.                                                       *)

\* Mutant: a session that starts without a generation.
NewRowUngenerated(m) ==
    [model |-> m, generation |-> 0, total |-> {}, lifetime |-> {}]

NewRow(m) == [model |-> m, generation |-> 1, total |-> {}, lifetime |-> {}]

\* list_messages(session_id, generation): one generation of a session.
Dialogue(s, g) == {m \in messages : m.session = s /\ m.generation = g}

\* Mutant: the limit is compared with > instead of >=.
AtLimitLate(r) == Cardinality(Dialogue(sid[r], loaded[r].generation)) > MaxMessages

\* count_messages(session_id, generation) has reached the limit.
AtLimit(r) == Cardinality(Dialogue(sid[r], loaded[r].generation)) >= MaxMessages

\* Mutant: positions start again at 1 in every generation.
SeqsInUseByGeneration(s) == {m.seq : m \in Dialogue(s, row[s].generation)}

\* next_seq counts over every generation of the session.
SeqsInUse(s) == {m.seq : m \in {x \in messages : x.session = s}}
IsNextSeq(s, n) == /\ n \in {1} \cup {k + 1 : k \in SeqsInUse(s)}
                   /\ \A k \in SeqsInUse(s) : k < n

\* The model a message is answered with and charged for.
Chosen(r) == IF wanted[r] = NoModel THEN loaded[r].model ELSE wanted[r]

UserMessage(r) ==
    [session |-> sid[r], seq |-> seq[r], generation |-> loaded[r].generation,
     role |-> "user", status |-> "complete", of |-> r]

\* Mutant: the reply is filed under the generation active when it arrives.
AssistantMessageInActive(r) ==
    [session |-> sid[r], seq |-> seq[r] + 1,
     generation |-> row[sid[r]].generation, role |-> "assistant",
     status |-> IF reply[r] = "empty" THEN "failed" ELSE "complete", of |-> r]

AssistantMessage(r) ==
    [session |-> sid[r], seq |-> seq[r] + 1,
     generation |-> loaded[r].generation, role |-> "assistant",
     status |-> IF reply[r] = "empty" THEN "failed" ELSE "complete", of |-> r]

-----------------------------------------------------------------------------
(* Row locks of PostgreSQL.  SELECT ... FOR UPDATE excludes every other    *)
(* lock on the session row; the foreign key of an inserted message takes   *)
(* FOR KEY SHARE on it.  Both are held until the transaction ends.         *)

Exclusive == {"locked", "read", "resetting"}
ExclusivelyLocked(s, r) ==
    \E q \in Request \ {r} : sid[q] = s /\ pc[q] \in Exclusive
ShareLocked(s, r) ==
    \E q \in Request \ {r} : sid[q] = s /\ pc[q] = "charging"

\* Mutant: the session is read without FOR UPDATE.
NoRowLock(r) == TRUE

CanLockForUpdate(r) == /\ ~ExclusivelyLocked(sid[r], r)
                       /\ ~ShareLocked(sid[r], r)
CanLockForKeyShare(r) == ~ExclusivelyLocked(sid[r], r)

\* Mutant: the table lacks the unique constraint.
NoUniqueConstraint(s, n) == FALSE

\* The unique constraint on (session_id, seq).
SlotTaken(s, n) == \E m \in messages : m.session = s /\ m.seq = n

\* Transaction q has put an uncommitted reply into slot (s, n): an insert
\* into the same slot waits until q commits or rolls back.
SlotPending(s, n) == \E q \in Request : /\ pc[q] \in {"inserted", "charging"}
                                        /\ sid[q] = s
                                        /\ seq[q] + 1 = n

-----------------------------------------------------------------------------
Init ==
    /\ created = {}
    /\ row = [s \in SessionId |-> NewRow(DefaultModel)]
    /\ messages = {}
    /\ usage = {}
    /\ priced \in SUBSET Model
    /\ restarts = 0
    /\ pc = [r \in Request |-> "idle"]
    /\ outcome = [r \in Request |-> "none"]
    /\ sid \in [Request -> SessionId]
    /\ wanted = [r \in Request |-> NoModel]
    /\ loaded = [r \in Request |-> NewRow(DefaultModel)]
    /\ history = [r \in Request |-> {}]
    /\ seq = [r \in Request |-> 0]
    /\ reply = [r \in Request |-> "none"]

Goto(r, label) == pc' = [pc EXCEPT ![r] = label]

\* The handler returns or raises; get_db commits or rolls back, and the
\* caller is told o.
Finish(r, o) == /\ pc' = [pc EXCEPT ![r] = "done"]
                /\ outcome' = [outcome EXCEPT ![r] = o]

-----------------------------------------------------------------------------
(* POST /sessions.  A call refused for want of a tariff changes nothing.   *)

CreateSession(s, m) ==
    LET chosen == IF m = NoModel THEN DefaultModel ELSE m IN
    /\ s \notin created
    /\ chosen \in priced
    /\ created' = created \cup {s}
    /\ row' = [row EXCEPT ![s] = NewRow(chosen)]
    /\ UNCHANGED <<messages, usage, processVars, pc, outcome, callVars,
                   localVars>>

-----------------------------------------------------------------------------
(* POST /sessions/{id}/messages.                                           *)

\* The call arrives with usable content and asks for the session row lock.
ReceiveMessage(r, s, m) ==
    /\ pc[r] = "idle"
    /\ Goto(r, "wait_send")
    /\ sid' = [sid EXCEPT ![r] = s]
    /\ wanted' = [wanted EXCEPT ![r] = m]
    /\ UNCHANGED <<dbVars, processVars, outcome, localVars>>

\* The call arrives with blank or oversized content.
RejectContent(r) ==
    /\ pc[r] = "idle"
    /\ Finish(r, "validation_error")
    /\ UNCHANGED <<dbVars, processVars, callVars, localVars>>

SessionNotFound(r) ==
    /\ pc[r] \in {"wait_send", "wait_reset"}
    /\ sid[r] \notin created
    /\ Finish(r, "session_not_found")
    /\ UNCHANGED <<dbVars, processVars, callVars, localVars>>

\* get_session(for_update=True): wait for the lock, then load the row.
LockRow(r, from, to) ==
    /\ pc[r] = from
    /\ sid[r] \in created
    /\ CanLockForUpdate(r)
    /\ loaded' = [loaded EXCEPT ![r] = row[sid[r]]]
    /\ Goto(r, to)
    /\ UNCHANGED <<dbVars, processVars, outcome, callVars, history, seq, reply>>

LockForSend(r) == LockRow(r, "wait_send", "locked")

ModelAccepted(r) == wanted[r] = NoModel \/ wanted[r] \in priced

RejectModel(r) ==
    /\ pc[r] = "locked"
    /\ ~ModelAccepted(r)
    /\ Finish(r, "validation_error")
    /\ UNCHANGED <<dbVars, processVars, callVars, localVars>>

RejectAtLimit(r) ==
    /\ pc[r] = "locked"
    /\ ModelAccepted(r)
    /\ AtLimit(r)
    /\ Finish(r, "session_message_limit")
    /\ UNCHANGED <<dbVars, processVars, callVars, localVars>>

\* list_messages and next_seq, under the lock.
ReadHistory(r) ==
    /\ pc[r] = "locked"
    /\ ModelAccepted(r)
    /\ ~AtLimit(r)
    /\ history' = [history EXCEPT
                      ![r] = Dialogue(sid[r], loaded[r].generation)]
    /\ \E n \in {1} \cup {k + 1 : k \in SeqsInUse(sid[r])} :
          /\ IsNextSeq(sid[r], n)
          /\ seq' = [seq EXCEPT ![r] = n]
    /\ Goto(r, "read")
    /\ UNCHANGED <<dbVars, processVars, outcome, callVars, loaded, reply>>

\* Mutant: the question is left to the commit at the end of the request.
StoreUncommitted(r) ==
    /\ pc[r] = "read"
    /\ ~SlotPending(sid[r], seq[r])
    /\ Goto(r, "stored")
    /\ UNCHANGED <<dbVars, processVars, outcome, callVars, localVars>>

\* Insert the user's message and commit, which releases the row lock.
StoreUserMessage(r) ==
    /\ pc[r] = "read"
    /\ ~SlotPending(sid[r], seq[r])
    /\ messages' = messages \cup {UserMessage(r)}
    /\ Goto(r, "stored")
    /\ UNCHANGED <<created, row, usage, processVars, outcome, callVars,
                   localVars>>

\* price_for(chosen_model) finds no tariff: the session's own model lost it
\* since the session was created.
RejectUnpriced(r) ==
    /\ pc[r] = "stored"
    /\ Chosen(r) \notin priced
    /\ Finish(r, "unknown_model_pricing")
    /\ UNCHANGED <<dbVars, processVars, callVars, localVars>>

CallProvider(r) ==
    /\ pc[r] = "stored"
    /\ Chosen(r) \in priced
    /\ Goto(r, "calling")
    /\ UNCHANGED <<dbVars, processVars, outcome, callVars, localVars>>

\* complete() returns after tens of seconds; every other request may run
\* meanwhile.
ProviderReplies(r) ==
    /\ pc[r] = "calling"
    /\ \E content \in {"text", "empty"} :
          reply' = [reply EXCEPT ![r] = content]
    /\ Goto(r, "answered")
    /\ UNCHANGED <<dbVars, processVars, outcome, callVars, loaded, history,
                   seq>>

\* complete() gives up after the SDK's retries, is refused, or gets a response
\* without a choice in it.
ProviderFails(r) ==
    /\ pc[r] = "calling"
    /\ \E o \in {"upstream_unavailable", "upstream_rejected",
                 "internal_error"} : Finish(r, o)
    /\ UNCHANGED <<dbVars, processVars, callVars, localVars>>

\* The insert of the reply violates the unique constraint: IntegrityError.
ReplySlotTaken(r) ==
    /\ pc[r] = "answered"
    /\ SlotTaken(sid[r], seq[r] + 1)
    /\ Finish(r, "database_error")
    /\ UNCHANGED <<dbVars, processVars, callVars, localVars>>

\* The reply is in the unique index, uncommitted; its foreign key check
\* still has to lock the session row.
InsertReply(r) ==
    /\ pc[r] = "answered"
    /\ ~SlotTaken(sid[r], seq[r] + 1)
    /\ Goto(r, "inserted")
    /\ UNCHANGED <<dbVars, processVars, outcome, callVars, localVars>>

LockForReply(r) ==
    /\ pc[r] = "inserted"
    /\ CanLockForKeyShare(r)
    /\ Goto(r, "charging")
    /\ UNCHANGED <<dbVars, processVars, outcome, callVars, localVars>>

\* Mutants: one of the two families of totals is forgotten.
ChargedActiveOnly(r) == [row[sid[r]] EXCEPT !.total = loaded[r].total \cup {r}]
ChargedLifetimeOnly(r) ==
    [row[sid[r]] EXCEPT !.lifetime = loaded[r].lifetime \cup {r}]

\* apply_usage_to_session: the handler's own copy of the totals plus this
\* exchange, written as absolute values over whatever the row holds now.
Charged(r) == [row[sid[r]] EXCEPT !.total = loaded[r].total \cup {r},
                                  !.lifetime = loaded[r].lifetime \cup {r}]

\* Mutant: the empty reply is raised without the commit before it.
EmptyReplyRollsBack(r) ==
    /\ pc[r] = "charging"
    /\ IF reply[r] = "empty"
          THEN /\ Finish(r, "empty_reply")
               /\ UNCHANGED dbVars
          ELSE /\ messages' = messages \cup {AssistantMessage(r)}
               /\ usage' = usage \cup {r}
               /\ row' = [row EXCEPT ![sid[r]] = Charged(r)]
               /\ Finish(r, "created")
               /\ UNCHANGED created
    /\ UNCHANGED <<processVars, callVars, localVars>>

\* add_usage, apply_usage_to_session and the commit.
CommitExchange(r) ==
    /\ pc[r] = "charging"
    /\ messages' = messages \cup {AssistantMessage(r)}
    /\ usage' = usage \cup {r}
    /\ row' = [row EXCEPT ![sid[r]] = Charged(r)]
    /\ Finish(r, IF reply[r] = "empty" THEN "empty_reply" ELSE "created")
    /\ UNCHANGED <<created, processVars, callVars, localVars>>

-----------------------------------------------------------------------------
(* POST /sessions/{id}/reset.                                              *)

ReceiveReset(r, s) ==
    /\ pc[r] = "idle"
    /\ Goto(r, "wait_reset")
    /\ sid' = [sid EXCEPT ![r] = s]
    /\ UNCHANGED <<dbVars, processVars, outcome, wanted, localVars>>

LockForReset(r) == LockRow(r, "wait_reset", "resetting")

ResetNothing(r) ==
    /\ pc[r] = "resetting"
    /\ Dialogue(sid[r], loaded[r].generation) = {}
    /\ Finish(r, "ok")
    /\ UNCHANGED <<dbVars, processVars, callVars, localVars>>

\* start_new_generation: only the active totals go back to zero.
NextGeneration(r) == [row[sid[r]] EXCEPT !.generation = loaded[r].generation + 1,
                                         !.total = {}]

\* start_new_generation and the commit at the end of the request.
StartNewGeneration(r) ==
    /\ pc[r] = "resetting"
    /\ Dialogue(sid[r], loaded[r].generation) # {}
    /\ row' = [row EXCEPT ![sid[r]] = NextGeneration(r)]
    /\ Finish(r, "ok")
    /\ UNCHANGED <<created, messages, usage, processVars, callVars, localVars>>

-----------------------------------------------------------------------------
(* Failures.                                                               *)

\* Request c holds the row lock and is about to insert into the slot where
\* t has an uncommitted reply, while t waits for the row lock.
WaitCycle(c, t) == /\ pc[c] = "read"
                   /\ pc[t] = "inserted"
                   /\ sid[c] = sid[t]
                   /\ seq[c] = seq[t] + 1

\* Mutant: nobody breaks the cycle.
NoDeadlockDetector(r) == FALSE

\* PostgreSQL's deadlock detector aborts one transaction of the cycle.
DeadlockVictim(r) ==
    /\ \E q \in Request : WaitCycle(r, q) \/ WaitCycle(q, r)
    /\ Finish(r, "database_error")
    /\ UNCHANGED <<dbVars, processVars, callVars, localVars>>

\* A statement of an open transaction fails: connection lost, pool timeout.
DatabaseFails(r) ==
    /\ "database" \in Faults
    /\ pc[r] \in {"wait_send", "locked", "read", "answered", "inserted",
                  "charging", "wait_reset", "resetting"}
    /\ Finish(r, "database_error")
    /\ UNCHANGED <<dbVars, processVars, callVars, localVars>>

\* The process dies and comes back, perhaps with an edited pricing file:
\* running handlers vanish and their open transactions roll back.
Restart ==
    /\ "restart" \in Faults
    /\ restarts < MaxRestarts
    /\ restarts' = restarts + 1
    /\ priced' \in SUBSET Model
    /\ pc' = [r \in Request |-> IF pc[r] = "idle" THEN "idle" ELSE "done"]
    /\ outcome' = [r \in Request |-> IF pc[r] \in {"idle", "done"}
                                        THEN outcome[r] ELSE "lost"]
    /\ UNCHANGED <<dbVars, callVars, localVars>>

-----------------------------------------------------------------------------
\* The steps the service takes on its own once a call has arrived.
Step(r) ==
    \/ SessionNotFound(r)
    \/ LockForSend(r) \/ RejectModel(r) \/ RejectAtLimit(r) \/ ReadHistory(r)
    \/ StoreUserMessage(r) \/ RejectUnpriced(r) \/ CallProvider(r)
    \/ ProviderReplies(r) \/ ProviderFails(r)
    \/ ReplySlotTaken(r) \/ InsertReply(r) \/ LockForReply(r)
    \/ CommitExchange(r)
    \/ LockForReset(r) \/ ResetNothing(r) \/ StartNewGeneration(r)
    \/ DeadlockVictim(r)

\* Every call has been made and answered.
Terminating == /\ \A r \in Request : pc[r] = "done"
               /\ UNCHANGED vars

Next ==
    \/ \E s \in SessionId, m \in Model \cup {NoModel} : CreateSession(s, m)
    \/ \E r \in Request, s \in SessionId :
          \/ ReceiveReset(r, s)
          \/ \E m \in Model \cup {NoModel} : ReceiveMessage(r, s, m)
    \/ \E r \in Request : RejectContent(r) \/ Step(r) \/ DatabaseFails(r)
    \/ Restart
    \/ Terminating

Spec == Init /\ [][Next]_vars

\* A call that has arrived keeps being served: the event loop resumes every
\* handler whose wait is over, the row lock is granted in arrival order and
\* the provider call ends by its timeout at the latest.
FairSpec == Spec /\ \A r \in Request : WF_vars(Step(r))

-----------------------------------------------------------------------------
(* Safety.                                                                 *)

\* A handler of this call stored its question (it may since have ended).
Asked(r) == UserMessage(r) \in messages

\* No two messages of a session share a position: the promise of the unique
\* constraint, kept without any question ever being refused by it.
UniqueSeq == \A m, n \in messages :
                m.session = n.session /\ m.seq = n.seq => m = n

\* The positions of a session are 1, 2, ... without a gap or a repetition,
\* however sends, late replies and resets interleave (next_seq).
LogIsASequence ==
    /\ UniqueSeq
    /\ \A m \in messages :
          \/ m.seq = 1
          \/ \E n \in messages : n.session = m.session /\ n.seq + 1 = m.seq

\* A reply is stored directly after the question it answers, in the same
\* generation, never after a question that another call slipped in while the
\* provider was working (chat.py stores it at seq + 1).
ReplyFollowsQuestion ==
    \A a \in messages : a.role = "assistant" =>
        \E u \in messages : /\ u.session = a.session
                            /\ u.of = a.of
                            /\ u.role = "user"
                            /\ u.seq + 1 = a.seq
                            /\ u.generation = a.generation

\* The exchanges of session s whose reply is stored.
Answered(s) ==
    {m.of : m \in {x \in messages : x.session = s /\ x.role = "assistant"}}

\* The lifetime total of a session adds up exactly its stored replies, and so
\* do its usage rows: although it is computed from a copy that was loaded
\* before the provider call and is written over the row, no charge is lost or
\* doubled, and the database never holds a reply whose cost is not counted.
LifetimeExact ==
    \A s \in SessionId : /\ row[s].lifetime = Answered(s)
                         /\ {r \in usage : sid[r] = s} = Answered(s)

\* The exchanges whose reply is in the active generation of s.
ActiveCharges(s) ==
    {m.of : m \in {x \in Dialogue(s, row[s].generation) :
                      x.role = "assistant"}}

\* The active total never misses a charge of the active generation and never
\* holds one that the lifetime total does not.
ActiveTotalCovers ==
    \A s \in SessionId : /\ ActiveCharges(s) \subseteq row[s].total
                         /\ row[s].total \subseteq row[s].lifetime

\* What the provider is given as history is, then and for ever after, exactly
\* the part of the generation that precedes the question: no late reply is
\* ever inserted before a question that was answered without it.
HistoryIsDialogue ==
    \A r \in Request : Asked(r) =>
        history[r] = {m \in Dialogue(sid[r], loaded[r].generation) :
                         m.seq < seq[r]}

\* Generations are consecutive stretches of the log, and none is newer than
\* the active one: a reply that arrives after a reset does not jump into the
\* dialogue started by the reset.
GenerationsInOrder ==
    /\ \A m, n \in messages :
          m.session = n.session /\ m.seq < n.seq => m.generation <= n.generation
    /\ \A m \in messages : m.generation <= row[m.session].generation

\* However many sends run at once, a generation outgrows the limit by at most
\* the one reply that is stored without a check of its own.
GenerationBounded ==
    \A s \in SessionId, m \in messages :
        Cardinality(Dialogue(s, m.generation)) <= MaxMessages + 1

\* What the caller is told agrees with what is stored.  A refused call left
\* no trace; one that failed at the provider kept its question and was not
\* charged; "created" and the empty reply mean that the reply and the charge
\* are stored with the question.
OutcomeTruthful ==
    \A r \in Request :
        /\ outcome[r] \in {"session_not_found", "validation_error",
                           "session_message_limit"}
           => \A m \in messages : m.of # r
        /\ outcome[r] \in {"unknown_model_pricing", "upstream_unavailable",
                           "upstream_rejected", "internal_error"}
           => Asked(r) /\ r \notin usage
        /\ outcome[r] \in {"created", "empty_reply"}
           => {UserMessage(r), AssistantMessage(r)} \subseteq messages
              /\ r \in row[sid[r]].lifetime

\* A question is stored only into the generation that is active at that
\* moment, and a reset never changes an exchange that is being stored.
QuestionsJoinActive ==
    \A m \in messages' \ messages :
        m.role = "user" => /\ m.generation = row[m.session].generation
                           /\ row' = row
QuestionsJoinActiveGeneration == [][QuestionsJoinActive]_vars

-----------------------------------------------------------------------------
(* The service keeps the promise of module Conversation: its log is the    *)
(* messages table, its spending the lifetime totals.                       *)

Promise == INSTANCE Conversation
           WITH opened <- created,
                generation <- [s \in SessionId |-> row[s].generation],
                log <- messages,
                spent <- [s \in SessionId |-> row[s].lifetime]

\* Every step of the service is a step of the conversation or invisible.
PromiseKept == Promise!Spec

-----------------------------------------------------------------------------
(* Liveness.                                                               *)

\* Every call that arrives is answered: waiting for a lock, for a slot in the
\* unique index and for the provider always comes to an end, also when a send
\* and a late reply wait for each other.
EveryCallAnswered ==
    \A r \in Request : pc[r] # "idle" ~> pc[r] = "done"

-----------------------------------------------------------------------------
(* What the documentation says and the service does not do.                *)

\* README.md says of a reply that arrives empty that it is recorded, because
\* it was billed, and errors.py that its usage is not discarded: an empty
\* reply the service received is in the accounting when the call ends.
EmptyReplyIsRecorded ==
    \A r \in Request :
        pc[r] = "done" /\ reply[r] = "empty" => r \in usage

\* models/chat.py says that the totals are those of the active generation
\* and that a reset puts them back to zero.
ActiveTotalExact ==
    \A s \in SessionId : row[s].total = ActiveCharges(s)

\* README.md says that the session row is locked for the duration of an
\* exchange: a session never has two exchanges under way.
Exchange == {"locked", "read", "stored", "calling", "answered", "inserted",
             "charging"}
ExchangesDoNotOverlap ==
    \A r, q \in Request :
        r # q /\ sid[r] = sid[q] => ~(pc[r] \in Exchange /\ pc[q] \in Exchange)
=============================================================================
