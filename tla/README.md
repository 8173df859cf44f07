# Verification of the chat sessions API

TLA+ models of the chat sessions service in `src/`, checked with TLC, and proofs
about them checked with TLAPS. The service stores conversations in PostgreSQL,
sends the active part of a conversation to a model provider and accounts for
what every reply cost. What can go wrong in it goes wrong between requests: an
exchange is two transactions around a provider call of up to minutes, and
everything else may happen meanwhile.

## 1. Inventory

| Part | Code | State | Operations | Modelled in |
|---|---|---|---|---|
| Chat service | `app/services/chat.py` | locals of each running handler | `create_session`, `send_message`, `reset_session` | `ChatService` |
| Repository | `app/repositories/chat_repo.py` | - | queries, row lock, `next_seq`, totals, generations, list of sessions | `ChatService`, `SessionList` |
| Schema, transactions | `app/models/chat.py`, `app/db/session.py` | tables `sessions`, `messages`, `message_usage`; the connection pool | unique constraint, foreign key, commit or rollback per request | `ChatService`, `ConnectionPool` |
| Context builder | `app/services/context_builder.py` | - | `build` | `ContextBuilder`, `ChatContext` |
| Pricing | `app/services/pricing.py` | the tariff file, loaded once per process | `price_for`, `calculate` | `Pricing` (amounts), `ChatService` (missing tariffs) |
| Provider adapter | `app/providers/` | the SDK's attempts under way | `complete` | outcomes in `ChatService`, attempts in `Billing` |
| Routes, errors | `app/api/`, `app/main.py`, `app/core/errors.py` | - | parse, delegate, map errors | exits of the handlers in `ChatService` |
| Spending report | `app/repositories/stats_repo.py`, `app/api/routes/stats.py` | - | five aggregate queries | `Reads` |
| Migrations, container start | `migrations/`, `Dockerfile`, `docker-compose.prod.yml` | the schema revision, the open transaction | upgrade, downgrade, restart | `Migration` |
| Chat page | `static/index.html` | session id, key, rendered thread, button | send, reset, new session, key, reload | `WebClient` |
| API key guard | `app/api/deps.py` | - | refuse a call without the key | `RejectKey` in `WebClient` |
| Schemas, spending page | `app/schemas/`, `static/stats.html` | - | - | not modelled |

How they interact. A route calls one `ChatService` method on a database session
of its own. `send_message` locks the session row (`SELECT ... FOR UPDATE`), checks
model and limit, reads the history, claims the next position, inserts the
question and **commits, which releases the lock**. It then builds the prompt,
calls the provider, inserts the reply at the claimed position plus one and
writes the running totals of the session from the copy of the row it loaded at
the beginning; `get_db` commits when the handler returns and rolls back when it
raises. `reset_session` locks the same row, increments the generation and puts
the active totals to zero. All of it runs concurrently on one event loop. The
provider call is up to `1 + OPENAI_MAX_RETRIES` attempts of the SDK. The page
calls the service over a network that may lose or delay answers, and every
container start migrates the database before it serves.

What is hard: the second transaction works on state read before the provider
call (totals, generation, position, history); sends and resets overlap with it;
PostgreSQL may find a deadlock between a sender and a late reply; either
transaction may fail or the process may die; the message limit is checked for
questions only; the provider may finish and bill what nobody waits for any more;
the page may have several answers under way at once; a migration may die half
way. PROJECT.json lists the hazards at their lines.

What makes each part correct:

- chat service and repository: a gapless order of messages, replies next to
  their questions, totals that are neither lost nor doubled, truthful answers to
  callers, no call that waits for ever, none that waits for the provider call of
  another, a list that can be walked while it grows;
- context builder: the prompt is a window of the dialogue as it really is;
- pricing: rounding does not drift, past costs stay explained, caching only saves;
- reports and pages: parts of one response read at different moments lose nothing
  that an earlier part has;
- provider adapter: the last attempt decides what is recorded and told, and what
  is billed for has a stored question;
- migrations: what a round trip forgets is bounded exactly, nothing is served on
  an old schema, and a failed migration can be repeated;
- chat page: it never mixes two answers, it comes to rest on the state of its
  session, and its button comes back.

## 2. Modules

| Module | What it is |
|---|---|
| `Conversation` | Abstract specification: sessions, a numbered log, generations and lifetime spending; `Open`, `Ask`, `Answer`, `Reset`. No requests, no locks. |
| `ChatService` | The service: concurrent calls, two transactions per exchange, PostgreSQL locks and the unique index, failures and restarts. Its properties, and the refinement `Promise == INSTANCE Conversation WITH ...`. |
| `ChatServiceProofs` | TLAPS proofs about `ChatService`. |
| `ConnectionPool` | Composition: `ChatService` behind the connection pool of its engine. |
| `ContextBuilder` | The prompt assembly, as operators. |
| `ChatContext` | Composition: the prompts `ChatService` sends, built by `ContextBuilder` from the histories its exchanges loaded. |
| `ContextProofs` | TLAPS proofs about `ChatContext`, on top of `ChatServiceProofs`. |
| `Pricing` | Cost of a reply, its usage row, the lifetime cost, and edits of the tariff. |
| `PricingProofs` | TLAPS proofs about `Pricing`. |
| `Reads` | Composition: pages of a session and spending reports, one statement at a time between the steps of `ChatService`. |
| `ReadsProofs` | TLAPS proofs about `Reads`, on top of `ChatServiceProofs`. |
| `SessionList` | `GET /sessions` page by page, while sessions are created and used. |
| `SessionListProofs` | TLAPS proofs about `SessionList`. |
| `Migration` | The database across container starts, migrations, crashes and downgrades, with exchanges, in their two transactions, and resets in between. |
| `MigrationProofs` | TLAPS proofs about `Migration`. |
| `WebClient` | Composition: one tab of the chat page as a client of `Conversation`, the promise of the service. |
| `WebClientProofs` | TLAPS proofs about `WebClient`. |
| `Billing` | Composition: `ChatService` with the attempts of the SDK in place of the provider call, and what the provider bills. |
| `BillingPoolProofs` | TLAPS proofs about `Billing` and `ConnectionPool`, on top of `ChatServiceProofs`. |
| `MCChatService`, `MCChatContext`, `MCReads`, `MCSessionList`, `MCWebClient` | Symmetry sets for TLC. |

`WebClient` is checked against `Conversation` and not against `ChatService`: the
refinement `PromiseKept` is what makes that sound for everything the page can
see of the dialogue, and it keeps the instance small. `Billing` is checked
against `ChatService` itself, because it replaces one of its steps.

Definitions marked `Mutant` are plausible mistakes next to the definition they
would replace. No specification uses them; they document what each property
would catch.

### ChatService: state and actions

A `Request` is one client call. `pc[r]` says where its handler is; each action
is the code between two points at which another handler, or another PostgreSQL
transaction, can run.

| Action | Code |
|---|---|
| `CreateSession` | `create_session`; a refusal changes nothing and is left out |
| `ReceiveMessage`, `RejectContent` | the route, the checks of the content before the first query |
| `SessionNotFound` | `get_session_or_404`, for sends and resets |
| `LockForSend`, `LockForReset` | `get_session(for_update=True)`: wait for the row lock, load the row |
| `RejectModel`, `RejectAtLimit` | early exits under the lock |
| `ReadHistory` | `list_messages`, `next_seq` |
| `StoreUserMessage` | insert of the question and the explicit commit, releasing the lock |
| `RejectUnpriced`, `CallProvider` | `price_for` after the commit, then the call |
| `ProviderReplies`, `ProviderFails` | `complete` returns text or nothing, or raises |
| `ReplySlotTaken`, `InsertReply` | insert of the reply: `IntegrityError`, or a pending entry in the unique index |
| `LockForReply` | `FOR KEY SHARE` on the session row, by the foreign key |
| `CommitExchange` | usage row, totals, commit; for an empty reply the explicit commit before `EmptyReplyError` |
| `ResetNothing`, `StartNewGeneration` | the two branches of `reset_session` |
| `DeadlockVictim` | PostgreSQL aborts one of a sender and a late reply that wait for each other |
| `DatabaseFails`, `Restart` | a failing statement; death of the process, perhaps with an edited tariff file |

Database variables hold committed rows. What an open transaction has written,
and the locks it holds, follow from `pc`: FOR UPDATE in `Exclusive`, FOR KEY
SHARE in `charging`, an index entry in `inserted` and `charging`. The handler's
Python variables are `loaded`, `history`, `seq` and `reply`.

Abstractions:

- A total is the *set* of exchanges it adds up. The four parallel columns of a
  family (three token counts and the cost) are written together and stand as
  one. A lost, doubled or foreign charge is then a difference of sets, not of
  sums that might agree by chance. Replies are taken to carry a usage above zero.
- Message contents and titles are left out; the two refusals of content are one
  exit. Every call is made at most once; a client that retries makes another
  call (the API has no idempotency key).
- Isolation is READ COMMITTED, PostgreSQL's default, which the code does not
  change. The tests run on SQLite, which ignores FOR UPDATE.
- The insert of the question and its commit are one step: between them the row
  is invisible to others and the lock is held anyway. Whether the insert has to
  wait for an uncommitted reply in the same slot is its guard. It cannot find a
  *committed* message in its slot: the position was claimed under the lock, and
  a reply that wants the slot either committed before or is still pending
  (`NoTwoWritersMeet`).
- The update of the session row after FOR KEY SHARE does not wait: at most one
  reply per session gets past the unique index at a time, and FOR UPDATE is
  excluded by the share lock (`NoTwoWritersMeet` and `LockExclusive` in the proofs).
- A commit either happened or did not when the caller learns of it; a connection
  lost during the commit, when neither side knows, is not modelled.
- `get_db` commits before the response is sent, so "created" is told after the
  commit.
- `MaxMessages` is any natural number. The limit counts one generation, so a
  reset makes room again.

## 3. Model checking

| Run | Instance | Shows |
|---|---|---|
| `faults` | 3 calls, 1 session, limit 2, 1 restart, database failures; 71 thousand states | the properties of `ChatService` below, but for `HistoryIsDialogue`, `GenerationBounded` and the liveness properties; the refinement of `Conversation` |
| `context` | 4 calls, limit 4, window 2, a system prompt; 465 thousand states | `HistoryIsDialogue`, `GenerationBounded`, `ContextIsWindow`, `RepliesKeepTheirQuestion` |
| `pool` | 3 calls, pools of 1 and 2 connections, `PoolFairSpec`, no symmetry; 181 thousand states | `StatementsEnd` |
| `session_list` | 4 sessions, pages of 2, 3 ticks of the clock; 93 thousand states | `WalkMissesNothing` |
| `pricing` | 1 model, prices 1 and 3 per 4 tokens, counts 0, 1, 5, 2 replies; 375 thousand states | `SumWithinOneQuantumPerReply`, `SnapshotExplainsCost`, `CachingOnlySaves` |
| `reads` | 2 calls, 2 models, 2 days, the latest day listed; 392 thousand states | `ReadsTypeOK`, `PageShowsWhatItCounts`, `ReportPartsGrow`, `DaysAreTheLatest` |
| `migration` | 2 sessions, 3 replies, 2 generations, 2 downgrades, 1 crash, `FairSpec`; 528 thousand states | `LifetimeLacksOnlyForgotten`, `ReturnedTurnsAreForgotten`, `ServesOnlyHead`, `ReportSurvives`, `ServiceComesUp` |
| `web_client` | 2 sends, 2 sessions, 2 other acts or losses, 2 calls in `Click`; 955 thousand states | `ThreadIsADialogue`, `QuietPageIsCurrent`, `ThinkingMeansWaiting`, `ButtonMeansWaiting` |
| `billing` | 2 calls, 1 retry, 1 restart, database failures, `BillingFairSpec`; 99 thousand states | `LastAttemptDecides`, `SilenceWasRetried`, `BilledHasQuestion`, `ServiceStaysFair`, `EveryCallAnswered` |
| `empty_reply`, `active_total`, `overlap` | 2 calls, 1 session | counterexamples, section 6 |

Properties of `ChatService`:

- `LogIsASequence`: positions are 1, 2, ... without gap or repetition.
- `ReplyFollowsQuestion`: a reply stands directly after its own question, in its
  generation.
- `LifetimeExact`: lifetime totals and usage rows are exactly the stored replies.
  The totals are written from a stale copy; this holds because any other
  exchange that could have changed them has also taken the slot of the reply.
- `ActiveTotalCovers`: the active total never misses a reply of the active
  generation and never exceeds the lifetime total. (It can hold *more* than the
  active generation: section 6.)
- `HistoryIsDialogue`: the history sent with a question is, then and later,
  everything that precedes it in its generation.
- `GenerationsInOrder`, `QuestionsJoinActiveGeneration`: generations are
  consecutive stretches; nothing is asked outside the active one.
- `GenerationBounded`: however many sends overlap, a generation exceeds the
  limit by at most one reply.
- `OutcomeTruthful`: what a caller was told agrees with what is stored.
- `PromiseKept`: every step is a step of `Conversation` or invisible to it.
- `EveryCallAnswered`: every call that arrives is answered. It is checked in
  `Billing`, where the provider call is the attempts of the SDK and its end is a
  consequence, not an assumption.
- `StatementsEnd` (`ConnectionPool`): whatever a call waits for in the database
  comes, even if no provider call ever returns.

Bounds. Sessions share nothing but the tariffs, so one session carries the
interactions. Two calls meet in every pairwise race; the third and fourth allow a
reset or a send between two phases of another exchange *and* an exchange after
it that observes the result. Limit 2 is reached by one exchange, so it is met by
overlapping ones. The `context` run has limit 4, so that a window of 2 really
drops turns and four questions can stand before the first reply; the generation
then reaches its bound of five messages. One model suffices: it has or has not a tariff, before and after a
restart, and may be named or left out. In `Pricing` four tokens to the unit and
prices 1 and 3 give remainders below, at and above one half, a cached count above
the prompt, and cached prices both lower and higher.

In `Migration` two generations give an archive that is itself archived again
after a downgrade, and two downgrades show that what was forgotten first is not
forgotten twice; three replies over two sessions put an answered exchange into
each generation of one session with another one under way, which a reset or a
question overtakes, or spend in both. (A third generation makes three million
states and shows nothing new.) In `WebClient` two sends overlap, a third call
(the reset, a new session, a key or the first load) runs across them, and one act
is left for a reload, a lost answer or a second click that overlaps the first; the
second session is there for a page that moves while answers of the first are
under way. One retry makes the attempt
that decides different from the one that was given up; the proofs cover any
number. With two retries the `billing` run takes more than ten times as long and
shows nothing new. Its two calls meet in the deadlock that `EveryCallAnswered` is
about: a sender and the late reply of another exchange. In `ConnectionPool` one connection lets
any call that keeps it block the others, two let a lock holder and its waiter hold
one each while a third call has none. In `SessionList` two full pages and the
empty one after them make three reads, with a clock that lets sessions be younger,
older and of equal date.

The deadlock check is on in all runs except `pricing`, `migration`, `web_client`
and `session_list`. In `pricing` the bound on replies and a single tariff may leave
nothing to do; a service that is up and has used up its generations and replies
rests, and so do a page whose user does nothing and a list that has been read to
its end. `Terminating` marks the end of all
calls in `ChatService`, so any other stop would be reported.

Fairness. `FairSpec` has weak fairness of `Step(r)` for each call: the event loop
resumes every handler whose wait is over; a provider call ends by its timeout and
retry limit at the latest; PostgreSQL detects deadlocks; row locks are granted in
arrival order, so a waiting call is not overtaken for ever (with finitely many
calls weak fairness is enough, because lock holders come to an end). Arrival of
calls, database failures and restarts are not fair: nothing depends on them.

`BillingFairSpec` replaces the part of this that concerns the provider. It has
weak fairness of the service's own steps, of the start of the provider call and
of the SDK, which has a timeout for every attempt (`OPENAI_TIMEOUT_SECONDS`); it
assumes nothing of the provider. `ServiceStaysFair` shows that `FairSpec` of
`ChatService` follows: the attempts are counted, so the call ends.

`PoolFairSpec` has weak fairness of the steps of each call that are not the
provider's, and of its turn at the pool, which serves its waiters in arrival
order. It too assumes nothing of the provider: `StatementsEnd` is about an outage.

`FairSpec` of `Migration` has weak fairness of what the container runtime and
alembic do by themselves (`restart: unless-stopped`, and an upgrade that runs to
its end once started), and of finishing a downgrade that an operator started.
Crashes are bounded, as an unbounded series of them is no service at all.

## 4. Proofs

`ChatServiceProofs` proves, for any sets of calls, sessions and models, any limit
and any faults, from `ConfigAssumption` alone:

`TypeCorrect`, `LogStaysASequence`, `LifetimeStaysExact`,
`ActiveTotalStaysCovering`, `HistoryStaysTheDialogue`, `GenerationsStayInOrder`,
`RepliesFollowQuestions`, `QuestionsStayInActive`, `OutcomesStayTruthful` and
`Refinement` (`Spec => PromiseKept`).

The argument. None of the data invariants is inductive alone: whether a stale
write is harmless depends on what the lock and the unique index allowed since
the copy was made. `IInv` therefore adds

- `LockExclusive`: at most one call of a session is between lock and commit, and
  no reply is being charged meanwhile;
- `LoadedIsCurrent`: a lock holder's copy is the row;
- `ClaimIsNext`: a claimed position is past every stored one while the lock is
  held;
- `Origins`: every stored message was written by the call it names, from that
  call's own locals;
- `AnswerSlot`: a call that waits for its reply has either lost the slot after
  its question for good, or its question is the last turn of the session and its
  copy of the totals still equals the row's (`LastAsked`), unless a reset has
  opened a newer generation in between, which leaves the lifetime total alone;
- `LoadedTotals`: a copy of the active total is covered by the copy of the
  lifetime total made with it;
- `Existing`: handlers and messages belong to sessions that exist.

`AnswerSlot` carries the refinement as well: it is what makes
a late reply an `Answer` of the last turn, or nothing. Each action has its lemma
(`...KeepsInvariant`); `MovesKeepInvariant` treats all actions that change only
`pc`, `outcome` and locals without a part in `IInv`. `OutcomesStayTruthful` uses
`EndedCallsRest`: nothing happens to a call that has ended.

`GenerationStaysBounded` needs one invariant more. The limit is checked once,
against the history that the handler reads; `HistoryBelowLimit` keeps that
history below it, and `HistoryIsDialogue` makes it all that precedes the question.
So every question stands below the limit, and a reply, which stands next to its
question, at most one above.

`NoTwoWritersMeet` justifies what section 2 leaves out of the model: a question
never meets a stored message in its slot, and two replies of a session are never past
the unique index at once, because both of their questions would have to be the last
of the session.

Three theorems are about waiting, which is what `EveryCallAnswered` depends on
besides fairness. `OnlyOneKindOfDeadlock`: calls wait for the row lock and for
slots of the unique index (`WaitsFor`), and no wait ends at a call that waits,
except where a sender and a late reply wait for each other; so `DeadlockVictim`,
which breaks only that cycle, leaves none out. `SomebodyCanGoOn`: a call under way
can go on or waits for one that can. `CanStep` spells out the guards of the
actions in `Step`, because `ENABLED` is out of the prover's reach (in the states
of run `faults`, TLC finds `CanStep(r)` equal to `ENABLED Step(r)`); that `next_seq`
always finds a position is `APositionFollows`. `CallsEndAfterNineSteps`: no step,
failure or restart takes a handler back.

`ReadsProofs` shows that readers are invisible to the service
(`ReadersAreInvisible`), so that everything above also holds while something is
read, and from it `ReadsTypeCorrect` and `PagesShowWhatTheyCount`, which needs the invariant
`CountedIsComplete`: what the session row counted when it was read is stored,
question and reply, by calls that have ended, and ended calls rest. It assumes
`ReadsAssumption`, of which only that there is a session id matters so far.

`ReadsProofs` also has the parts of a report. `Recorded` says that
billed replies are stored and their calls have ended; ended calls rest, so what
one statement counted the next one counts as well (`ReportPartsNeverShrink`). That
the curve holds the latest days (`CurveStaysTheLatest`) rests on a fact about any
finite set of days, `CurveIsTheLatest`.

`ContextProofs` proves both properties of `ChatContext` for any window, any
limit and any number of calls. `ContextStaysWindow` has three parts. A list is a
set put in order, and `InOrderOrders` and `OrderIsExact` say that this order
exists, holds each element once and in the place given by the number of smaller
ones; that filtering and slicing such a list yields the newest usable turns is
then counting (`Stretch`, `Positions`, `UsableInOrder`, `NewestInOrder`). And the
history that the handler read is, when the provider has the prompt, all that
precedes the question in the database (`HistoryIsDialogue`), below the limit and
so finite (`HistoryBelowLimit`). `PromptsKeepPairs` follows from it with
`ReplyFollowsQuestion`: between a reply and its question there is no position,
so no turn can stand between them in the prompt, and a question is always usable.

`PricingProofs` proves `SnapshotsExplain`, `CachingSaves`,
`EachRowWithinOneQuantum` and `SumStaysWithinOneQuantumPerReply` for any prices,
counts, numbers of replies and edits of the tariff. The invariant is that every
row is an `ExplainedRow`, computed from its own copies; then each row strays by a
quantum at most, by the arithmetic of the rounding (`RoundedHalfUp`,
`RoundingMonotone`). For the sum it has to be known that the fold over a sequence
with one more row is the fold over the old one plus that row (`SumAppend`). The
fold chooses a function of all sets of positions; `SumsExist` proves by induction
over the length that there is one (`Induction`, from the well-founded order of the
natural numbers), and `PrefixSums` what it is on the prefixes.

`SessionListProofs` proves `WalksMissNothing` for any number of sessions and any
page size. Rows are never deleted and their dates never change, so the number of
rows younger than a given one only grows; `NothingSlipsPast` says that a session
not yet shown has at least `offset` younger ones, unless one shares its date, and `PageStep` that a page
keeps this.

`MigrationProofs` proves all safety properties of `Migration` for any sessions,
replies and bounds, and `ReportSurvives` with them. The invariant is about two
databases: `Consistent(db, forgotten)` relates totals, lifetime totals and turns
of the committed database at either revision, and `TxConsistent` says what the
open transaction has made of it so far, per command; `Coordinated` ties
container, command and revision. A property of the committed database alone is
not inductive, because the commit replaces it by what the transaction sees. The
exchanges under way need an invariant of their own (`InFlight`): at most one of a
session still has its position (`OnePerSession`), so nothing was charged since it
read the lifetime total, which is therefore up to date when it is written back;
the active total it read is so, too, unless a reset has opened a generation
after it. That is enough for `ReturnedTurnsWereForgotten`, which says that no
active turn is uncounted but those a downgrade brought back. It does not say that
the active total counts active turns only: section 6.

`WebClientProofs` proves that the page is a client (`PageIsAClient`: every
behaviour is one of `Conversation`), that the thread stays a dialogue, that the
button is not lost, that placeholders are removed and that a page at rest is up
to date. `ThreadStaysADialogue`
needs the same of every answer under way (`DialogueInv`) and that the log is only
appended to within the active generation; the button and the
placeholders share `ComposerInv`.
`ShapeOfSteps` says once what any step of the page may do to the variables these
invariants read. `QuietPagesAreCurrent` needs an invariant about pages that are
not at rest: while nothing has gone wrong (`Orderly`), the service works only on sends that
the page still waits for and on resets whose failure it is about to show (`LostResets`), one load at most is under way, for the session of the
page, and the answer that arrived, or else the page, is up to date unless a send
or a reset is still to load it again.

`BillingPoolProofs` proves that the service with attempts implements `ChatService`
(`AttemptsImplementTheCall`), so that all theorems of `ChatServiceProofs` hold of
it, and its own properties from `AttemptsInv` (attempts, what is under way
and what is billed, by control point) and `QuestionInv` (a call that has made an
attempt has stored its question, for good). `SilenceIsAlwaysRetried` is about any
number of retries, of which the run has one. `ProviderCallsRunOut` is the safety half
of `ServiceStaysFair`: whenever the SDK acts, it makes the next of `1 + MaxRetries`
attempts or returns.

Of the service behind its connection pool it proves the same
(`PoolImplementsTheService`), and `PoolNeverDeadlocks`, for any size of the pool. A
call with a connection can go on or waits for one that can go on and has a
connection as well, and while no connection is free, some call that has one can go on.
`PoolInv` says why: every call that holds a lock or an index entry holds a
connection (`LocksComeByStatements`), so nobody who is waited for waits for the
pool, and calls at the provider hold none, so nobody waits for the provider
call of another. This is what `StatementsEnd` rests on besides fairness.

Only model-checked: `EveryCallAnswered`, `StatementsEnd`, `ServiceComesUp` and
`ServiceStaysFair` (liveness and fairness are out of the prover's reach). Every
safety property that a passing run checks is a theorem.

## 5. The other modules

### Pricing and prompts

`Pricing` counts money in quanta of 1e-8 USD, the resolution of the columns.
Decimal arithmetic is exact but for the one quantisation in `to_money`, so
integers represent it; prices are taken to have at most eight decimals and
reported token counts not to be negative. `EditTariff` is an edit of the file
together with the restart that loads it. The sum of the rows is compared with
the exact invoice, computed without the code's `min`, `max` and rounding.

`ChatContext` compares the prompt with the *database at the time the provider has
it*, not with the handler's own history: the newest complete turns before the
question, as many as the window admits. A list in order is stated by its one
defining fact (`InOrder`: each element once, by increasing rank), both for the rows
that `list_messages` returns, by position, and for the turns that the filter keeps,
by index; how PostgreSQL sorts or Python filters is not at issue.

### Reads

One response is read per behaviour, a page (`ReadSession`, `ReadMessages`; the
route that lists messages reads the same way) or a report (`CountSessions`,
`ReadOverall`, `ReadByModel`, `ReadByDay`, `ReadFailed`). Statements take no lock
and each sees what is committed when it runs, so nothing else has to be modelled
of their transaction. What a sum adds up is again a set of exchanges. A reply is
dated by the beginning of the transaction that stores it, as `now()` is in
PostgreSQL; it may commit on a later day, so the past of the curve can grow. Two
days and a limit of one make the limit cut.

Because the parts belong to different moments, `failed` may exceed `overall`, and
a page may show a reply that its totals do not count yet. Both last for one
response.

### The list of sessions

`SessionList` is one client that walks `GET /sessions` with `limit` and `offset`,
and any number of others that create and use sessions. A row is dated by the
beginning of its transaction and may commit late, so a new row may turn up in the
middle of the list; it pushes older ones to later pages, where they are shown
again. `Use` changes `updated_at` only: ordered by it, a session that is used
would jump over the client's offset and be missed. Sessions of equal date have no
order, and `WalkMissesNothing` excepts them.

### The connection pool

A database session takes a connection with the first statement of a transaction
(`Connect`) and returns it at commit and rollback (`Release`); `expire_on_commit` is off, so
nothing is queried while the provider works. A waiter that the pool turns away
after its timeout of 30 seconds is a `DatabaseFails` of `ChatService`. `Serve` is a
step of `ChatService`, so the safety properties carry over, and `StatementsEnd` is the one
that the pool could break: a call that kept its connection over the provider call
would make a lock holder wait for the provider of somebody else. `poolSize` is a
variable only so that one run covers several sizes.

### Migrations

alembic runs one command in one transaction (`migrations/env.py`), and DDL is transactional in
PostgreSQL: `tx` is what the command sees, `db` what is committed, and a crash
forgets `tx`. Every container start upgrades before it serves; `restart:
unless-stopped` in `docker-compose.prod.yml` starts it again after a crash. A
downgrade is an operator's command, with the service stopped. The database at the
beginning is empty or left by the first release, with spending.

An exchange is its two transactions here, too (`Ask`, `Answer`): `awaiting` holds
what the first one read, and resets, other exchanges and the end of the container
may come before the second. A question takes the position that the reply of an
exchange under way would take, so that reply is refused (`LastAsked`); one that is
still accepted writes the totals as they were read. Row locks and the finer
interleavings are the subject of `ChatService`.

A downgrade to 0001 and an upgrade back is not the identity. The archived turns
come back into generation 1, and `lifetime_*` is copied from `total_*`, which do not
count them. `forgotten` says which these are, and the properties that nothing else
is lost; the comment in `0002_generations.py:44-45` is right about the way up from
the first release, and silent about the way back.

### The chat page

One tab. Each async function of the page is a call named by its cause; it makes
one fetch after another, the service handles a fetch some time after it was made
(`Serve...`), and the page its answer some time after that. `Lose` loses a request or its
answer; after a reload, the page no longer hears of the service, which goes on
with what it was asked: with sends (`AtService`), and with the resets and creations
in `unheard` (`ServeUnheard`), whenever it gets to them. A reset may so commit
after the reloaded page has fetched its session. `localStorage` may hold an id that the service does not know. `marred`
remembers that since the page was opened two answers it renders were under way at once, or one was
an error, or that a reload left a send or a reset with the service.

What the page does not promise, and the properties therefore leave out:

- Enter calls `send()` although the button is disabled, so sends overlap; the first
  to end enables the button for both.
- Two loads under way render in the order of their answers, so the page may come
  to rest on the older one (`QuietPageIsCurrent` asks for `~marred`).
- After a successful send, the placeholder is removed by the reload of the
  thread; when that reload fails, it stays (`ThinkingMeansWaiting` likewise).
- The question of a failed send stays on the page as its echo.
- A page reloaded during a send or a reset may come to rest on what its session
  was before; the next load brings it up to date.

The button of a new session and the key field are never disabled, so their calls
may overlap themselves: each has a name of its own in `Click`. The reset button is
disabled while its call is under way. Other tabs are other clients of
`Conversation`; a page does not hear of them and they are left out.

### Attempts and billing

`complete` hands a call to the OpenAI SDK, which makes an attempt and up to
`OPENAI_MAX_RETRIES` more. After a timeout or a lost connection it always tries again
while retries are left; after an error response it does what the header
`x-should-retry` says (`Advice`), and without one it retries 408, 409, 429 and 5xx
(`ShouldRetry`, the policy of the pinned release 1.59.6; the SDK is not in the
repository). So `upstream_unavailable` may be told after one attempt when the
provider says not to retry, and a 400 may be retried when it says to. Only silence
is sure to be retried: a call never ends while the provider may still finish its
last attempt unless that was the last one allowed (`SilenceWasRetried`). Attempts are billed one by one: there is no idempotency key. The provider
may finish an attempt that the SDK gave up (`ProviderFinishes`), also after the caller was told
"temporarily unavailable" or the process died; `billed` is what it has finished. So
more may be billed than is recorded, but never for a question that is not stored
(`BilledHasQuestion`), and what is recorded is what the last attempt returned
(`LastAttemptDecides`). A response without choices is an `IndexError`, so a 500 after a
billed attempt.

## 6. Where documentation and code differ

- `EmptyReplyIsRecorded` (run `empty_reply`). README.md says a reply that arrives
  empty is recorded because it was billed. If another send stored its question
  in the reply's position meanwhile, the insert of the reply fails, the
  transaction is rolled back, the caller is told `database_error`, and the billed
  reply, empty or not, leaves no trace.
- `ActiveTotalExact` (run `active_total`). `models/chat.py` says the totals are
  those of the active generation and go back to zero at a reset. A reset during
  an exchange does so, and then the reply writes the old generation's totals back.
- `ExchangesDoNotOverlap` (run `overlap`). README.md says the session row is
  locked for the duration of an exchange. The lock ends with the commit of the
  question, as a comment in `chat.py` explains.

Noted in passing, without a run: `SendMessageOut.total_accumulated_cost` is
documented as the cost of the whole session and is filled with the total of the
active generation. `errors.py:69` and `README.md:465` count an exhausted quota
among the causes of `upstream_rejected`; the provider answers it with a 429, for
which the SDK raises `RateLimitError`, and `openai_provider.py:49` makes that
`upstream_unavailable`. The model has it so (`"quota"` in `Transient` of `Billing`), and no
property claims that what is called temporary is.

## 7. Not modelled

- Schemas (`app/schemas/`): validation of payloads and the averages of one
  report. They keep no state; a refused payload is the `validation_error` exit of
  `ChatService`.
- Spending page (`static/stats.html`) and, of the chat page, usage lines, metrics,
  notices and the list of models: display of one answer.
- The list of models, the health route, static files, reading the configuration:
  constants or I/O.
- The extraction of token counts from a provider response: a pure conversion with
  defaults; `Pricing` takes the counts it yields.
- Token sums, averages and answer lengths of the report: sums beside those that
  `Reads` has, over the same rows in the same statements.
- Titles of sessions, indexes and column types of the tables, the deletion
  cascades (nothing in the code deletes a session).
- Offline migrations, which print SQL; ports, volumes and health checks of the
  containers.
- More than one API process: the deployment starts one. The locks are in
  PostgreSQL, so only the tariff would differ between processes.
