------------------------------- MODULE Billing -------------------------------
(***************************************************************************)
(* What the provider bills for while the service runs: the attempts that   *)
(* OpenAIProvider.complete makes through the SDK, beside ChatService.      *)
(*                                                                         *)
(* One provider call is up to 1 + MaxRetries attempts, numbered.  The SDK  *)
(* gives up on an attempt that times out, but the provider may be working  *)
(* on it, finish it later and bill it.  The SDK sends no idempotency key,  *)
(* so attempts are billed one by one.                                      *)
(***************************************************************************)
EXTENDS ChatService

CONSTANT MaxRetries  \* settings.openai_max_retries

ASSUME BillingAssumption == MaxRetries \in Nat

VARIABLES
    sent,     \* the number of attempts made for each call
    working,  \* attempts the provider has neither finished nor refused
    billed    \* attempts the provider has finished, and bills

attemptVars == <<sent, working, billed>>
billingVars == <<vars, attemptVars>>

Attempt == 1 .. 1 + MaxRetries

\* What an attempt may fail with: no answer; a 429, for its rate or for an
\* exhausted quota; a 5xx; a 408 or 409 ("conflict"), which the SDK takes for
\* temporary, too; 401 or 403; 400, 404 or 422.
Silence == {"timeout", "connection"}
Transient == Silence \cup {"rate_limit", "quota", "server_error"}
Failure == Transient \cup {"conflict", "credentials", "bad_request"}

\* The header x-should-retry of a response, which overrules its status.
Advice == {"absent", "retry", "stop"}

\* Silence carries no header and is always worth another attempt.
ShouldRetry(c, advice) ==
    \/ c \in Silence
    \/ advice = "retry"
    \/ advice = "absent" /\ c \in Transient \cup {"conflict"}

\* The domain error for the failure of the last attempt.  The adapter does not
\* look into a 429: an exhausted quota is called temporary like a rate limit.
Mapped(c) == IF c \in Transient THEN "upstream_unavailable"
                                ELSE "upstream_rejected"

-----------------------------------------------------------------------------
\* complete() makes the first attempt.
Dispatch(r) ==
    /\ CallProvider(r)
    /\ sent' = [sent EXCEPT ![r] = 1]
    /\ working' = [working EXCEPT ![r] = {1}]
    /\ UNCHANGED billed

\* The provider finishes an attempt, whether or not anyone still waits for it.
ProviderFinishes(r, k) ==
    /\ k \in working[r]
    /\ working' = [working EXCEPT ![r] = @ \ {k}]
    /\ billed' = [billed EXCEPT ![r] = @ \cup {k}]
    /\ UNCHANGED <<vars, sent>>

\* Mutant: the answer to an attempt that was given up is taken, too.
AnyAttemptFinished(r) == billed[r] # {}

\* Only the answer to the last attempt is listened to.
LastAttemptFinished(r) == sent[r] \in billed[r]

CompletionReturns(r) ==
    /\ LastAttemptFinished(r)
    /\ ProviderReplies(r)
    /\ UNCHANGED attemptVars

\* response.choices is empty: an IndexError after a billed attempt.
CompletionWithoutChoice(r) ==
    /\ LastAttemptFinished(r)
    /\ ProviderFails(r)
    /\ outcome'[r] = "internal_error"
    /\ UNCHANGED attemptVars

\* The last attempt fails with c.  After a timeout or a lost connection the
\* provider may still be working; any other failure is its answer.
AttemptFails(r, c) ==
    /\ pc[r] = "calling"
    /\ c \in Silence \/ sent[r] \in working[r]
LeftWorking(r, c) == IF c \in Silence THEN working[r]
                                      ELSE working[r] \ {sent[r]}

\* Mutant: the retries are not counted.
RetryUncounted(r, c, advice) ==
    /\ AttemptFails(r, c)
    /\ ShouldRetry(c, advice)
    /\ sent[r] <= MaxRetries
    /\ working' = [working EXCEPT ![r] = LeftWorking(r, c) \cup {sent[r]}]
    /\ UNCHANGED <<vars, sent, billed>>

\* Mutant: one retry too many.
RetryOnceMore(r, c, advice) ==
    /\ AttemptFails(r, c)
    /\ ShouldRetry(c, advice)
    /\ sent[r] <= MaxRetries + 1
    /\ sent' = [sent EXCEPT ![r] = @ + 1]
    /\ working' = [working EXCEPT ![r] = LeftWorking(r, c) \cup {sent[r] + 1}]
    /\ UNCHANGED <<vars, billed>>

Retry(r, c, advice) ==
    /\ AttemptFails(r, c)
    /\ ShouldRetry(c, advice)
    /\ sent[r] <= MaxRetries
    /\ sent' = [sent EXCEPT ![r] = @ + 1]
    /\ working' = [working EXCEPT ![r] = LeftWorking(r, c) \cup {sent[r] + 1}]
    /\ UNCHANGED <<vars, billed>>

\* Mutant: the first failure is passed on (max_retries is not given).
GiveUpAtOnce(r, c, advice) ==
    /\ AttemptFails(r, c)
    /\ ProviderFails(r)
    /\ outcome'[r] = Mapped(c)
    /\ working' = [working EXCEPT ![r] = LeftWorking(r, c)]
    /\ UNCHANGED <<sent, billed>>

\* The SDK raises, and complete() maps what it raises.
GiveUp(r, c, advice) ==
    /\ AttemptFails(r, c)
    /\ ~ShouldRetry(c, advice) \/ sent[r] > MaxRetries
    /\ ProviderFails(r)
    /\ outcome'[r] = Mapped(c)
    /\ working' = [working EXCEPT ![r] = LeftWorking(r, c)]
    /\ UNCHANGED <<sent, billed>>

Sdk(r) == \/ CompletionReturns(r) \/ CompletionWithoutChoice(r)
          \/ \E c \in Failure, advice \in Advice :
                Retry(r, c, advice) \/ GiveUp(r, c, advice)

\* Steps of the service that are not those of a provider call.  A process that
\* dies leaves its attempts to the provider.
Elsewhere ==
    /\ Next
    /\ \A r \in Request :
          /\ pc'[r] = "calling" => pc[r] = "calling"
          /\ pc[r] = "calling" => pc'[r] = "calling" \/ restarts' # restarts
    /\ UNCHANGED attemptVars

-----------------------------------------------------------------------------
BillingInit ==
    /\ Init
    /\ sent = [r \in Request |-> 0]
    /\ working = [r \in Request |-> {}]
    /\ billed = [r \in Request |-> {}]

BillingNext ==
    \/ Elsewhere
    \/ \E r \in Request : \/ Dispatch(r) \/ Sdk(r)
                          \/ \E k \in Attempt : ProviderFinishes(r, k)

BillingSpec == BillingInit /\ [][BillingNext]_billingVars

\* The service's own steps are taken as in ChatService; the SDK, which has a
\* timeout for every attempt, does not wait for ever.  Nothing is assumed of
\* the provider.
OwnStep(r) == Step(r) /\ Elsewhere
BillingFairSpec ==
    /\ BillingSpec
    /\ \A r \in Request : WF_billingVars(OwnStep(r) \/ Dispatch(r) \/ Sdk(r))

-----------------------------------------------------------------------------
BillingTypeOK ==
    /\ TypeOK
    /\ sent \in [Request -> 0 .. 1 + MaxRetries]
    /\ working \in [Request -> SUBSET Attempt]
    /\ billed \in [Request -> SUBSET Attempt]

\* Retries never make the record wrong, only incomplete.  The usage recorded
\* for a call is the one of its last attempt, and the provider bills it; an
\* answer to an attempt given up is never recorded in its place.  A call the
\* provider refused in the end is not billed for that attempt, however late;
\* one without a choice in its response is, although nothing is recorded; and
\* a call refused by the service made no attempt.
LastAttemptDecides ==
    \A r \in Request :
        /\ r \in usage \/ outcome[r] = "internal_error" => sent[r] \in billed[r]
        /\ outcome[r] = "upstream_rejected" =>
              sent[r] \notin billed[r] \cup working[r]
        /\ outcome[r] \in {"validation_error", "session_not_found",
                           "session_message_limit", "unknown_model_pricing"}
              => sent[r] = 0

\* Giving up leaves no answer behind that another attempt was due for: a call
\* that failed at the provider while its last attempt is still being worked
\* on, or is finished and billed after all, has used every retry, and its
\* caller was told to try again later.  Only an attempt that the provider has
\* answered with an error may end a call before that, because the header of
\* its response decides (openai_provider.py:31-37, the comment on max_retries,
\* and the except clauses).
SilenceWasRetried ==
    \A r \in Request :
        /\ outcome[r] \in {"upstream_unavailable", "upstream_rejected"}
        /\ sent[r] \in working[r] \cup billed[r]
        => /\ sent[r] = 1 + MaxRetries
           /\ outcome[r] = "upstream_unavailable"

\* Whatever the provider bills, also after a timeout or a restart, is for a
\* question that is stored: the question is committed before the first attempt.
BilledHasQuestion ==
    \A r \in Request : working[r] \cup billed[r] # {} => Asked(r)

\* With the SDK in the place of the provider call the service is still the
\* fair one: the provider step that ChatService takes on trust to come is
\* taken, because retries are bounded and attempts time out.
ServiceStaysFair == FairSpec
=============================================================================
