-------------------------- MODULE BillingPoolProofs --------------------------
(***************************************************************************)
(* Proofs about the two compositions that spell out what a handler waits   *)
(* for outside the tables: Billing, its provider, for any number of        *)
(* retries, and ConnectionPool, its connection, for any size of the pool.  *)
(* Neither changes anything that the service knows, so what is proved of   *)
(* ChatService holds with them.                                            *)
(***************************************************************************)
EXTENDS Billing, ConnectionPool, ChatServiceProofs

-----------------------------------------------------------------------------
(* The provider.                                                           *)

\* A step with attempts is a step of the service, or none.
LEMMA BillingLeavesService ==
    ASSUME [BillingNext]_billingVars
    PROVE  [Next]_vars
BY DEF BillingNext, Elsewhere, Dispatch, Sdk, ProviderFinishes,
       CompletionReturns, CompletionWithoutChoice, Retry, GiveUp, Next, Step,
       billingVars

\* The SDK's attempts are a way to make the provider call of ChatService:
\* every behaviour with attempts is one of the service.
THEOREM AttemptsImplementTheCall == BillingSpec => Spec
<1>1. BillingInit => Init
  BY DEF BillingInit
<1> QED
  BY <1>1, BillingLeavesService, PTL DEF BillingSpec, Spec

-----------------------------------------------------------------------------
(* Typing.                                                                 *)

AttemptsTyped == /\ sent \in [Request -> 0 .. 1 + MaxRetries]
                 /\ working \in [Request -> SUBSET Attempt]
                 /\ billed \in [Request -> SUBSET Attempt]

LEMMA AttemptsTypedStep ==
    AttemptsTyped /\ [BillingNext]_billingVars => AttemptsTyped'
<1> SUFFICES ASSUME AttemptsTyped, [BillingNext]_billingVars
             PROVE  AttemptsTyped'
  OBVIOUS
<1> USE BillingAssumption DEF AttemptsTyped, Attempt
<1>1. CASE UNCHANGED attemptVars
  BY <1>1 DEF attemptVars
<1>2. ASSUME NEW r \in Request, Dispatch(r) PROVE AttemptsTyped'
  BY <1>2 DEF Dispatch
<1>3. ASSUME NEW r \in Request, NEW k \in Attempt, ProviderFinishes(r, k)
      PROVE  AttemptsTyped'
  BY <1>3 DEF ProviderFinishes
<1>4. ASSUME NEW r \in Request, NEW c \in Failure,
             NEW advice \in Advice, Retry(r, c, advice)
      PROVE  AttemptsTyped'
  <2>1. sent[r] + 1 \in 0 .. 1 + MaxRetries /\ sent[r] + 1 \in 1 .. 1 + MaxRetries
    BY <1>4 DEF Retry
  <2>2. LeftWorking(r, c) \in SUBSET (1 .. 1 + MaxRetries)
    BY DEF LeftWorking
  <2>3. LeftWorking(r, c) \cup {sent[r] + 1} \in SUBSET (1 .. 1 + MaxRetries)
    BY <2>1, <2>2
  <2> QED
    BY <1>4, <2>1, <2>3 DEF Retry
<1>5. ASSUME NEW r \in Request, NEW c \in Failure,
             NEW advice \in Advice, GiveUp(r, c, advice)
      PROVE  AttemptsTyped'
  <2>1. LeftWorking(r, c) \in SUBSET (1 .. 1 + MaxRetries)
    BY DEF LeftWorking
  <2> QED
    BY <1>5, <2>1 DEF GiveUp
<1>6. ASSUME NEW r \in Request,
             CompletionReturns(r) \/ CompletionWithoutChoice(r)
      PROVE  UNCHANGED attemptVars
  BY <1>6 DEF CompletionReturns, CompletionWithoutChoice
<1>7. CASE Elsewhere \/ UNCHANGED billingVars
  BY <1>1, <1>7 DEF Elsewhere, billingVars
<1> QED
  BY <1>1, <1>2, <1>3, <1>4, <1>5, <1>6, <1>7 DEF BillingNext, Sdk

LEMMA AttemptsAlwaysTyped == BillingSpec => []AttemptsTyped
<1>1. BillingInit => AttemptsTyped
  BY BillingAssumption DEF BillingInit, AttemptsTyped
<1> QED
  BY <1>1, AttemptsTypedStep, PTL DEF BillingSpec

\* Type correctness, with at most 1 + openai_max_retries attempts for a call.
THEOREM BillingTypeCorrect == BillingSpec => []BillingTypeOK
<1>1. TypeOK /\ AttemptsTyped => BillingTypeOK
  BY DEF AttemptsTyped, BillingTypeOK
<1> QED
  BY <1>1, AttemptsAlwaysTyped, AttemptsImplementTheCall, TypeCorrect, PTL

-----------------------------------------------------------------------------
(* What a step that is not one of a provider call does to a call.          *)

Early == {"idle", "wait_send", "locked", "read", "stored", "wait_reset",
          "resetting"}
Late == {"answered", "inserted", "charging"}

RefusedHere == {"validation_error", "session_not_found",
                "session_message_limit", "unknown_model_pricing"}

\* The fates of a call on which billing does not depend.
Indifferent == {"ok", "created", "empty_reply", "database_error", "lost"}

CallMoves(q) ==
    /\ \/ pc'[q] = pc[q] /\ outcome'[q] = outcome[q]
       \/ pc[q] \in Early /\ pc'[q] \in Early /\ outcome'[q] = outcome[q]
       \/ pc[q] \in Late /\ pc'[q] \in Late /\ outcome'[q] = outcome[q]
       \/ pc[q] \in Early /\ pc'[q] = "done" /\ outcome'[q] \in RefusedHere
       \/ pc'[q] = "done" /\ outcome'[q] \in Indifferent
    /\ q \in usage' => q \in usage \/ pc[q] = "charging"

LEMMA ElsewhereMoves ==
    ASSUME TypeOK, Elsewhere, NEW q \in Request
    PROVE  CallMoves(q)
<1> USE DEF TypeOK, CallMoves, Early, Late, RefusedHere, Indifferent,
            Goto, Finish, dbVars, localVars, callVars
<1>1. Next /\ (pc'[q] = "calling" => pc[q] = "calling")
      /\ (pc[q] = "calling" => pc'[q] = "calling" \/ restarts' # restarts)
  BY DEF Elsewhere
<1>2. ASSUME NEW s \in SessionId, NEW m \in Model \cup {NoModel},
             CreateSession(s, m)
      PROVE  CallMoves(q)
  BY <1>2 DEF CreateSession
<1>3. ASSUME NEW r \in Request, NEW s \in SessionId,
             \/ ReceiveReset(r, s)
             \/ \E m \in Model \cup {NoModel} : ReceiveMessage(r, s, m)
      PROVE  CallMoves(q)
  BY <1>3 DEF ReceiveReset, ReceiveMessage
<1>4. ASSUME NEW r \in Request,
             \/ RejectContent(r) \/ RejectModel(r) \/ RejectAtLimit(r)
             \/ SessionNotFound(r) \/ RejectUnpriced(r)
      PROVE  CallMoves(q)
  BY <1>4 DEF RejectContent, RejectModel, RejectAtLimit, SessionNotFound,
              RejectUnpriced
<1>5. ASSUME NEW r \in Request,
             LockForSend(r) \/ LockForReset(r) \/ ReadHistory(r)
      PROVE  CallMoves(q)
  BY <1>5 DEF LockForSend, LockForReset, LockRow, ReadHistory
<1>6. ASSUME NEW r \in Request, StoreUserMessage(r) PROVE CallMoves(q)
  BY <1>6 DEF StoreUserMessage
<1>7. ASSUME NEW r \in Request, CallProvider(r) PROVE CallMoves(q)
  BY <1>1, <1>7 DEF CallProvider
<1>8. ASSUME NEW r \in Request, ProviderReplies(r) \/ ProviderFails(r)
      PROVE  CallMoves(q)
  <2>1. restarts' = restarts
    BY <1>8 DEF ProviderReplies, ProviderFails, processVars
  <2> QED
    BY <1>1, <1>8, <2>1 DEF ProviderReplies, ProviderFails
<1>9. ASSUME NEW r \in Request, InsertReply(r) \/ LockForReply(r)
      PROVE  CallMoves(q)
  BY <1>9 DEF InsertReply, LockForReply
<1>10. ASSUME NEW r \in Request, CommitExchange(r) PROVE CallMoves(q)
  <2>1. q # r => pc'[q] = pc[q] /\ outcome'[q] = outcome[q]
    BY <1>10 DEF CommitExchange
  <2>2. q = r => pc'[q] = "done" /\ outcome'[q] \in {"created", "empty_reply"}
    BY <1>10 DEF CommitExchange
  <2>3. pc[r] = "charging" /\ usage' = usage \cup {r}
    BY <1>10 DEF CommitExchange
  <2> QED
    BY <2>1, <2>2, <2>3
<1>11. ASSUME NEW r \in Request,
              \/ ReplySlotTaken(r) \/ DeadlockVictim(r) \/ DatabaseFails(r)
              \/ ResetNothing(r) \/ StartNewGeneration(r)
       PROVE  CallMoves(q)
  BY <1>11 DEF ReplySlotTaken, DeadlockVictim, DatabaseFails, ResetNothing,
               StartNewGeneration
<1>12. CASE Restart
  BY <1>12 DEF Restart
<1>13. CASE Terminating
  BY <1>13 DEF Terminating, vars
<1> QED
  BY <1>1, <1>2, <1>3, <1>4, <1>5, <1>6, <1>7, <1>8, <1>9, <1>10, <1>11,
     <1>12, <1>13 DEF Next, Step

-----------------------------------------------------------------------------
(* The attempts of one call, and what its caller was told.                 *)

AttemptsOf(r) ==
    /\ outcome[r] # "none" => pc[r] = "done"
    /\ pc[r] \in Early => sent[r] = 0
    /\ pc[r] = "calling" => sent[r] >= 1
    /\ \A k \in working[r] \cup billed[r] : k <= sent[r]
    /\ working[r] \cap billed[r] = {}
    /\ pc[r] \in Late \/ r \in usage \/ outcome[r] = "internal_error"
       => sent[r] \in billed[r]
    /\ outcome[r] = "upstream_rejected" => sent[r] \notin billed[r] \cup working[r]
    /\ /\ outcome[r] = "upstream_unavailable"
       /\ sent[r] \in working[r] \cup billed[r]
       => sent[r] = 1 + MaxRetries
    /\ outcome[r] \in RefusedHere => sent[r] = 0

AttemptsInv == \A r \in Request : AttemptsOf(r)

LEMMA ChargedIsDone == IInv /\ TypeOK => \A r \in usage : pc[r] = "done"
  BY DEF IInv, Origins, TypeOK

LEMMA AttemptsStep ==
    TypeOK /\ IInv /\ AttemptsTyped /\ AttemptsInv /\ [BillingNext]_billingVars
    => AttemptsInv'
<1> SUFFICES ASSUME TypeOK, IInv, AttemptsTyped, AttemptsInv,
                    [BillingNext]_billingVars, NEW q \in Request
             PROVE  AttemptsOf(q)'
  BY DEF AttemptsInv
<1>1. /\ AttemptsOf(q)
      /\ q \in usage => pc[q] = "done"
      /\ sent[q] \in 0 .. 1 + MaxRetries
      /\ working[q] \subseteq Attempt /\ billed[q] \subseteq Attempt
      /\ MaxRetries \in Nat
  BY ChargedIsDone, BillingAssumption DEF AttemptsInv, AttemptsTyped
<1> USE DEF AttemptsOf, Early, Late, RefusedHere
<1>2. CASE UNCHANGED billingVars
  BY <1>1, <1>2 DEF billingVars, vars, dbVars, attemptVars
<1>3. CASE Elsewhere
  <2>1. CallMoves(q)
    BY <1>3, ElsewhereMoves
  <2>2. UNCHANGED <<sent, working, billed>>
    BY <1>3 DEF Elsewhere, attemptVars
  <2> QED
    BY <1>1, <2>1, <2>2 DEF CallMoves, Indifferent
\* A step of the provider call of another request.
<1>4. ASSUME pc'[q] = pc[q], outcome'[q] = outcome[q], usage' = usage,
             sent'[q] = sent[q], working'[q] = working[q], billed'[q] = billed[q]
      PROVE  AttemptsOf(q)'
  BY <1>1, <1>4
<1>5. ASSUME NEW r \in Request, Dispatch(r) PROVE AttemptsOf(q)'
  <2>1. /\ pc[r] = "stored" /\ pc' = [pc EXCEPT ![r] = "calling"]
        /\ sent' = [sent EXCEPT ![r] = 1]
        /\ working' = [working EXCEPT ![r] = {1}]
        /\ UNCHANGED <<outcome, usage, billed>>
    BY <1>5 DEF Dispatch, CallProvider, Goto, dbVars
  <2>2. CASE q # r
    BY <1>4, <2>1, <2>2 DEF TypeOK, AttemptsTyped
  <2>3. CASE q = r
    <3>1. /\ pc'[q] = "calling" /\ sent'[q] = 1 /\ working'[q] = {1}
          /\ billed'[q] = billed[q] /\ outcome'[q] = outcome[q]
          /\ usage' = usage
      BY <2>1, <2>3 DEF TypeOK, AttemptsTyped
    <3>2. sent[q] = 0 /\ outcome[q] = "none" /\ q \notin usage
      BY <1>1, <2>1, <2>3
    <3>3. billed[q] = {}
      BY <1>1, <3>2 DEF Attempt
    <3> QED
      BY <3>1, <3>2, <3>3
  <2> QED
    BY <2>2, <2>3
<1>6. ASSUME NEW r \in Request, NEW k \in Attempt, ProviderFinishes(r, k)
      PROVE  AttemptsOf(q)'
  <2>1. /\ k \in working[r]
        /\ working' = [working EXCEPT ![r] = @ \ {k}]
        /\ billed' = [billed EXCEPT ![r] = @ \cup {k}]
        /\ UNCHANGED <<sent, pc, outcome, usage>>
    BY <1>6 DEF ProviderFinishes, vars, dbVars
  <2>2. CASE q # r
    BY <1>4, <2>1, <2>2 DEF AttemptsTyped
  <2>3. CASE q = r
    <3>1. working'[q] = working[q] \ {k} /\ billed'[q] = billed[q] \cup {k}
      BY <2>1, <2>3 DEF AttemptsTyped
    <3> QED
      BY <1>1, <2>1, <2>3, <3>1
  <2> QED
    BY <2>2, <2>3
<1>7. ASSUME NEW r \in Request, CompletionReturns(r) PROVE AttemptsOf(q)'
  <2>1. /\ pc[r] = "calling" /\ pc' = [pc EXCEPT ![r] = "answered"]
        /\ sent[r] \in billed[r]
        /\ UNCHANGED <<sent, working, billed, outcome, usage>>
    BY <1>7 DEF CompletionReturns, LastAttemptFinished, ProviderReplies, Goto,
                attemptVars, dbVars
  <2> QED
    BY <1>1, <1>4, <2>1 DEF TypeOK
<1>8. ASSUME NEW r \in Request, CompletionWithoutChoice(r) PROVE AttemptsOf(q)'
  <2>1. /\ pc[r] = "calling" /\ pc' = [pc EXCEPT ![r] = "done"]
        /\ outcome'[r] = "internal_error"
        /\ \E o : outcome' = [outcome EXCEPT ![r] = o]
        /\ sent[r] \in billed[r]
        /\ UNCHANGED <<sent, working, billed, usage>>
    BY <1>8 DEF CompletionWithoutChoice, LastAttemptFinished, ProviderFails,
                Finish, attemptVars, dbVars
  <2> QED
    BY <1>1, <1>4, <2>1 DEF TypeOK
<1>9. ASSUME NEW r \in Request, NEW c \in Failure,
             NEW advice \in Advice, Retry(r, c, advice)
      PROVE  AttemptsOf(q)'
  <2>1. /\ pc[r] = "calling" /\ sent[r] <= MaxRetries
        /\ sent' = [sent EXCEPT ![r] = @ + 1]
        /\ working' = [working EXCEPT ![r] = LeftWorking(r, c) \cup {sent[r] + 1}]
        /\ LeftWorking(r, c) \subseteq working[r]
        /\ UNCHANGED <<pc, outcome, usage, billed>>
    BY <1>9 DEF Retry, AttemptFails, LeftWorking, vars, dbVars
  <2>2. CASE q # r
    BY <1>4, <2>1, <2>2 DEF AttemptsTyped
  <2>3. CASE q = r
    <3>1. /\ sent'[q] = sent[q] + 1
          /\ working'[q] \subseteq working[q] \cup {sent[q] + 1}
          /\ billed'[q] = billed[q]
      BY <2>1, <2>3 DEF AttemptsTyped
    <3>2. outcome[q] = "none" /\ q \notin usage
      BY <1>1, <2>1, <2>3
    <3>3. \A k \in working[q] \cup billed[q] : k \in Nat /\ k # sent[q] + 1
      BY <1>1 DEF Attempt
    <3> QED
      BY <1>1, <2>1, <2>3, <3>1, <3>2, <3>3 DEF Attempt
  <2> QED
    BY <2>2, <2>3
<1>10. ASSUME NEW r \in Request, NEW c \in Failure,
              NEW advice \in Advice, GiveUp(r, c, advice)
       PROVE  AttemptsOf(q)'
  <2>1. /\ pc[r] = "calling" /\ pc' = [pc EXCEPT ![r] = "done"]
        /\ outcome'[r] = Mapped(c)
        /\ \E o : outcome' = [outcome EXCEPT ![r] = o]
        /\ working' = [working EXCEPT ![r] = LeftWorking(r, c)]
        /\ c \in Silence => sent[r] > MaxRetries
        /\ c \in Silence \/ sent[r] \in working[r]
        /\ UNCHANGED <<sent, billed, usage>>
    BY <1>10 DEF GiveUp, ShouldRetry, AttemptFails, ProviderFails, Finish, dbVars
  <2>2. CASE q # r
    BY <1>4, <2>1, <2>2 DEF TypeOK, AttemptsTyped
  <2>3. CASE q = r
    <3>1. /\ pc'[q] = "done" /\ outcome'[q] = Mapped(c)
          /\ working'[q] = LeftWorking(q, c)
          /\ q \notin usage
      BY <1>1, <2>1, <2>3 DEF TypeOK, AttemptsTyped
    <3>2. CASE c \in Transient
      <4>1. outcome'[q] = "upstream_unavailable"
        BY <3>1, <3>2 DEF Mapped
      <4>2. working'[q] \subseteq working[q]
        BY <3>1 DEF LeftWorking
      <4>3. CASE c \in Silence
        <5>1. sent[q] = 1 + MaxRetries
          BY <1>1, <2>1, <2>3, <4>3
        <5> QED
          BY <1>1, <2>1, <3>1, <4>1, <4>2, <5>1
      <4>4. CASE c \notin Silence
        <5>1. sent[q] \notin working'[q] /\ sent[q] \notin billed[q]
          BY <1>1, <2>1, <2>3, <3>1, <4>4 DEF LeftWorking
        <5> QED
          BY <1>1, <2>1, <3>1, <4>1, <4>2, <5>1
      <4> QED
        BY <4>3, <4>4
    <3>3. CASE c \notin Transient
      <4>1. outcome'[q] = "upstream_rejected" /\ c \notin Silence
        BY <3>1, <3>3 DEF Mapped, Transient
      <4>2. working'[q] = working[q] \ {sent[q]} /\ sent[q] \in working[q]
        BY <2>1, <2>3, <3>1, <4>1 DEF LeftWorking
      <4> QED
        BY <1>1, <2>1, <3>1, <4>1, <4>2
    <3> QED
      BY <3>2, <3>3
  <2> QED
    BY <2>2, <2>3
<1> QED
  BY <1>2, <1>3, <1>5, <1>6, <1>7, <1>8, <1>9, <1>10 DEF BillingNext, Sdk

LEMMA AttemptsAlways == BillingSpec => []AttemptsInv
<1>1. BillingInit => AttemptsInv
  BY DEF BillingInit, Init, AttemptsInv, AttemptsOf, Early, Late, RefusedHere
<1> QED
  BY <1>1, AttemptsStep, AttemptsAlwaysTyped, AttemptsImplementTheCall,
     TypeCorrect, Invariance, PTL DEF BillingSpec

\* The usage that is recorded is the billed one of the last attempt, a final
\* refusal is never billed, a response without a choice always is, and what
\* the service refuses costs nothing (openai_provider.py, complete).
THEOREM LastAttemptAlwaysDecides == BillingSpec => []LastAttemptDecides
<1>1. AttemptsInv => LastAttemptDecides
  BY DEF AttemptsInv, AttemptsOf, LastAttemptDecides, RefusedHere
<1> QED
  BY <1>1, AttemptsAlways, PTL

\* A call given up while the provider may still finish its last attempt has
\* made 1 + openai_max_retries attempts, for any number of retries, and was
\* called temporarily unavailable (openai_provider.py, max_retries and the
\* except clauses of complete).
THEOREM SilenceIsAlwaysRetried == BillingSpec => []SilenceWasRetried
<1>1. AttemptsInv => SilenceWasRetried
  BY DEF AttemptsInv, AttemptsOf, SilenceWasRetried
<1> QED
  BY <1>1, AttemptsAlways, PTL

-----------------------------------------------------------------------------
(* Every attempt is for a stored question.                                 *)

\* What was stored stays stored, and a call that awaits its reply keeps the
\* locals that name its question.
LEMMA QuestionsRest ==
    ASSUME TypeOK, [Next]_vars, NEW q \in Request, pc[q] \in Awaiting
    PROVE  Asked(q) => Asked(q)'
<1> USE DEF TypeOK, Awaiting
<1>1. messages \subseteq messages'
  BY Writers DEF dbVars, CreateSession, StoreUserMessage, CommitExchange,
                 StartNewGeneration
<1>2. sid'[q] = sid[q] /\ loaded'[q] = loaded[q] /\ seq'[q] = seq[q]
  <2>1. ASSUME NEW r \in Request, NEW s \in SessionId,
               \/ ReceiveReset(r, s)
               \/ \E m \in Model \cup {NoModel} : ReceiveMessage(r, s, m)
        PROVE  sid'[q] = sid[q] /\ UNCHANGED <<loaded, seq>>
    BY <2>1 DEF ReceiveReset, ReceiveMessage, localVars
  <2>2. ASSUME NEW r \in Request, LockForSend(r) \/ LockForReset(r)
        PROVE  loaded'[q] = loaded[q] /\ UNCHANGED <<sid, seq>>
    BY <2>2 DEF LockForSend, LockForReset, LockRow, callVars
  <2>3. ASSUME NEW r \in Request, ReadHistory(r)
        PROVE  seq'[q] = seq[q] /\ UNCHANGED <<sid, loaded>>
    BY <2>3 DEF ReadHistory, callVars
  <2>4. CASE UNCHANGED <<sid, loaded, seq>>
    BY <2>4
  <2> QED
    BY <2>1, <2>2, <2>3, <2>4
    DEF Next, Step, CreateSession, RejectContent, SessionNotFound, RejectModel,
        RejectAtLimit, StoreUserMessage, RejectUnpriced, CallProvider,
        ProviderReplies, ProviderFails, ReplySlotTaken, InsertReply,
        LockForReply, CommitExchange, ResetNothing, StartNewGeneration,
        DeadlockVictim, DatabaseFails, Restart, Terminating, vars, callVars,
        localVars
<1> QED
  BY <1>1, <1>2 DEF Asked, UserMessage

QuestionInv == \A r \in Request : sent[r] # 0 => Asked(r)

LEMMA QuestionStep ==
    /\ TypeOK /\ IInv /\ AttemptsTyped /\ AttemptsInv /\ QuestionInv
    /\ [BillingNext]_billingVars /\ TypeOK' /\ IInv' /\ AttemptsInv'
    => QuestionInv'
<1> SUFFICES ASSUME TypeOK, IInv, AttemptsTyped, AttemptsInv, QuestionInv,
                    [BillingNext]_billingVars, TypeOK', IInv', AttemptsInv',
                    NEW q \in Request, sent'[q] # 0
             PROVE  Asked(q)'
  BY DEF QuestionInv
<1>1. [Next]_vars
  BY BillingLeavesService
<1>2. CASE pc'[q] \in Awaiting
  BY <1>2 DEF IInv, Origins, Awaiting
<1>3. CASE pc'[q] \notin Awaiting
  <2>1. pc'[q] = "done"
    BY <1>3 DEF AttemptsInv, AttemptsOf, Early, Awaiting, TypeOK, SendStep,
                ResetStep
  <2>2. sent[q] # 0
    <3>1. ASSUME NEW r \in Request, Dispatch(r) PROVE sent'[q] = sent[q]
      <4>1. q # r
        BY <2>1, <3>1 DEF Dispatch, CallProvider, Goto, TypeOK
      <4> QED
        BY <3>1, <4>1 DEF Dispatch, AttemptsTyped
    <3>2. ASSUME NEW r \in Request, NEW c \in Failure,
                 NEW advice \in Advice, Retry(r, c, advice)
          PROVE  sent'[q] = sent[q]
      <4>1. q # r
        BY <2>1, <3>2 DEF Retry, AttemptFails, vars, TypeOK
      <4> QED
        BY <3>2, <4>1 DEF Retry, AttemptsTyped
    <3>3. sent'[q] = sent[q]
      BY <3>1, <3>2 DEF BillingNext, Sdk, Elsewhere, CompletionReturns,
         CompletionWithoutChoice, GiveUp, ProviderFinishes, attemptVars,
         billingVars
    <3> QED
      BY <3>3
  <2>3. Asked(q)
    BY <2>2 DEF QuestionInv
  <2>4. CASE pc[q] = "done"
    BY <1>1, <2>3, <2>4, EndedCallsRest DEF Asked, UserMessage
  <2>5. CASE pc[q] # "done"
    <3>1. pc[q] \in Awaiting
      BY <2>2, <2>5 DEF AttemptsInv, AttemptsOf, Early, Awaiting, TypeOK,
                        SendStep, ResetStep
    <3> QED
      BY <1>1, <2>3, <3>1, QuestionsRest
  <2> QED
    BY <2>4, <2>5
<1> QED
  BY <1>2, <1>3

\* Whatever the provider works on or bills, also after the call was given up
\* or the process died, belongs to a question that is stored (services/chat.py
\* commits it before the provider call).
THEOREM BilledHasItsQuestion == BillingSpec => []BilledHasQuestion
<1>1. BillingInit => QuestionInv
  BY DEF BillingInit, QuestionInv
<1>2. AttemptsTyped /\ AttemptsInv /\ QuestionInv => BilledHasQuestion
  <2> SUFFICES ASSUME AttemptsTyped, AttemptsInv, QuestionInv, NEW r \in Request,
                      NEW k \in working[r] \cup billed[r]
               PROVE  Asked(r)
    BY DEF BilledHasQuestion
  <2>1. k \in Attempt /\ k <= sent[r] /\ sent[r] \in 0 .. 1 + MaxRetries
    BY DEF AttemptsTyped, AttemptsInv, AttemptsOf
  <2>2. sent[r] # 0
    BY <2>1, BillingAssumption DEF Attempt
  <2> QED
    BY <2>2 DEF QuestionInv
<1> QED
  BY <1>1, <1>2, QuestionStep, AttemptsAlwaysTyped, AttemptsAlways,
     AttemptsImplementTheCall, TypeCorrect, Invariance, PTL DEF BillingSpec

-----------------------------------------------------------------------------
(* A provider call is finitely many attempts.                              *)

\* While a call is at the provider its attempts are counted, and the SDK,
\* whenever it acts, makes the next one of them or returns.
AttemptsCountUp ==
    \A r \in Request : pc[r] = "calling" =>
        /\ sent[r] \in Attempt
        /\ sent'[r] \in {sent[r], sent[r] + 1}
        /\ Sdk(r) => \/ pc'[r] # "calling"
                     \/ sent'[r] = sent[r] + 1 /\ sent'[r] \in Attempt

\* No provider call outlasts 1 + openai_max_retries acts of the SDK, whatever
\* the provider and everybody else does meanwhile: the count never restarts.
\* ServiceStaysFair rests on this.
THEOREM ProviderCallsRunOut == BillingSpec => [][AttemptsCountUp]_billingVars
<1>1. TypeOK /\ AttemptsTyped /\ AttemptsInv /\ [BillingNext]_billingVars
      => [AttemptsCountUp]_billingVars
  <2> SUFFICES ASSUME TypeOK, AttemptsTyped, AttemptsInv, BillingNext,
                      NEW r \in Request, pc[r] = "calling"
               PROVE  /\ sent[r] \in Attempt
                      /\ sent'[r] \in {sent[r], sent[r] + 1}
                      /\ Sdk(r) => \/ pc'[r] # "calling"
                                   \/ /\ sent'[r] = sent[r] + 1
                                      /\ sent'[r] \in Attempt
    BY DEF AttemptsCountUp
  <2>1. sent[r] \in Attempt /\ sent[r] \in Nat /\ MaxRetries \in Nat
    BY BillingAssumption DEF AttemptsTyped, AttemptsInv, AttemptsOf, Attempt
  <2>2. ASSUME NEW q \in Request, NEW c \in Failure,
               NEW advice \in Advice, Retry(q, c, advice)
        PROVE  /\ sent' = [sent EXCEPT ![q] = @ + 1]
               /\ sent[q] <= MaxRetries
    BY <2>2 DEF Retry
  <2>3. ASSUME NEW q \in Request, NEW c \in Failure,
               NEW advice \in Advice, GiveUp(q, c, advice)
        PROVE  sent' = sent /\ pc'[q] = "done"
    BY <2>3 DEF GiveUp, ProviderFails, Finish, TypeOK
  <2>4. ASSUME NEW q \in Request,
               CompletionReturns(q) \/ CompletionWithoutChoice(q)
        PROVE  sent' = sent /\ pc'[q] # "calling"
    BY <2>4 DEF CompletionReturns, CompletionWithoutChoice, ProviderReplies,
                ProviderFails, Goto, Finish, attemptVars, TypeOK
  <2>5. ASSUME NEW q \in Request, Dispatch(q)
        PROVE  sent'[r] = sent[r]
    <3>1. q # r /\ sent' = [sent EXCEPT ![q] = 1]
      BY <2>5 DEF Dispatch, CallProvider
    <3> QED
      BY <3>1 DEF AttemptsTyped
  <2>6. ASSUME \/ Elsewhere
               \/ \E q \in Request, k \in Attempt : ProviderFinishes(q, k)
        PROVE  sent' = sent
    BY <2>6 DEF Elsewhere, ProviderFinishes, attemptVars
  <2>7. sent'[r] \in {sent[r], sent[r] + 1}
    BY <2>2, <2>3, <2>4, <2>5, <2>6 DEF BillingNext, Sdk, AttemptsTyped
  <2>8. ASSUME Sdk(r), pc'[r] = "calling"
        PROVE  sent'[r] = sent[r] + 1 /\ sent'[r] \in Attempt
    <3>1. PICK c \in Failure, advice \in Advice : Retry(r, c, advice)
      BY <2>3, <2>4, <2>8 DEF Sdk
    <3>2. sent'[r] = sent[r] + 1 /\ sent[r] <= MaxRetries
      BY <2>2, <3>1 DEF AttemptsTyped
    <3> QED
      BY <2>1, <3>2 DEF Attempt
  <2> QED
    BY <2>1, <2>7, <2>8
<1> QED
  BY <1>1, AttemptsAlways, AttemptsAlwaysTyped, AttemptsImplementTheCall,
     TypeCorrect, PTL DEF BillingSpec

-----------------------------------------------------------------------------
(* The pool.                                                               *)

\* A step with the pool is a step of the service, or none.
LEMMA PoolLeavesService ==
    ASSUME [PoolNext]_pooledVars
    PROVE  [Next]_vars
BY DEF PoolNext, Serve, Connect, pooledVars

\* A pool of any size, at least one connection, is invisible to the callers:
\* every behaviour with a pool is one of the service, and what is proved of
\* ChatService holds with it.
THEOREM PoolImplementsTheService == PoolSpec => Spec
<1>1. PoolInit => Init
  BY DEF PoolInit
<1> QED
  BY <1>1, PoolLeavesService, PTL DEF PoolSpec, Spec

\* Control points inside a transaction that holds a lock or an index entry.
Holding == Exclusive \cup {"inserted", "charging"}

\* Whoever holds a lock holds a connection, and only calls between the
\* statements of a transaction hold one; the pool is never overdrawn.
PoolInv ==
    /\ poolSize \in Nat \ {0}
    /\ connected \subseteq {r \in Request : pc[r] \in Querying}
    /\ \A r \in Request : pc[r] \in Holding => r \in connected
    /\ IsFiniteSet(connected)
    /\ Cardinality(connected) <= poolSize

\* A call comes into the possession of a lock by a statement.
LEMMA LocksComeByStatements ==
    ASSUME TypeOK, Next, NEW r \in Request,
           pc'[r] \in Holding, pc'[r] # pc[r]
    PROVE  pc[r] \in Querying /\ ~DatabaseFails(r) /\ restarts' = restarts
<1> USE DEF Holding, Exclusive, Querying, Goto, Finish
<1>0. pc \in [Request -> {"idle", "done"} \cup SendStep \cup ResetStep]
  BY DEF TypeOK
<1>1. ASSUME NEW q \in Request,
             \/ LockForSend(q) \/ ReadHistory(q) \/ InsertReply(q)
             \/ LockForReply(q) \/ LockForReset(q)
      PROVE  q = r => /\ pc[r] \in Querying /\ ~DatabaseFails(r)
                      /\ restarts' = restarts
  BY <1>0, <1>1 DEF LockForSend, LockForReset, LockRow, ReadHistory, InsertReply,
                LockForReply, DatabaseFails, processVars
<1>2. PICK q \in Request :
         \/ LockForSend(q) \/ ReadHistory(q) \/ InsertReply(q)
         \/ LockForReply(q) \/ LockForReset(q)
  <2>1. ASSUME NEW q \in Request, Step(q)
        PROVE  \/ LockForSend(q) \/ ReadHistory(q) \/ InsertReply(q)
               \/ LockForReply(q) \/ LockForReset(q)
    BY <1>0, <2>1 DEF Step, SessionNotFound, RejectModel, RejectAtLimit,
       StoreUserMessage, RejectUnpriced, CallProvider, ProviderReplies,
       ProviderFails, ReplySlotTaken, CommitExchange, ResetNothing,
       StartNewGeneration, DeadlockVictim
  <2>2. CASE \E q \in Request : Step(q)
    BY <2>1, <2>2
  <2>3. CASE ~\E q \in Request : Step(q)
    BY <1>0, <2>3 DEF Next, CreateSession, ReceiveReset, ReceiveMessage,
       RejectContent, DatabaseFails, Restart, Terminating, vars
  <2> QED
    BY <2>2, <2>3
<1>3. q = r
  BY <1>0, <1>2 DEF LockForSend, LockForReset, LockRow, ReadHistory, InsertReply,
                LockForReply
<1> QED
  BY <1>1, <1>2, <1>3

\* The invariant holds for every size of the pool, however calls fail.
LEMMA PoolInvariance == PoolSpec => []PoolInv
<1>1. PoolInit => PoolInv
  BY PoolAssumption, FS_EmptySet
  DEF PoolInit, Init, PoolInv, Holding, Exclusive
<1>2. TypeOK /\ PoolInv /\ [PoolNext]_pooledVars => PoolInv'
  <2> SUFFICES ASSUME TypeOK, PoolInv, [PoolNext]_pooledVars PROVE PoolInv'
    OBVIOUS
  <2>1. CASE Serve
    <3>1. /\ connected' = {r \in connected : pc'[r] \in Querying}
          /\ poolSize' = poolSize /\ Next
      BY <2>1 DEF Serve, Release
    <3>2. /\ IsFiniteSet(connected')
          /\ Cardinality(connected') <= Cardinality(connected)
          /\ Cardinality(connected') \in Nat /\ Cardinality(connected) \in Nat
      BY <3>1, FS_Subset, FS_CardinalityType DEF PoolInv
    <3>3. ASSUME NEW r \in Request, pc'[r] \in Holding PROVE r \in connected'
      <4>1. pc'[r] \in Querying
        BY <3>3 DEF Holding, Exclusive, Querying
      <4>2. r \in connected
        BY <2>1, <3>1, <3>3, LocksComeByStatements DEF Serve, PoolInv
      <4> QED
        BY <3>1, <4>1, <4>2
    <3> QED
      BY <3>1, <3>2, <3>3 DEF PoolInv
  <2>2. ASSUME NEW r \in Request, Connect(r) PROVE PoolInv'
    <3>1. /\ connected' = connected \cup {r} /\ poolSize' = poolSize
          /\ pc' = pc /\ pc[r] \in Querying /\ r \notin connected
          /\ Cardinality(connected) < poolSize
      BY <2>2 DEF Connect, ConnectionFree, vars
    <3>2. /\ IsFiniteSet(connected')
          /\ Cardinality(connected') = Cardinality(connected) + 1
          /\ Cardinality(connected) \in Nat
      BY <3>1, FS_AddElement, FS_CardinalityType DEF PoolInv
    <3> QED
      BY <3>1, <3>2 DEF PoolInv
  <2>3. CASE UNCHANGED pooledVars
    BY <2>3 DEF pooledVars, poolVars, vars, PoolInv
  <2> QED
    BY <2>1, <2>2, <2>3 DEF PoolNext
<1> QED
  BY <1>1, <1>2, PoolImplementsTheService, TypeCorrect, PTL DEF PoolSpec

\* What a call in the database waits for is never a provider call.
PoolIsNeverStuck ==
    \A r \in Request : pc[r] \in Querying =>
        IF r \in connected
        THEN \/ CanStep(r)
             \/ \E q \in connected : WaitsFor(r, q) /\ CanStep(q)
        ELSE ConnectionFree \/ \E q \in connected : CanStep(q)

\* However small the pool: a call that has a connection can go on or waits for
\* one that has a connection, too, and can go on; and while no connection is
\* free, some call that has one can go on.  Locks and connections never wait
\* for each other in a circle, and nobody waits for a provider call.
THEOREM PoolNeverDeadlocks == PoolSpec => []PoolIsNeverStuck
<1>1. PoolInv /\ NobodyIsStuck => PoolIsNeverStuck
  <2> SUFFICES ASSUME PoolInv, NobodyIsStuck PROVE PoolIsNeverStuck
    OBVIOUS
  <2>1. ASSUME NEW r \in connected
        PROVE  \/ CanStep(r)
               \/ \E q \in connected : WaitsFor(r, q) /\ CanStep(q)
    <3>1. r \in Request /\ pc[r] \notin {"idle", "done"}
      BY DEF PoolInv, Querying
    <3>2. CanStep(r) \/ \E q \in Request : WaitsFor(r, q) /\ CanStep(q)
      BY <3>1 DEF NobodyIsStuck
    <3>3. \A q \in Request : WaitsFor(r, q) => q \in connected
      BY DEF WaitsFor, PoolInv, Holding
    <3> QED
      BY <3>2, <3>3
  <2>2. CASE connected = {}
    <3>1. ConnectionFree
      BY <2>2, FS_EmptySet DEF ConnectionFree, PoolInv
    <3> QED
      BY <2>1, <3>1 DEF PoolIsNeverStuck
  <2>3. CASE connected # {}
    <3>1. \E q \in connected : CanStep(q)
      BY <2>1, <2>3
    <3> QED
      BY <2>1, <3>1 DEF PoolIsNeverStuck
  <2> QED
    BY <2>2, <2>3
<1> QED
  BY <1>1, PoolInvariance, PoolImplementsTheService, SomebodyCanGoOn, PTL
=============================================================================
