-------------------------- MODULE ChatServiceProofs --------------------------
(***************************************************************************)
(* Proofs about ChatService, for every number of calls, sessions and       *)
(* models, every limit and every mixture of the modelled faults.           *)
(***************************************************************************)
EXTENDS ChatService, FiniteSetTheorems, TLAPS

\* Type correctness: every action keeps every variable in its type.
THEOREM TypeCorrect == Spec => []TypeOK
<1>1. Init => TypeOK
  BY ConfigAssumption
  DEF Init, TypeOK, NewRow, Row, Outcome
<1>2. TypeOK /\ [Next]_vars => TypeOK'
  <2> SUFFICES ASSUME TypeOK, [Next]_vars
               PROVE  TypeOK'
    OBVIOUS
  <2> USE DEF TypeOK, vars, dbVars, processVars, callVars, localVars
  <2>1. ASSUME NEW s \in SessionId, NEW m \in Model \cup {NoModel},
               CreateSession(s, m)
        PROVE  TypeOK'
    BY <2>1, ConfigAssumption DEF CreateSession, NewRow, Row
  <2>2. ASSUME NEW r \in Request, NEW s \in SessionId, ReceiveReset(r, s)
        PROVE  TypeOK'
    BY <2>2 DEF ReceiveReset, Goto, ResetStep
  <2>3. ASSUME NEW r \in Request, NEW s \in SessionId,
               NEW m \in Model \cup {NoModel}, ReceiveMessage(r, s, m)
        PROVE  TypeOK'
    BY <2>3 DEF ReceiveMessage, Goto, SendStep
  <2>4. ASSUME NEW r \in Request,
               \/ RejectContent(r) \/ SessionNotFound(r) \/ RejectModel(r)
               \/ RejectAtLimit(r) \/ RejectUnpriced(r) \/ ReplySlotTaken(r)
               \/ ResetNothing(r) \/ DeadlockVictim(r) \/ DatabaseFails(r)
        PROVE  TypeOK'
    BY <2>4 DEF RejectContent, SessionNotFound, RejectModel, RejectAtLimit,
                RejectUnpriced, ReplySlotTaken, ResetNothing, DeadlockVictim,
                DatabaseFails, Finish, Outcome
  <2>5. ASSUME NEW r \in Request, LockForSend(r) \/ LockForReset(r)
        PROVE  TypeOK'
    BY <2>5 DEF LockForSend, LockForReset, LockRow, Goto, SendStep, ResetStep
  <2>6. ASSUME NEW r \in Request, ReadHistory(r)
        PROVE  TypeOK'
    <3>1. SeqsInUse(sid[r]) \subseteq Nat
      BY DEF SeqsInUse, Message
    <3>2. {1} \cup {k + 1 : k \in SeqsInUse(sid[r])} \subseteq Nat
      BY <3>1
    <3>4. PICK n \in Nat : seq' = [seq EXCEPT ![r] = n]
      BY <2>6, <3>2 DEF ReadHistory
    <3>3. history' \in [Request -> SUBSET Message]
      BY <2>6 DEF ReadHistory, Dialogue
    <3> QED
      BY <2>6, <3>4, <3>3 DEF ReadHistory, Goto, SendStep
  <2>7. ASSUME NEW r \in Request, StoreUserMessage(r)
        PROVE  TypeOK'
    <3>1. UserMessage(r) \in Message
      BY DEF UserMessage, Message, Row
    <3> QED
      BY <2>7, <3>1 DEF StoreUserMessage, Goto, SendStep
  <2>8. ASSUME NEW r \in Request,
               CallProvider(r) \/ InsertReply(r) \/ LockForReply(r)
        PROVE  TypeOK'
    BY <2>8 DEF CallProvider, InsertReply, LockForReply, Goto, SendStep
  <2>9. ASSUME NEW r \in Request, ProviderReplies(r)
        PROVE  TypeOK'
    BY <2>9 DEF ProviderReplies, Goto, SendStep
  <2>10. ASSUME NEW r \in Request, ProviderFails(r)
         PROVE  TypeOK'
    BY <2>10 DEF ProviderFails, Finish, Outcome
  <2>11. ASSUME NEW r \in Request, CommitExchange(r)
         PROVE  TypeOK'
    <3>1. AssistantMessage(r) \in Message
      BY DEF AssistantMessage, Message, Row
    <3>2. row[sid[r]] \in Row /\ loaded[r] \in Row
      OBVIOUS
    <3>3. Charged(r) \in Row
      <4> HIDE DEF TypeOK
      <4> QED
        BY <3>2 DEF Charged, Row
    <3> QED
      BY <2>11, <3>1, <3>3 DEF CommitExchange, Finish, Outcome
  <2>12. ASSUME NEW r \in Request, StartNewGeneration(r)
         PROVE  TypeOK'
    <3>1. row[sid[r]] \in Row /\ loaded[r] \in Row
      OBVIOUS
    <3>2. NextGeneration(r) \in Row
      <4> HIDE DEF TypeOK
      <4>1. loaded[r].generation + 1 \in Nat \ {0}
        BY <3>1 DEF Row
      <4> QED
        BY <3>1, <4>1 DEF NextGeneration, Row
    <3> QED
      BY <2>12, <3>2 DEF StartNewGeneration, Finish, Outcome
  <2>13. CASE Restart
    BY <2>13 DEF Restart, Outcome
  <2>14. CASE UNCHANGED vars \/ Terminating
    BY <2>14 DEF Terminating
  <2> QED
    BY <2>1, <2>2, <2>3, <2>4, <2>5, <2>6, <2>7, <2>8, <2>9, <2>10, <2>11,
       <2>12, <2>13, <2>14
    DEF Next, Step
<1> QED
  BY <1>1, <1>2, PTL DEF Spec

-----------------------------------------------------------------------------
(* The inductive invariant.                                                *)
(*                                                                         *)
(* The lifetime total is written from a copy loaded one provider call ago. *)
(* It is right because that write happens together with the insert into    *)
(* the slot after the question: as long as the slot is free, nothing that  *)
(* concerns the copy has changed (AnswerSlot), and a question that does    *)
(* change it takes the slot (ClaimIsNext), which the row lock makes the    *)
(* first free one (LockExclusive, LoadedIsCurrent).                        *)

\* A question is stored and its exchange has not ended.
Awaiting == {"stored", "calling", "answered", "inserted", "charging"}

\* Only one transaction holds the exclusive row lock, and none holds the
\* shared one beside it.
LockExclusive ==
    \A r, q \in Request :
        r # q /\ sid[r] = sid[q] /\ pc[r] \in Exclusive
        => pc[q] \notin Exclusive \cup {"charging"}

\* Under the exclusive lock the handler's copy of the row is the row.
LoadedIsCurrent ==
    \A r \in Request : pc[r] \in Exclusive => loaded[r] = row[sid[r]]

\* Handlers work on, and messages belong to, sessions that exist; the row of
\* a session that does not exist yet is as good as new.
Existing ==
    /\ \A r \in Request : pc[r] \in Exclusive \cup Awaiting => sid[r] \in created
    /\ \A m \in messages : m.session \in created
    /\ \A s \in SessionId \ created :
          row[s].generation = 1 /\ row[s].lifetime = {} /\ row[s].total = {}

\* The position a handler claimed is still the next one, and the history it
\* read still the whole dialogue, when it stores its question.
ClaimIsNext ==
    \A r \in Request : pc[r] = "read" =>
        /\ IsNextSeq(sid[r], seq[r])
        /\ history[r] = Dialogue(sid[r], loaded[r].generation)

\* Every message is the question of its call or directly follows it, and a
\* reply is there exactly when the usage row is.
Origins ==
    /\ \A r \in Request : pc[r] \in Awaiting => Asked(r)
    /\ \A m \in messages :
          /\ m.session = sid[m.of]
          /\ m.generation = loaded[m.of].generation
          /\ m.seq # 0
          /\ pc[m.of] \in Awaiting \cup {"done"}
          /\ Asked(m.of)
          /\ m.role = "user" => m = UserMessage(m.of)
          /\ m.role = "assistant" =>
                m.seq = seq[m.of] + 1 /\ pc[m.of] = "done" /\ m.of \in usage
    /\ \A r \in usage : \E m \in messages : m.of = r /\ m.role = "assistant"

\* The question is the last turn of its session, and what its handler knows
\* of the totals is still what the row says.
LastAsked(r) ==
    /\ \A m \in messages : m.session = sid[r] => m.seq <= seq[r]
    /\ loaded[r].lifetime = row[sid[r]].lifetime
    /\ loaded[r].generation <= row[sid[r]].generation
    /\ loaded[r].generation = row[sid[r]].generation
       => loaded[r].total = row[sid[r]].total

\* Whoever waits for a reply either has lost the slot after its question or
\* is the last one to have changed the session.
AnswerSlot ==
    /\ \A r \in Request : pc[r] \in Awaiting =>
          SlotTaken(sid[r], seq[r] + 1) \/ LastAsked(r)
    /\ \A r \in Request : pc[r] \in {"inserted", "charging"} =>
          ~SlotTaken(sid[r], seq[r] + 1)

\* A copy never holds an active charge that its lifetime total lacks.
LoadedTotals == \A r \in Request : loaded[r].total \subseteq loaded[r].lifetime

IInv == /\ LockExclusive
        /\ LoadedIsCurrent
        /\ Existing
        /\ ClaimIsNext
        /\ Origins
        /\ AnswerSlot
        /\ LoadedTotals
        /\ LogIsASequence
        /\ HistoryIsDialogue
        /\ GenerationsInOrder
        /\ LifetimeExact
        /\ ActiveTotalCovers

-----------------------------------------------------------------------------
(* Steps that only move program counters: an early return, an exception, a *)
(* restart, or one more wait of an exchange that waits for its reply.      *)

\* The only ways such a step moves a program counter.
Moves(q) ==
    \/ pc'[q] = pc[q]
    \/ pc'[q] = "done"
    \/ /\ pc[q] \in Awaiting
       /\ pc'[q] \in Awaiting
       /\ pc'[q] \in {"inserted", "charging"} => ~SlotTaken(sid[q], seq[q] + 1)
       /\ pc'[q] = "charging" => pc[q] = "charging" \/ CanLockForKeyShare(q)

LEMMA MovesKeepInvariant ==
    ASSUME TypeOK, IInv,
           UNCHANGED <<dbVars, sid, loaded, history, seq>>,
           \A q \in Request : Moves(q)
    PROVE  IInv'
<1> USE DEF IInv, dbVars
<1>1. LockExclusive'
  BY DEF LockExclusive, Moves, CanLockForKeyShare, ExclusivelyLocked,
         Exclusive, Awaiting
<1>2. LoadedIsCurrent'
  BY DEF LoadedIsCurrent, Moves, Exclusive, Awaiting
<1>3. Existing'
  BY DEF Existing, Moves, Exclusive, Awaiting
<1>4. ClaimIsNext'
  BY DEF ClaimIsNext, IsNextSeq, SeqsInUse, Dialogue, Moves, Awaiting
<1>5. Origins'
  <2>1. \A m \in messages : m.of \in Request
    BY DEF TypeOK, Message
  <2> QED
    BY <2>1 DEF Origins, Asked, UserMessage, Moves, Awaiting
<1>6. AnswerSlot'
  BY DEF AnswerSlot, SlotTaken, LastAsked, Moves, Awaiting
<1>7. LoadedTotals' /\ LogIsASequence' /\ GenerationsInOrder'
  BY DEF LoadedTotals, LogIsASequence, UniqueSeq, GenerationsInOrder
<1>8. HistoryIsDialogue'
  BY DEF HistoryIsDialogue, Asked, UserMessage, Dialogue
<1>9. LifetimeExact' /\ ActiveTotalCovers'
  BY DEF LifetimeExact, Answered, ActiveTotalCovers, ActiveCharges, Dialogue
<1> QED
  BY <1>1, <1>2, <1>3, <1>4, <1>5, <1>6, <1>7, <1>8, <1>9

-----------------------------------------------------------------------------
(* One lemma for each action that changes the database or a local.         *)

LEMMA CreateSessionKeepsInvariant ==
    ASSUME TypeOK, IInv, NEW s \in SessionId, NEW m \in Model \cup {NoModel},
           CreateSession(s, m)
    PROVE  IInv'
<1>1. /\ s \notin created
      /\ created' = created \cup {s}
      /\ UNCHANGED <<messages, usage, pc, sid, loaded, history, seq>>
      /\ \A q \in SessionId \ {s} : row'[q] = row[q]
      /\ row'[s].generation = 1
      /\ row'[s].total = {}
      /\ row'[s].lifetime = {}
  BY DEF CreateSession, callVars, localVars, NewRow, TypeOK
<1>2. /\ \A q \in messages : q.session # s /\ q.session \in SessionId
      /\ \A r \in Request : pc[r] \in Exclusive \cup Awaiting => sid[r] # s
      /\ row[s].generation = 1 /\ row[s].lifetime = {} /\ row[s].total = {}
  BY <1>1 DEF IInv, Existing, TypeOK, Message
<1>3. \A r \in Request : sid[r] \in SessionId
  BY DEF TypeOK
<1> USE DEF IInv
<1>4. LockExclusive'
  BY <1>1 DEF LockExclusive
<1>5. LoadedIsCurrent'
  BY <1>1, <1>2, <1>3 DEF LoadedIsCurrent
<1>6. Existing'
  BY <1>1 DEF Existing
<1>7. ClaimIsNext'
  BY <1>1 DEF ClaimIsNext, IsNextSeq, SeqsInUse, Dialogue
<1>8. Origins'
  BY <1>1 DEF Origins, Asked, UserMessage
<1>9. AnswerSlot'
  BY <1>1, <1>2, <1>3 DEF AnswerSlot, SlotTaken, LastAsked
<1>10. LoadedTotals' /\ LogIsASequence'
  BY <1>1 DEF LoadedTotals, LogIsASequence, UniqueSeq
<1>11. HistoryIsDialogue'
  BY <1>1 DEF HistoryIsDialogue, Asked, UserMessage, Dialogue
<1>12. GenerationsInOrder'
  BY <1>1, <1>2 DEF GenerationsInOrder
<1>13. LifetimeExact'
  BY <1>1, <1>2 DEF LifetimeExact, Answered
<1>14. ActiveTotalCovers'
  <2>1. \A q \in SessionId : ActiveCharges(q)' = ActiveCharges(q)
    BY <1>1, <1>2 DEF ActiveCharges, Dialogue
  <2> QED
    BY <1>1, <1>2, <2>1 DEF ActiveTotalCovers
<1> QED
  BY <1>4, <1>5, <1>6, <1>7, <1>8, <1>9, <1>10, <1>11, <1>12, <1>13, <1>14

\* A call whose handler has not stored its question has nothing in the
\* database.
LEMMA NothingStoredYet ==
    ASSUME TypeOK, IInv, NEW r \in Request,
           pc[r] \notin Awaiting \cup {"done"}
    PROVE  /\ \A m \in messages : m.of # r
           /\ r \notin usage
BY DEF IInv, Origins

\* The arrival of a send or a reset.
LEMMA ArrivalKeepsInvariant ==
    ASSUME TypeOK, IInv, NEW r \in Request, NEW s \in SessionId,
           pc[r] = "idle",
           NEW label \in {"wait_send", "wait_reset"}, Goto(r, label),
           sid' = [sid EXCEPT ![r] = s],
           UNCHANGED <<dbVars, localVars>>
    PROVE  IInv'
<1>1. /\ UNCHANGED <<created, row, messages, usage, loaded, history, seq>>
      /\ \A q \in Request \ {r} : pc'[q] = pc[q] /\ sid'[q] = sid[q]
      /\ pc'[r] \in {"wait_send", "wait_reset"}
  BY DEF Goto, dbVars, localVars, TypeOK
<1>2. /\ \A m \in messages : m.of # r /\ m.of \in Request
      /\ r \notin usage
      /\ usage \subseteq Request
  BY NothingStoredYet DEF TypeOK, Message, Awaiting
<1>3. /\ \A q \in Request \ {r} : UserMessage(q)' = UserMessage(q)
      /\ UserMessage(r)'.of = r
  BY <1>1 DEF UserMessage
<1>4. /\ ~Asked(r)'
      /\ \A q \in Request \ {r} : Asked(q)' = Asked(q)
  BY <1>1, <1>2, <1>3 DEF Asked
<1> USE DEF IInv
<1>5. LockExclusive'
  BY <1>1 DEF LockExclusive, Exclusive
<1>6. LoadedIsCurrent'
  BY <1>1 DEF LoadedIsCurrent, Exclusive
<1>7. Existing'
  BY <1>1 DEF Existing, Exclusive, Awaiting
<1>8. ClaimIsNext'
  BY <1>1 DEF ClaimIsNext, IsNextSeq, SeqsInUse, Dialogue
<1>9. Origins'
  BY <1>1, <1>2, <1>3, <1>4 DEF Origins, Awaiting
<1>10. AnswerSlot'
  BY <1>1 DEF AnswerSlot, SlotTaken, LastAsked, Awaiting
<1>11. LoadedTotals' /\ LogIsASequence' /\ GenerationsInOrder'
  BY <1>1 DEF LoadedTotals, LogIsASequence, UniqueSeq, GenerationsInOrder
<1>12. HistoryIsDialogue'
  BY <1>1, <1>4 DEF HistoryIsDialogue, Dialogue
<1>13. LifetimeExact' /\ ActiveTotalCovers'
  BY <1>1, <1>2
  DEF LifetimeExact, Answered, ActiveTotalCovers, ActiveCharges, Dialogue
<1> QED
  BY <1>5, <1>6, <1>7, <1>8, <1>9, <1>10, <1>11, <1>12, <1>13

\* The row lock is granted and the row loaded.
LEMMA LockRowKeepsInvariant ==
    ASSUME TypeOK, IInv, NEW r \in Request,
           NEW from \in {"wait_send", "wait_reset"},
           NEW to \in {"locked", "resetting"},
           LockRow(r, from, to)
    PROVE  IInv'
<1>1. /\ UNCHANGED <<created, row, messages, usage, sid, history, seq>>
      /\ \A q \in Request \ {r} : pc'[q] = pc[q] /\ loaded'[q] = loaded[q]
      /\ pc[r] \in {"wait_send", "wait_reset"}
      /\ pc'[r] \in {"locked", "resetting"}
      /\ loaded'[r] = row[sid[r]]
      /\ sid[r] \in created /\ sid[r] \in SessionId
      /\ CanLockForUpdate(r)
  BY DEF LockRow, Goto, dbVars, callVars, TypeOK
<1>2. /\ \A m \in messages : m.of # r /\ m.of \in Request
      /\ r \notin usage
      /\ usage \subseteq Request
  BY <1>1, NothingStoredYet DEF TypeOK, Message, Awaiting
<1>3. /\ \A q \in Request \ {r} : UserMessage(q)' = UserMessage(q)
      /\ UserMessage(r)'.of = r
  BY <1>1 DEF UserMessage
<1>4. /\ ~Asked(r)'
      /\ \A q \in Request \ {r} : Asked(q)' = Asked(q)
  BY <1>1, <1>2, <1>3 DEF Asked
<1> USE DEF IInv
<1>5. LockExclusive'
  BY <1>1
  DEF LockExclusive, Exclusive, CanLockForUpdate, ExclusivelyLocked, ShareLocked
<1>6. LoadedIsCurrent'
  BY <1>1 DEF LoadedIsCurrent, Exclusive
<1>7. Existing'
  BY <1>1 DEF Existing, Exclusive, Awaiting
<1>8. ClaimIsNext'
  BY <1>1 DEF ClaimIsNext, IsNextSeq, SeqsInUse, Dialogue
<1>9. Origins'
  BY <1>1, <1>2, <1>3, <1>4 DEF Origins, Awaiting
<1>10. AnswerSlot'
  BY <1>1 DEF AnswerSlot, SlotTaken, LastAsked, Awaiting
<1>11. LoadedTotals' /\ LogIsASequence' /\ GenerationsInOrder'
  BY <1>1
  DEF LoadedTotals, ActiveTotalCovers, LogIsASequence, UniqueSeq,
      GenerationsInOrder
<1>12. HistoryIsDialogue'
  BY <1>1, <1>4 DEF HistoryIsDialogue, Dialogue
<1>13. LifetimeExact' /\ ActiveTotalCovers'
  BY <1>1, <1>2
  DEF LifetimeExact, Answered, ActiveTotalCovers, ActiveCharges, Dialogue
<1> QED
  BY <1>5, <1>6, <1>7, <1>8, <1>9, <1>10, <1>11, <1>12, <1>13

\* The history is read and the next position claimed, under the row lock.
LEMMA ReadHistoryKeepsInvariant ==
    ASSUME TypeOK, IInv, NEW r \in Request, ReadHistory(r)
    PROVE  IInv'
<1>1. /\ UNCHANGED <<created, row, messages, usage, sid, loaded>>
      /\ \A q \in Request \ {r} : /\ pc'[q] = pc[q]
                                  /\ history'[q] = history[q]
                                  /\ seq'[q] = seq[q]
      /\ pc[r] = "locked"
      /\ pc'[r] = "read"
      /\ history'[r] = Dialogue(sid[r], loaded[r].generation)
      /\ IsNextSeq(sid[r], seq'[r])
  BY DEF ReadHistory, Goto, dbVars, callVars, TypeOK
<1>2. /\ \A m \in messages : m.of # r /\ m.of \in Request
      /\ r \notin usage
      /\ usage \subseteq Request
  BY <1>1, NothingStoredYet DEF TypeOK, Message, Awaiting
<1>3. /\ \A q \in Request \ {r} : UserMessage(q)' = UserMessage(q)
      /\ UserMessage(r)'.of = r
  BY <1>1 DEF UserMessage
<1>4. /\ ~Asked(r)'
      /\ \A q \in Request \ {r} : Asked(q)' = Asked(q)
  BY <1>1, <1>2, <1>3 DEF Asked
<1> USE DEF IInv
<1>5. LockExclusive'
  BY <1>1 DEF LockExclusive, Exclusive
<1>6. LoadedIsCurrent'
  BY <1>1 DEF LoadedIsCurrent, Exclusive
<1>7. Existing'
  BY <1>1 DEF Existing, Exclusive, Awaiting
<1>8. ClaimIsNext'
  BY <1>1 DEF ClaimIsNext, IsNextSeq, SeqsInUse, Dialogue
<1>9. Origins'
  BY <1>1, <1>2, <1>3, <1>4 DEF Origins, Awaiting
<1>10. AnswerSlot'
  BY <1>1 DEF AnswerSlot, SlotTaken, LastAsked, Awaiting
<1>11. LoadedTotals' /\ LogIsASequence' /\ GenerationsInOrder'
  BY <1>1 DEF LoadedTotals, LogIsASequence, UniqueSeq, GenerationsInOrder
<1>12. HistoryIsDialogue'
  BY <1>1, <1>4 DEF HistoryIsDialogue, Dialogue
<1>13. LifetimeExact' /\ ActiveTotalCovers'
  BY <1>1
  DEF LifetimeExact, Answered, ActiveTotalCovers, ActiveCharges, Dialogue
<1> QED
  BY <1>5, <1>6, <1>7, <1>8, <1>9, <1>10, <1>11, <1>12, <1>13

\* A reset: no message belongs to the generation it opens.
LEMMA ResetKeepsInvariant ==
    ASSUME TypeOK, IInv, NEW r \in Request, StartNewGeneration(r)
    PROVE  IInv'
<1>0. PICK s \in SessionId : s = sid[r]
  BY DEF TypeOK
<1>1. /\ s \in created
      /\ UNCHANGED <<created, messages, usage, sid, loaded, history, seq>>
      /\ pc[r] = "resetting"
      /\ pc' = [pc EXCEPT ![r] = "done"]
      /\ loaded[r] = row[s]
      /\ row[s] \in Row
      /\ row[s].generation \in Nat
  BY <1>0 DEF StartNewGeneration, Finish, callVars, localVars, TypeOK, Row, IInv,
         LoadedIsCurrent, Existing, Exclusive
<1>2. /\ \A q \in SessionId \ {s} : row'[q] = row[q]
      /\ row'[s].generation = row[s].generation + 1
      /\ row'[s].total = {}
      /\ row'[s].lifetime = row[s].lifetime
  BY <1>0, <1>1 DEF StartNewGeneration, NextGeneration, TypeOK, Row
<1>3. \A q \in Request : pc'[q] \in {pc[q], "done"}
  BY <1>1 DEF TypeOK
<1>4. \A m \in messages : /\ m.of \in Request
                          /\ m.generation \in Nat
                          /\ m.session \in SessionId
  BY DEF TypeOK, Message
<1>5. \A q \in Request : sid[q] \in SessionId /\ loaded[q].generation \in Nat
  BY DEF TypeOK, Row
<1> USE DEF IInv
<1>6. LockExclusive'
  BY <1>1, <1>3 DEF LockExclusive, Exclusive
<1>7. LoadedIsCurrent'
  <2> SUFFICES ASSUME NEW q \in Request, pc'[q] \in Exclusive
               PROVE  loaded[q] = row'[sid[q]]
    BY <1>1 DEF LoadedIsCurrent
  <2>1. q # r /\ pc'[q] = pc[q]
    BY <1>1, <1>3 DEF TypeOK, Exclusive
  <2>2. sid[q] # s
    BY <1>0, <1>1, <2>1 DEF LockExclusive, Exclusive
  <2> QED
    BY <1>2, <1>5, <2>1, <2>2 DEF LoadedIsCurrent
<1>8. Existing'
  BY <1>1, <1>2, <1>3 DEF Existing, Exclusive, Awaiting
<1>9. ClaimIsNext'
  BY <1>1, <1>3 DEF ClaimIsNext, IsNextSeq, SeqsInUse, Dialogue
<1>10. Origins'
  BY <1>1, <1>3, <1>4 DEF Origins, Asked, UserMessage, Awaiting
<1>11. AnswerSlot'
  <2>1. ASSUME NEW q \in Request, LastAsked(q)
        PROVE  LastAsked(q)'
    <3>1. CASE sid[q] = s
      BY <1>1, <1>2, <1>5, <2>1, <3>1 DEF LastAsked
    <3>2. CASE sid[q] # s
      BY <1>1, <1>2, <1>5, <2>1, <3>2 DEF LastAsked
    <3> QED
      BY <3>1, <3>2
  <2> QED
    BY <1>1, <1>3, <2>1 DEF AnswerSlot, SlotTaken, Awaiting
<1>12. LoadedTotals' /\ LogIsASequence'
  BY <1>1 DEF LoadedTotals, LogIsASequence, UniqueSeq
<1>13. HistoryIsDialogue'
  BY <1>1 DEF HistoryIsDialogue, Asked, UserMessage, Dialogue
<1>14. GenerationsInOrder'
  BY <1>1, <1>2, <1>4 DEF GenerationsInOrder
<1>15. LifetimeExact'
  BY <1>1, <1>2 DEF LifetimeExact, Answered
<1>16. ActiveTotalCovers'
  <2>1. ActiveCharges(s)' = {}
    BY <1>1, <1>2, <1>4 DEF ActiveCharges, Dialogue, GenerationsInOrder
  <2>2. \A q \in SessionId \ {s} : ActiveCharges(q)' = ActiveCharges(q)
    BY <1>1, <1>2 DEF ActiveCharges, Dialogue
  <2> QED
    BY <1>2, <2>1, <2>2 DEF ActiveTotalCovers
<1> QED
  BY <1>6, <1>7, <1>8, <1>9, <1>10, <1>11, <1>12, <1>13, <1>14, <1>15, <1>16

\* A question is stored: it takes the first free position of its session, so
\* a reply still on its way to that position has lost it.
LEMMA StoreUserMessageKeepsInvariant ==
    ASSUME TypeOK, IInv, NEW r \in Request, StoreUserMessage(r)
    PROVE  IInv'
<1>0. PICK s \in SessionId, u \in Message : s = sid[r] /\ u = UserMessage(r)
  BY DEF TypeOK, UserMessage, Message, Row
<1>1. /\ u.session = s /\ u.seq = seq[r] /\ u.role = "user" /\ u.of = r
      /\ u.generation = loaded[r].generation
      /\ messages' = messages \cup {u}
      /\ UNCHANGED <<created, row, usage, sid, loaded, history, seq>>
      /\ pc[r] = "read"
      /\ pc' = [pc EXCEPT ![r] = "stored"]
      /\ pc'[r] = "stored"
      /\ \A q \in Request \ {r} : pc'[q] = pc[q]
      /\ \A q \in Request : UserMessage(q)' = UserMessage(q)
  <2>1. /\ messages' = messages \cup {u}
        /\ UNCHANGED <<created, row, usage, sid, loaded, history, seq>>
        /\ pc[r] = "read"
        /\ pc' = [pc EXCEPT ![r] = "stored"]
    BY <1>0 DEF StoreUserMessage, Goto, callVars, localVars
  <2>2. pc'[r] = "stored" /\ \A q \in Request \ {r} : pc'[q] = pc[q]
    BY <2>1 DEF TypeOK
  <2>3. \A q \in Request : UserMessage(q)' = UserMessage(q)
    BY <2>1 DEF UserMessage
  <2> QED
    BY <1>0, <2>1, <2>2, <2>3 DEF UserMessage
<1>2. /\ loaded[r] = row[s]
      /\ s \in created
      /\ IsNextSeq(s, seq[r])
      /\ history[r] = Dialogue(s, loaded[r].generation)
  BY <1>0, <1>1 DEF IInv, LoadedIsCurrent, Existing, ClaimIsNext, Exclusive
<1>3. /\ \A m \in messages : /\ m.of \in Request /\ m.of # r
                             /\ m.seq \in Nat /\ m.session \in SessionId
                             /\ m.generation \in Nat
      /\ usage \subseteq Request /\ r \notin usage
  BY <1>1, NothingStoredYet DEF TypeOK, Message, Awaiting
<1>4. /\ \A m \in messages : m.session = s => m.seq < u.seq
      /\ \/ u.seq = 1
         \/ \E m \in messages : m.session = s /\ m.seq + 1 = u.seq
      /\ u.seq \in Nat /\ u.seq # 0
  BY <1>1, <1>2, <1>3 DEF IsNextSeq, SeqsInUse, Message
<1>5. \A q \in Request : /\ seq[q] \in Nat /\ loaded[q].generation \in Nat
                         /\ sid[q] \in SessionId
  BY DEF TypeOK, Row
<1>6. \A q \in Request \ {r} : Asked(q)' = Asked(q)
  BY <1>1 DEF Asked, UserMessage
<1>7. Asked(r)'
  BY <1>0, <1>1 DEF Asked
<1> USE DEF IInv
<1>8. LockExclusive'
  BY <1>1 DEF LockExclusive, Exclusive
<1>9. LoadedIsCurrent'
  BY <1>1 DEF LoadedIsCurrent, Exclusive
<1>10. Existing'
  BY <1>0, <1>1, <1>2 DEF Existing, Exclusive, Awaiting
<1>11. ClaimIsNext'
  <2> SUFFICES ASSUME NEW q \in Request, pc'[q] = "read"
               PROVE  /\ IsNextSeq(sid[q], seq[q])'
                      /\ history'[q] = Dialogue(sid[q], loaded[q].generation)'
    BY <1>1 DEF ClaimIsNext
  <2>1. q # r /\ pc[q] = "read" /\ sid[q] # s
    BY <1>0, <1>1 DEF LockExclusive, Exclusive
  <2> QED
    BY <1>1, <2>1 DEF ClaimIsNext, IsNextSeq, SeqsInUse, Dialogue
<1>12. Origins'
  BY <1>0, <1>1, <1>3, <1>4, <1>6, <1>7 DEF Origins, Awaiting
<1>13. AnswerSlot'
  <2>1. LastAsked(r)'
    BY <1>0, <1>1, <1>2, <1>3, <1>4, <1>5 DEF LastAsked
  <2>2. ASSUME NEW q \in Request \ {r}, pc'[q] \in Awaiting
        PROVE  SlotTaken(sid[q], seq[q] + 1)' \/ LastAsked(q)'
    <3>1. CASE SlotTaken(sid[q], seq[q] + 1)
      BY <1>1, <3>1 DEF SlotTaken
    <3>2. CASE LastAsked(q) /\ sid[q] # s
      BY <1>1, <3>2 DEF LastAsked
    <3>3. CASE LastAsked(q) /\ sid[q] = s
      <4>1. UserMessage(q) \in messages
        BY <1>1, <2>2 DEF Origins, Asked
      <4>2. u.seq > seq[q] /\ u.seq <= seq[q] + 1
        BY <1>3, <1>4, <1>5, <3>3, <4>1 DEF LastAsked, UserMessage, Origins
      <4> QED
        BY <1>1, <1>4, <1>5, <3>3, <4>2 DEF SlotTaken
    <3> QED
      BY <1>1, <2>2, <3>1, <3>2, <3>3 DEF AnswerSlot
  <2>3. ASSUME NEW q \in Request, pc'[q] \in {"inserted", "charging"}
        PROVE  ~SlotTaken(sid[q], seq[q] + 1)'
    <3>1. q # r /\ pc[q] \in {"inserted", "charging"}
      BY <1>1, <2>3
    <3>2. ~(sid[q] = s /\ seq[q] + 1 = seq[r])
      BY <1>0, <3>1 DEF StoreUserMessage, SlotPending
    <3> QED
      BY <1>1, <3>1, <3>2 DEF SlotTaken, AnswerSlot
  <2> QED
    BY <1>1, <2>1, <2>2, <2>3 DEF AnswerSlot
<1>14. LoadedTotals'
  BY <1>1 DEF LoadedTotals
<1>15. LogIsASequence'
  BY <1>1, <1>3, <1>4 DEF LogIsASequence, UniqueSeq
<1>16. HistoryIsDialogue'
  <2> SUFFICES ASSUME NEW q \in Request, Asked(q)'
               PROVE  history[q] = {m \in Dialogue(sid[q], loaded[q].generation)' :
                                       m.seq < seq[q]}
    BY <1>1 DEF HistoryIsDialogue
  <2>1. CASE q = r
    BY <1>0, <1>1, <1>2, <1>4, <2>1 DEF Dialogue
  <2>2. CASE q # r
    <3>1. UserMessage(q) \in messages /\ Asked(q)
      BY <1>6, <2>2 DEF Asked
    <3>2. sid[q] = s => seq[q] < u.seq
      BY <1>4, <3>1 DEF UserMessage
    <3>3. u \in Dialogue(sid[q], loaded[q].generation)' => ~(u.seq < seq[q])
      BY <1>1, <1>4, <1>5, <3>2 DEF Dialogue
    <3> QED
      BY <1>1, <3>1, <3>3 DEF HistoryIsDialogue, Dialogue
  <2> QED
    BY <2>1, <2>2
<1>17. GenerationsInOrder'
  BY <1>1, <1>2, <1>3, <1>4, <1>5 DEF GenerationsInOrder
<1>18. LifetimeExact'
  BY <1>1 DEF LifetimeExact, Answered
<1>19. ActiveTotalCovers'
  BY <1>1 DEF ActiveTotalCovers, ActiveCharges, Dialogue
<1> QED
  BY <1>8, <1>9, <1>10, <1>11, <1>12, <1>13, <1>14, <1>15, <1>16, <1>17,
     <1>18, <1>19

\* A reply is stored and charged.  Its slot was free, so its question is the
\* last turn and the totals its handler remembers are those of the row.
LEMMA CommitExchangeKeepsInvariant ==
    ASSUME TypeOK, IInv, NEW r \in Request, CommitExchange(r)
    PROVE  IInv'
<1>0. PICK s \in SessionId, a \in Message :
         s = sid[r] /\ a = AssistantMessage(r)
  <2>1. AssistantMessage(r) \in Message
    <3> USE DEF TypeOK
    <3> QED
      BY DEF AssistantMessage, Message, Row
  <2> QED
    BY <2>1 DEF TypeOK
<1>1. /\ a.session = s /\ a.seq = seq[r] + 1 /\ a.role = "assistant"
      /\ a.of = r /\ a.generation = loaded[r].generation
      /\ messages' = messages \cup {a}
      /\ usage' = usage \cup {r}
      /\ UNCHANGED <<created, sid, loaded, history, seq>>
      /\ pc[r] = "charging"
      /\ pc'[r] = "done"
      /\ \A q \in Request \ {r} : pc'[q] = pc[q]
      /\ \A q \in Request : UserMessage(q)' = UserMessage(q)
  <2>1. /\ messages' = messages \cup {a}
        /\ usage' = usage \cup {r}
        /\ UNCHANGED <<created, sid, loaded, history, seq>>
        /\ pc[r] = "charging"
        /\ pc' = [pc EXCEPT ![r] = "done"]
    BY <1>0 DEF CommitExchange, Finish, callVars, localVars
  <2>2. pc'[r] = "done" /\ \A q \in Request \ {r} : pc'[q] = pc[q]
    BY <2>1 DEF TypeOK
  <2>3. \A q \in Request : UserMessage(q)' = UserMessage(q)
    BY <2>1 DEF UserMessage
  <2> QED
    BY <1>0, <2>1, <2>2, <2>3 DEF AssistantMessage
<1>2. /\ \A q \in SessionId \ {s} : row'[q] = row[q]
      /\ row'[s].generation = row[s].generation
      /\ row'[s].total = loaded[r].total \cup {r}
      /\ row'[s].lifetime = loaded[r].lifetime \cup {r}
  BY <1>0 DEF CommitExchange, Charged, TypeOK, Row
<1>3. \A m \in messages : /\ m.of \in Request
                          /\ m.seq \in Nat
                          /\ m.session \in SessionId
                          /\ m.generation \in Nat
  BY DEF TypeOK, Message
<1>4. \A q \in Request : /\ seq[q] \in Nat
                         /\ loaded[q].generation \in Nat
                         /\ sid[q] \in SessionId
  BY DEF TypeOK, Row
<1>5. /\ LastAsked(r)
      /\ ~SlotTaken(s, seq[r] + 1)
      /\ UserMessage(r) \in messages
      /\ s \in created
  BY <1>0, <1>1 DEF IInv, AnswerSlot, Origins, Existing, Asked, Awaiting
<1>6. /\ \A m \in messages : m.session = s => m.seq < a.seq
      /\ \E m \in messages : /\ m.session = s
                             /\ m.seq + 1 = a.seq
                             /\ m.generation = a.generation
      /\ row[s].lifetime = loaded[r].lifetime
      /\ a.generation <= row[s].generation
      /\ a.generation = row[s].generation => loaded[r].total = row[s].total
      /\ row[s].generation \in Nat
      /\ a.seq # 0
  BY <1>0, <1>1, <1>3, <1>4, <1>5 DEF LastAsked, UserMessage, TypeOK, Row
<1>7. \A q \in Request : Asked(q) => Asked(q)'
  BY <1>1 DEF Asked
<1>8. \A q \in Request : Asked(q)' => Asked(q)
  BY <1>1 DEF Asked, UserMessage
<1> USE DEF IInv
<1>9. \A q \in Request : sid[q] = s => pc[q] \notin Exclusive
  BY <1>0, <1>1 DEF LockExclusive, Exclusive
<1>10. LockExclusive'
  BY <1>1 DEF LockExclusive, Exclusive
<1>11. LoadedIsCurrent'
  BY <1>1, <1>2, <1>4, <1>9 DEF LoadedIsCurrent, Exclusive
<1>12. Existing'
  BY <1>1, <1>2, <1>5 DEF Existing, Exclusive, Awaiting
<1>13. ClaimIsNext'
  <2> SUFFICES ASSUME NEW q \in Request, pc'[q] = "read"
               PROVE  /\ IsNextSeq(sid[q], seq[q])'
                      /\ history'[q] = Dialogue(sid[q], loaded[q].generation)'
    BY DEF ClaimIsNext
  <2>1. q # r /\ pc[q] = "read" /\ sid[q] # s
    BY <1>1, <1>9 DEF Exclusive
  <2> QED
    BY <1>1, <2>1 DEF ClaimIsNext, IsNextSeq, SeqsInUse, Dialogue
<1>14. Origins'
  BY <1>0, <1>1, <1>3, <1>5, <1>6, <1>7 DEF Origins, Awaiting, Asked
<1>15. \A q \in Request \ {r} :
          pc[q] \in Awaiting /\ sid[q] = s => seq[q] < seq[r]
  <2> SUFFICES ASSUME NEW q \in Request \ {r}, pc[q] \in Awaiting, sid[q] = s
               PROVE  seq[q] < seq[r]
    OBVIOUS
  <2>1. UserMessage(q) \in messages
    BY DEF Origins, Asked
  <2>2. UserMessage(q) # UserMessage(r)
    BY DEF UserMessage
  <2>3. seq[q] # seq[r]
    BY <1>0, <1>5, <2>1, <2>2 DEF LogIsASequence, UniqueSeq, UserMessage
  <2> QED
    BY <1>0, <1>4, <1>5, <2>1, <2>3 DEF LastAsked, UserMessage
<1>16. AnswerSlot'
  <2>1. ASSUME NEW q \in Request, pc'[q] \in Awaiting
        PROVE  SlotTaken(sid[q], seq[q] + 1)' \/ LastAsked(q)'
    <3>1. q # r /\ pc[q] \in Awaiting
      BY <1>1, <2>1 DEF Awaiting
    <3>2. CASE SlotTaken(sid[q], seq[q] + 1)
      BY <1>1, <3>2 DEF SlotTaken
    <3>3. CASE LastAsked(q) /\ sid[q] # s
      BY <1>1, <1>2, <1>4, <3>3 DEF LastAsked
    <3>4. CASE LastAsked(q) /\ sid[q] = s
      BY <1>0, <1>4, <1>5, <1>15, <3>1, <3>4 DEF LastAsked, UserMessage
    <3> QED
      BY <3>1, <3>2, <3>3, <3>4 DEF AnswerSlot
  <2>2. ASSUME NEW q \in Request, pc'[q] \in {"inserted", "charging"}
        PROVE  ~SlotTaken(sid[q], seq[q] + 1)'
    <3>1. q # r /\ pc[q] \in {"inserted", "charging"}
      BY <1>1, <2>2
    <3>2. ~(sid[q] = s /\ seq[q] = seq[r])
      BY <1>4, <1>15, <3>1 DEF Awaiting
    <3> QED
      BY <1>1, <1>4, <3>1, <3>2 DEF SlotTaken, AnswerSlot
  <2> QED
    BY <2>1, <2>2 DEF AnswerSlot
<1>17. LoadedTotals'
  BY <1>1 DEF LoadedTotals
<1>18. LogIsASequence'
  BY <1>1, <1>3, <1>6 DEF LogIsASequence, UniqueSeq
<1>19. HistoryIsDialogue'
  <2> SUFFICES ASSUME NEW q \in Request, Asked(q)'
               PROVE  history[q] = {m \in Dialogue(sid[q], loaded[q].generation)' :
                                       m.seq < seq[q]}
    BY <1>1 DEF HistoryIsDialogue
  <2>1. UserMessage(q) \in messages /\ Asked(q)
    BY <1>8 DEF Asked
  <2>2. sid[q] = s => seq[q] < a.seq
    BY <1>6, <2>1 DEF UserMessage
  <2>3. a \in Dialogue(sid[q], loaded[q].generation)' => ~(a.seq < seq[q])
    BY <1>1, <1>4, <2>2 DEF Dialogue
  <2> QED
    BY <1>1, <2>1, <2>3 DEF HistoryIsDialogue, Dialogue
<1>20. \A m \in messages : m.session = s => m.generation <= a.generation
  <2> SUFFICES ASSUME NEW m \in messages, m.session = s
               PROVE  m.generation <= a.generation
    OBVIOUS
  <2> DEFINE u == UserMessage(r)
  <2>1. /\ u \in messages /\ u.session = s
        /\ u.seq = seq[r] /\ u.generation = a.generation
    BY <1>0, <1>1, <1>5 DEF UserMessage
  <2>2. CASE m.seq = u.seq
    BY <1>1, <1>4, <2>1, <2>2 DEF LogIsASequence, UniqueSeq
  <2>3. CASE m.seq # u.seq
    <3>1. m.seq < u.seq
      BY <1>0, <1>3, <1>4, <1>5, <2>1, <2>3 DEF LastAsked
    <3> HIDE DEF u
    <3> QED
      BY <2>1, <3>1 DEF GenerationsInOrder
  <2> QED
    BY <2>2, <2>3
<1>21. GenerationsInOrder'
  BY <1>1, <1>2, <1>3, <1>4, <1>6, <1>20 DEF GenerationsInOrder
<1>22. Answered(s)' = Answered(s) \cup {r}
  BY <1>1 DEF Answered
<1>23. \A q \in SessionId \ {s} : Answered(q)' = Answered(q)
  BY <1>1 DEF Answered
<1>24. LifetimeExact'
  <2>1. row'[s].lifetime = Answered(s)'
    BY <1>2, <1>6, <1>22 DEF LifetimeExact
  <2>2. \A q \in SessionId \ {s} : row'[q].lifetime = Answered(q)'
    BY <1>2, <1>23 DEF LifetimeExact
  <2>3. {q \in usage' : sid[q] = s} = Answered(s)'
    BY <1>0, <1>1, <1>22 DEF LifetimeExact
  <2>4. \A k \in SessionId \ {s} : {q \in usage' : sid[q] = k} = Answered(k)'
    BY <1>0, <1>1, <1>23 DEF LifetimeExact
  <2> QED
    BY <1>1, <2>1, <2>2, <2>3, <2>4 DEF LifetimeExact
<1>25. ActiveTotalCovers'
  <2>1. \A q \in SessionId \ {s} : ActiveCharges(q)' = ActiveCharges(q)
    BY <1>1, <1>2 DEF ActiveCharges, Dialogue
  <2>2. CASE a.generation = row[s].generation
    <3>1. ActiveCharges(s)' \subseteq ActiveCharges(s) \cup {r}
      BY <1>1, <1>2 DEF ActiveCharges, Dialogue
    <3> QED
      BY <1>2, <1>6, <2>1, <2>2, <3>1 DEF ActiveTotalCovers
  <2>3. CASE a.generation # row[s].generation
    <3>1. ActiveCharges(s)' = {}
      BY <1>1, <1>2, <1>3, <1>4, <1>6, <1>20, <2>3 DEF ActiveCharges, Dialogue
    <3>2. row'[s].total \subseteq row'[s].lifetime
      BY <1>2 DEF LoadedTotals
    <3> QED
      BY <1>2, <2>1, <3>1, <3>2 DEF ActiveTotalCovers
  <2> QED
    BY <2>2, <2>3
<1> QED
  BY <1>10, <1>11, <1>12, <1>13, <1>14, <1>16, <1>17, <1>18, <1>19, <1>21,
     <1>24, <1>25

-----------------------------------------------------------------------------
LEMMA InitInvariant == Init => IInv
<1> SUFFICES ASSUME Init PROVE IInv
  OBVIOUS
<1> USE DEF Init
<1>1. LockExclusive /\ LoadedIsCurrent /\ ClaimIsNext
  BY DEF LockExclusive, LoadedIsCurrent, ClaimIsNext, Exclusive
<1>2. Existing
  BY DEF Existing, Exclusive, Awaiting, NewRow
<1>3. Origins /\ AnswerSlot
  BY DEF Origins, AnswerSlot, Awaiting
<1>4. LoadedTotals
  BY DEF LoadedTotals, NewRow
<1>5. LogIsASequence /\ HistoryIsDialogue /\ GenerationsInOrder
  BY DEF LogIsASequence, UniqueSeq, HistoryIsDialogue, Asked, GenerationsInOrder
<1>6. LifetimeExact /\ ActiveTotalCovers
  BY DEF LifetimeExact, Answered, ActiveTotalCovers, ActiveCharges, Dialogue,
         NewRow
<1> QED
  BY <1>1, <1>2, <1>3, <1>4, <1>5, <1>6 DEF IInv

LEMMA NextInvariant == TypeOK /\ IInv /\ [Next]_vars => IInv'
<1> SUFFICES ASSUME TypeOK, IInv, [Next]_vars
             PROVE  IInv'
  OBVIOUS
<1>1. ASSUME NEW s \in SessionId, NEW m \in Model \cup {NoModel},
             CreateSession(s, m)
      PROVE  IInv'
  BY <1>1, CreateSessionKeepsInvariant
<1>2. ASSUME NEW r \in Request, NEW s \in SessionId, ReceiveReset(r, s)
      PROVE  IInv'
  BY <1>2, ArrivalKeepsInvariant DEF ReceiveReset
<1>3. ASSUME NEW r \in Request, NEW s \in SessionId,
             NEW m \in Model \cup {NoModel}, ReceiveMessage(r, s, m)
      PROVE  IInv'
  BY <1>3, ArrivalKeepsInvariant DEF ReceiveMessage
<1>4. ASSUME NEW r \in Request, LockForSend(r) \/ LockForReset(r)
      PROVE  IInv'
  BY <1>4, LockRowKeepsInvariant DEF LockForSend, LockForReset
<1>5. ASSUME NEW r \in Request, ReadHistory(r)
      PROVE  IInv'
  BY <1>5, ReadHistoryKeepsInvariant
<1>6. ASSUME NEW r \in Request, StoreUserMessage(r)
      PROVE  IInv'
  BY <1>6, StoreUserMessageKeepsInvariant
<1>7. ASSUME NEW r \in Request, CommitExchange(r)
      PROVE  IInv'
  BY <1>7, CommitExchangeKeepsInvariant
<1>8. ASSUME NEW r \in Request, StartNewGeneration(r)
      PROVE  IInv'
  BY <1>8, ResetKeepsInvariant
<1>9. ASSUME NEW r \in Request,
             \/ RejectContent(r) \/ SessionNotFound(r) \/ RejectModel(r)
             \/ RejectAtLimit(r) \/ RejectUnpriced(r) \/ ProviderFails(r)
             \/ ReplySlotTaken(r) \/ ResetNothing(r) \/ DeadlockVictim(r)
             \/ DatabaseFails(r)
      PROVE  IInv'
  <2>1. /\ UNCHANGED <<dbVars, sid, loaded, history, seq>>
        /\ pc' = [pc EXCEPT ![r] = "done"]
    BY <1>9 DEF RejectContent, SessionNotFound, RejectModel, RejectAtLimit,
                RejectUnpriced, ProviderFails, ReplySlotTaken, ResetNothing,
                DeadlockVictim, DatabaseFails, Finish, callVars, localVars
  <2>2. \A q \in Request : Moves(q)
    BY <2>1 DEF Moves, TypeOK
  <2> QED
    BY <2>1, <2>2, MovesKeepInvariant
<1>10. ASSUME NEW r \in Request,
              \/ CallProvider(r) \/ ProviderReplies(r)
              \/ InsertReply(r) \/ LockForReply(r)
       PROVE  IInv'
  <2>1. /\ UNCHANGED <<dbVars, sid, loaded, history, seq>>
        /\ \A q \in Request \ {r} : pc'[q] = pc[q]
    BY <1>10 DEF CallProvider, ProviderReplies, InsertReply, LockForReply,
                 Goto, callVars, localVars, TypeOK
  <2>2. Moves(r)
    <3>1. CASE CallProvider(r)
      BY <3>1 DEF CallProvider, Goto, Moves, Awaiting, TypeOK
    <3>2. CASE ProviderReplies(r)
      BY <3>2 DEF ProviderReplies, Goto, Moves, Awaiting, TypeOK
    <3>3. CASE InsertReply(r)
      BY <3>3 DEF InsertReply, Goto, Moves, Awaiting, TypeOK
    <3>4. CASE LockForReply(r)
      BY <3>4 DEF LockForReply, Goto, Moves, Awaiting, TypeOK, IInv, AnswerSlot
    <3> QED
      BY <1>10, <3>1, <3>2, <3>3, <3>4
  <2>3. \A q \in Request : Moves(q)
    BY <2>1, <2>2 DEF Moves
  <2> QED
    BY <2>1, <2>3, MovesKeepInvariant
<1>11. CASE Restart
  <2>1. /\ UNCHANGED <<dbVars, sid, loaded, history, seq>>
        /\ \A q \in Request : Moves(q)
    BY <1>11 DEF Restart, Moves, callVars, localVars
  <2> QED
    BY <2>1, MovesKeepInvariant
<1>12. CASE UNCHANGED vars \/ Terminating
  <2>1. /\ UNCHANGED <<dbVars, sid, loaded, history, seq>>
        /\ \A q \in Request : Moves(q)
    BY <1>12 DEF Terminating, vars, callVars, localVars, Moves
  <2> QED
    BY <2>1, MovesKeepInvariant
<1> QED
  BY <1>1, <1>2, <1>3, <1>4, <1>5, <1>6, <1>7, <1>8, <1>9, <1>10, <1>11,
     <1>12
  DEF Next, Step

\* The inductive invariant holds throughout every behaviour.
THEOREM Invariance == Spec => []IInv
<1>1. TypeOK /\ IInv /\ [Next]_vars => IInv'
  BY NextInvariant
<1> QED
  BY <1>1, InitInvariant, TypeCorrect, PTL DEF Spec

-----------------------------------------------------------------------------
(* What follows from it.                                                   *)

\* The positions of every session stay 1, 2, ... without gap or repetition.
THEOREM LogStaysASequence == Spec => []LogIsASequence
<1>1. IInv => LogIsASequence
  BY DEF IInv
<1> QED
  BY <1>1, Invariance, PTL

\* No charge is ever lost from or counted twice in a lifetime total.
THEOREM LifetimeStaysExact == Spec => []LifetimeExact
<1>1. IInv => LifetimeExact
  BY DEF IInv
<1> QED
  BY <1>1, Invariance, PTL

\* The active total covers the charges of the active generation.
THEOREM ActiveTotalStaysCovering == Spec => []ActiveTotalCovers
<1>1. IInv => ActiveTotalCovers
  BY DEF IInv
<1> QED
  BY <1>1, Invariance, PTL

\* What was sent as history stays exactly what precedes the question.
THEOREM HistoryStaysTheDialogue == Spec => []HistoryIsDialogue
<1>1. IInv => HistoryIsDialogue
  BY DEF IInv
<1> QED
  BY <1>1, Invariance, PTL

\* Generations stay consecutive stretches of the log.
THEOREM GenerationsStayInOrder == Spec => []GenerationsInOrder
<1>1. IInv => GenerationsInOrder
  BY DEF IInv
<1> QED
  BY <1>1, Invariance, PTL

\* A reply is always stored directly after its own question.
THEOREM RepliesFollowQuestions == Spec => []ReplyFollowsQuestion
<1>1. IInv => ReplyFollowsQuestion
  <2> SUFFICES ASSUME IInv, NEW a \in messages, a.role = "assistant"
               PROVE  \E u \in messages : /\ u.session = a.session
                                          /\ u.of = a.of
                                          /\ u.role = "user"
                                          /\ u.seq + 1 = a.seq
                                          /\ u.generation = a.generation
    BY DEF ReplyFollowsQuestion
  <2>1. UserMessage(a.of) \in messages
    BY DEF IInv, Origins, Asked
  <2> QED
    BY <2>1 DEF IInv, Origins, UserMessage
<1> QED
  BY <1>1, Invariance, PTL

\* Only four actions write to the database.
LEMMA Writers ==
    ASSUME [Next]_vars
    PROVE  \/ UNCHANGED dbVars
           \/ \E s \in SessionId, m \in Model \cup {NoModel} : CreateSession(s, m)
           \/ \E r \in Request : \/ StoreUserMessage(r)
                                 \/ CommitExchange(r)
                                 \/ StartNewGeneration(r)
BY DEF Next, Step, ReceiveReset, ReceiveMessage, RejectContent,
       SessionNotFound, LockForSend, LockForReset, LockRow, RejectModel,
       RejectAtLimit, ReadHistory, RejectUnpriced, CallProvider,
       ProviderReplies, ProviderFails, ReplySlotTaken, InsertReply,
       LockForReply, ResetNothing, DeadlockVictim, DatabaseFails, Restart,
       Terminating, vars

\* Questions only ever join the active generation: their handler stores them
\* under the lock under which it read the generation.
THEOREM QuestionsStayInActive == Spec => QuestionsJoinActiveGeneration
<1>1. TypeOK /\ IInv /\ [Next]_vars => [QuestionsJoinActive]_vars
  <2> SUFFICES ASSUME TypeOK, IInv, [Next]_vars
               PROVE  QuestionsJoinActive
    OBVIOUS
  <2>1. ASSUME NEW r \in Request, StoreUserMessage(r)
        PROVE  QuestionsJoinActive
    <3>1. loaded[r] = row[sid[r]]
      BY <2>1 DEF StoreUserMessage, IInv, LoadedIsCurrent, Exclusive
    <3> QED
      BY <2>1, <3>1 DEF StoreUserMessage, QuestionsJoinActive, UserMessage
  <2>2. ASSUME NEW r \in Request, CommitExchange(r)
        PROVE  QuestionsJoinActive
    BY <2>2 DEF CommitExchange, QuestionsJoinActive, AssistantMessage
  <2>3. CASE UNCHANGED messages
    BY <2>3 DEF QuestionsJoinActive
  <2> QED
    BY <2>1, <2>2, <2>3, Writers
    DEF dbVars, CreateSession, StartNewGeneration
<1> QED
  BY <1>1, Invariance, TypeCorrect, PTL DEF Spec, QuestionsJoinActiveGeneration

-----------------------------------------------------------------------------
(* The service implements module Conversation.                             *)

\* Every behaviour of the service is one that Conversation promises: a send
\* is an Ask and at most one Answer, a reset a Reset, and all
\* else is invisible.
THEOREM Refinement == Spec => PromiseKept
<1>1. Init => Promise!Init
  BY DEF Init, Promise!Init, NewRow
<1>2. TypeOK /\ IInv /\ [Next]_vars => [Promise!Next]_(Promise!vars)
  <2> SUFFICES ASSUME TypeOK, IInv, [Next]_vars
               PROVE  Promise!Next \/ UNCHANGED Promise!vars
    OBVIOUS
  <2>1. CASE UNCHANGED dbVars
    BY <2>1 DEF dbVars, Promise!vars
  <2>2. ASSUME NEW s \in SessionId, NEW m \in Model \cup {NoModel},
               CreateSession(s, m)
        PROVE  Promise!Open(s)
    <3>1. /\ s \notin created
          /\ created' = created \cup {s}
          /\ UNCHANGED messages
          /\ \A q \in SessionId \ {s} : row'[q] = row[q]
          /\ row'[s].generation = 1
          /\ row'[s].lifetime = {}
      BY <2>2 DEF CreateSession, NewRow, TypeOK
    <3>2. row[s].generation = 1 /\ row[s].lifetime = {}
      BY <3>1 DEF IInv, Existing
    <3> QED
      BY <3>1, <3>2 DEF Promise!Open
  <2>3. ASSUME NEW r \in Request, StoreUserMessage(r)
        PROVE  Promise!Next
    <3>0. PICK s \in SessionId : s = sid[r]
      BY DEF TypeOK
    <3>1. /\ s \in created
          /\ loaded[r] = row[s]
          /\ IsNextSeq(s, seq[r])
      BY <2>3, <3>0
      DEF StoreUserMessage, IInv, Existing, LoadedIsCurrent, ClaimIsNext, Exclusive
    <3>2. \A m \in messages : m.of # r
      BY <2>3, NothingStoredYet DEF StoreUserMessage, Awaiting
    <3>3. UserMessage(r) = Promise!Question(s, seq[r], row[s].generation, r)
      BY <3>0, <3>1 DEF UserMessage, Promise!Question
    <3>4. /\ seq[r] \in {1} \cup {m.seq + 1 : m \in Promise!Turns(s)}
          /\ Promise!IsNextSeq(s, seq[r])
      BY <3>1 DEF IsNextSeq, SeqsInUse, Promise!IsNextSeq, Promise!Turns
    <3>5. messages' = messages \cup {UserMessage(r)} /\ UNCHANGED <<created, row>>
      BY <2>3 DEF StoreUserMessage
    <3>6. Promise!Ask(s, r)
      BY <3>1, <3>2, <3>3, <3>4, <3>5 DEF Promise!Ask
    <3> QED
      BY <3>6 DEF Promise!Next
  <2>4. ASSUME NEW r \in Request, CommitExchange(r)
        PROVE  Promise!Next
    <3>0. PICK s \in SessionId : s = sid[r]
      BY DEF TypeOK
    <3>1. /\ UserMessage(r) \in messages
          /\ LastAsked(r)
      BY <2>4
      DEF CommitExchange, IInv, Origins, AnswerSlot, Asked, Awaiting
    <3>2. PICK st \in {"complete", "failed"} :
             AssistantMessage(r) = Promise!ReplyTo(UserMessage(r), st)
      BY DEF AssistantMessage, UserMessage, Promise!ReplyTo
    <3>3. /\ messages' = messages \cup {AssistantMessage(r)}
          /\ UNCHANGED created
      BY <2>4 DEF CommitExchange
    <3>4. /\ \A q \in SessionId \ {s} : row'[q] = row[q]
          /\ row'[s].generation = row[s].generation
          /\ row'[s].lifetime = row[s].lifetime \cup {r}
      BY <2>4, <3>0, <3>1 DEF CommitExchange, Charged, LastAsked, TypeOK, Row
    <3>5. /\ UserMessage(r) \in Promise!Turns(s)
          /\ UserMessage(r).of = r
          /\ UserMessage(r).role = "user"
          /\ \A m \in Promise!Turns(s) : m.seq <= UserMessage(r).seq
      BY <3>0, <3>1 DEF UserMessage, LastAsked, Promise!Turns
    <3>6. \E q \in Promise!Turns(s), t \in {"complete", "failed"} :
             /\ q.of = r
             /\ q.role = "user"
             /\ \A m \in Promise!Turns(s) : m.seq <= q.seq
             /\ messages' = messages \cup {Promise!ReplyTo(q, t)}
      BY <3>2, <3>3, <3>5
    <3>7. Promise!Answer(s, r)
      BY <3>3, <3>4, <3>6 DEF Promise!Answer
    <3> QED
      BY <3>7 DEF Promise!Next
  <2>5. ASSUME NEW r \in Request, StartNewGeneration(r)
        PROVE  Promise!Next
    <3>0. PICK s \in SessionId : s = sid[r]
      BY DEF TypeOK
    <3>1. loaded[r] = row[s]
      BY <2>5, <3>0 DEF StartNewGeneration, IInv, LoadedIsCurrent, Exclusive
    <3>2. \E m \in Promise!Turns(s) : m.generation = row[s].generation
      BY <2>5, <3>0, <3>1 DEF StartNewGeneration, Dialogue, Promise!Turns
    <3>3. /\ \A q \in SessionId \ {s} : row'[q] = row[q]
          /\ row'[s].generation = row[s].generation + 1
          /\ row'[s].lifetime = row[s].lifetime
      BY <2>5, <3>0, <3>1 DEF StartNewGeneration, NextGeneration, TypeOK, Row
    <3>4. UNCHANGED <<created, messages>>
      BY <2>5 DEF StartNewGeneration
    <3>5. Promise!Reset(s)
      BY <3>2, <3>3, <3>4 DEF Promise!Reset
    <3> QED
      BY <3>5 DEF Promise!Next
  <2>6. ASSUME NEW s \in SessionId, NEW m \in Model \cup {NoModel},
               CreateSession(s, m)
        PROVE  Promise!Next
    BY <2>2, <2>6 DEF Promise!Next
  <2> QED
    BY <2>1, <2>3, <2>4, <2>5, <2>6, Writers
<1> QED
  BY <1>1, <1>2, Invariance, TypeCorrect, PTL DEF Spec, PromiseKept, Promise!Spec

-----------------------------------------------------------------------------
(* What callers are told.                                                  *)

\* The outcomes of call r agree with the database, in terms of usage rows.
OutcomeOf(r) ==
    /\ pc[r] # "done" => outcome[r] = "none"
    /\ outcome[r] \in {"session_not_found", "validation_error",
                       "session_message_limit"}
       => \A m \in messages : m.of # r
    /\ outcome[r] \in {"unknown_model_pricing", "upstream_unavailable",
                       "upstream_rejected", "internal_error"}
       => Asked(r) /\ r \notin usage
    /\ outcome[r] \in {"created", "empty_reply"}
       => {UserMessage(r), AssistantMessage(r)} \subseteq messages /\ r \in usage

OutcomeInv == \A r \in Request : OutcomeOf(r)

\* Nothing happens to a call that has ended.
LEMMA EndedCallsRest ==
    ASSUME TypeOK, [Next]_vars, NEW r \in Request, pc[r] = "done"
    PROVE  /\ pc'[r] = "done" /\ outcome'[r] = outcome[r]
           /\ sid'[r] = sid[r] /\ loaded'[r] = loaded[r]
           /\ seq'[r] = seq[r] /\ reply'[r] = reply[r]
           /\ messages \subseteq messages' /\ usage \subseteq usage'
           /\ \A m \in messages' \ messages : m.of # r
           /\ r \in usage' => r \in usage
<1> USE DEF TypeOK, dbVars, callVars, localVars, Goto, Finish
<1>1. ASSUME NEW s \in SessionId, NEW m \in Model \cup {NoModel},
             CreateSession(s, m)
      PROVE  UNCHANGED <<messages, usage, pc, outcome, sid, loaded, seq, reply>>
  BY <1>1 DEF CreateSession
<1>2. ASSUME NEW q \in Request, NEW s \in SessionId,
             \/ ReceiveReset(q, s)
             \/ \E m \in Model \cup {NoModel} : ReceiveMessage(q, s, m)
      PROVE  /\ q # r
             /\ UNCHANGED <<messages, usage, outcome, loaded, seq, reply>>
             /\ pc'[r] = pc[r] /\ sid'[r] = sid[r]
  BY <1>2 DEF ReceiveReset, ReceiveMessage
<1>3. ASSUME NEW q \in Request,
             \/ RejectContent(q) \/ SessionNotFound(q) \/ RejectModel(q)
             \/ RejectAtLimit(q) \/ RejectUnpriced(q) \/ ProviderFails(q)
             \/ ReplySlotTaken(q) \/ ResetNothing(q) \/ DatabaseFails(q)
      PROVE  /\ q # r
             /\ UNCHANGED <<messages, usage, sid, loaded, seq, reply>>
             /\ pc'[r] = pc[r] /\ outcome'[r] = outcome[r]
  BY <1>3 DEF RejectContent, SessionNotFound, RejectModel, RejectAtLimit,
              RejectUnpriced, ProviderFails, ReplySlotTaken, ResetNothing,
              DatabaseFails
<1>4. ASSUME NEW q \in Request, DeadlockVictim(q)
      PROVE  /\ q # r
             /\ UNCHANGED <<messages, usage, sid, loaded, seq, reply>>
             /\ pc'[r] = pc[r] /\ outcome'[r] = outcome[r]
  BY <1>4 DEF DeadlockVictim, WaitCycle
<1>5. ASSUME NEW q \in Request,
             \/ LockForSend(q) \/ LockForReset(q) \/ ReadHistory(q)
             \/ CallProvider(q) \/ ProviderReplies(q) \/ InsertReply(q)
             \/ LockForReply(q)
      PROVE  /\ q # r
             /\ UNCHANGED <<messages, usage, outcome, sid>>
             /\ pc'[r] = pc[r] /\ loaded'[r] = loaded[r]
             /\ seq'[r] = seq[r] /\ reply'[r] = reply[r]
  BY <1>5 DEF LockForSend, LockForReset, LockRow, ReadHistory, CallProvider,
              ProviderReplies, InsertReply, LockForReply
<1>6. ASSUME NEW q \in Request, StoreUserMessage(q)
      PROVE  /\ q # r
             /\ messages' = messages \cup {UserMessage(q)}
             /\ UNCHANGED <<usage, outcome, sid, loaded, seq, reply>>
             /\ pc'[r] = pc[r]
  BY <1>6 DEF StoreUserMessage
<1>7. ASSUME NEW q \in Request, CommitExchange(q)
      PROVE  /\ q # r
             /\ messages' = messages \cup {AssistantMessage(q)}
             /\ usage' = usage \cup {q}
             /\ UNCHANGED <<sid, loaded, seq, reply>>
             /\ pc'[r] = pc[r] /\ outcome'[r] = outcome[r]
  BY <1>7 DEF CommitExchange
<1>8. ASSUME NEW q \in Request, StartNewGeneration(q)
      PROVE  /\ UNCHANGED <<messages, usage, sid, loaded, seq, reply>>
             /\ pc'[r] = pc[r] /\ outcome'[r] = outcome[r]
  BY <1>8 DEF StartNewGeneration
<1>9. ASSUME Restart
      PROVE  /\ UNCHANGED <<messages, usage, sid, loaded, seq, reply>>
             /\ pc'[r] = pc[r] /\ outcome'[r] = outcome[r]
  BY <1>9 DEF Restart
<1>10. \A q \in Request : UserMessage(q).of = q /\ AssistantMessage(q).of = q
  BY DEF UserMessage, AssistantMessage
<1> USE DEF vars
<1> HIDE DEF TypeOK, Goto, Finish
<1> QED
  BY <1>1, <1>2, <1>3, <1>4, <1>5, <1>6, <1>7, <1>8, <1>9, <1>10
  DEF Next, Step, Terminating

\* The bookkeeping of the outcomes is inductive, given IInv.
LEMMA OutcomeStep == TypeOK /\ IInv /\ OutcomeInv /\ [Next]_vars => OutcomeInv'
<1> SUFFICES ASSUME TypeOK, IInv, OutcomeInv, [Next]_vars, NEW r \in Request
             PROVE  OutcomeOf(r)'
  BY DEF OutcomeInv
<1>1. CASE pc[r] = "done"
  <2>1. UserMessage(r)' = UserMessage(r) /\ AssistantMessage(r)' = AssistantMessage(r)
    BY <1>1, EndedCallsRest DEF UserMessage, AssistantMessage
  <2> QED
    BY <1>1, <2>1, EndedCallsRest DEF OutcomeInv, OutcomeOf, Asked
<1>2. CASE pc[r] # "done" /\ outcome'[r] = "none"
  BY <1>2 DEF OutcomeOf
<1>3. CASE pc[r] # "done" /\ outcome'[r] # "none"
  <2>1. outcome[r] = "none"
    BY <1>3 DEF OutcomeInv, OutcomeOf
  <2> USE DEF OutcomeOf, TypeOK, Finish, dbVars, callVars, localVars
  <2>2. ASSUME RejectContent(r) \/ SessionNotFound(r) \/ RejectModel(r)
               \/ RejectAtLimit(r)
        PROVE  OutcomeOf(r)'
    <3>1. \A m \in messages : m.of # r
      BY <2>2, NothingStoredYet
      DEF RejectContent, SessionNotFound, RejectModel, RejectAtLimit, Awaiting
    <3> QED
      BY <2>2, <3>1
      DEF RejectContent, SessionNotFound, RejectModel, RejectAtLimit
  <2>3. ASSUME RejectUnpriced(r) \/ ProviderFails(r)
        PROVE  OutcomeOf(r)'
    <3>1. Asked(r) /\ r \notin usage
      BY <2>3 DEF RejectUnpriced, ProviderFails, IInv, Origins, Awaiting
    <3>2. Asked(r)' = Asked(r)
      BY <2>3 DEF RejectUnpriced, ProviderFails, Asked, UserMessage
    <3> QED
      BY <2>3, <3>1, <3>2 DEF RejectUnpriced, ProviderFails
  <2>4. ASSUME \/ ReplySlotTaken(r) \/ ResetNothing(r) \/ StartNewGeneration(r)
               \/ DeadlockVictim(r) \/ DatabaseFails(r)
        PROVE  OutcomeOf(r)'
    BY <2>4 DEF ReplySlotTaken, ResetNothing, StartNewGeneration,
                DeadlockVictim, DatabaseFails
  <2>5. ASSUME CommitExchange(r)
        PROVE  OutcomeOf(r)'
    <3>1. UserMessage(r)' = UserMessage(r)
          /\ AssistantMessage(r)' = AssistantMessage(r)
      BY <2>5 DEF CommitExchange, UserMessage, AssistantMessage
    <3>2. UserMessage(r) \in messages
      BY <2>5 DEF CommitExchange, IInv, Origins, Asked, Awaiting
    <3> QED
      BY <2>5, <3>1, <3>2 DEF CommitExchange
  <2>6. ASSUME Restart
        PROVE  OutcomeOf(r)'
    BY <2>6, <2>1 DEF Restart
  <2> QED
    BY <1>3, <2>1, <2>2, <2>3, <2>4, <2>5, <2>6
    DEF Next, Step, Terminating, CreateSession, ReceiveReset, ReceiveMessage,
        RejectContent, SessionNotFound, LockForSend, LockForReset, LockRow,
        RejectModel, RejectAtLimit, ReadHistory, StoreUserMessage,
        RejectUnpriced, CallProvider, ProviderReplies, ProviderFails,
        ReplySlotTaken, InsertReply, LockForReply, CommitExchange,
        ResetNothing, StartNewGeneration, DeadlockVictim, DatabaseFails, vars
<1> QED
  BY <1>1, <1>2, <1>3

\* A refusal left no trace, a provider failure kept the question uncharged,
\* and "created" or the empty reply mean that the exchange is stored and paid.
THEOREM OutcomesStayTruthful == Spec => []OutcomeTruthful
<1>1. Init => OutcomeInv
  BY DEF Init, OutcomeInv, OutcomeOf
<1>2. TypeOK /\ IInv /\ OutcomeInv => OutcomeTruthful
  BY DEF IInv, LifetimeExact, OutcomeInv, OutcomeOf, OutcomeTruthful, TypeOK
<1> QED
  BY <1>1, <1>2, OutcomeStep, Invariance, TypeCorrect, PTL DEF Spec

-----------------------------------------------------------------------------
(* How far a generation outgrows the message limit.                        *)
(*                                                                         *)
(* The limit is checked once per exchange, against the history that the    *)
(* handler reads.  HistoryIsDialogue says that this history stays all that *)
(* precedes the question, so every question stands below the limit, and a  *)
(* reply, which stands next to its question, at most one above it.         *)

\* A finite set that is not empty has an element whose rank is greatest.
LEMMA GreatestRank ==
    ASSUME NEW D, IsFiniteSet(D), D # {}, NEW rank \in [D -> Int]
    PROVE  \E t \in D : \A m \in D : rank[m] <= rank[t]
<1> DEFINE Above(m) == {n \in D : rank[n] > rank[m]}
           Tails == {Above(m) : m \in D}
<1>1. IsWellFoundedOn(StrictSubsetOrdering(D), SUBSET D)
  BY FS_StrictSubsetOrderingWellFounded, FS_FiniteSubsetsOfFinite
<1>2. Tails \subseteq SUBSET D /\ Tails # {}
  <2>1. PICK d : d \in D
    OBVIOUS
  <2>2. Above(d) \in Tails
    BY <2>1
  <2>3. \A T \in Tails : T \subseteq D
    OBVIOUS
  <2> QED
    BY <2>2, <2>3
<1>3. \E T \in Tails : \A U \in Tails : ~(<<U, T>> \in StrictSubsetOrdering(D))
  <2> HIDE DEF Tails
  <2> QED
    BY <1>1, <1>2, WFMin
<1>4. PICK t \in D : \A m \in D :
          ~(<<Above(m), Above(t)>> \in StrictSubsetOrdering(D))
  BY <1>3
<1>5. ASSUME NEW n \in Above(t) PROVE FALSE
  <2>1. Above(n) \subseteq Above(t) /\ n \notin Above(n)
    OBVIOUS
  <2>2. <<Above(n), Above(t)>> \in StrictSubsetOrdering(D)
    BY <2>1 DEF StrictSubsetOrdering
  <2> QED
    BY <2>2, <1>4
<1> QED
  BY <1>5

\* One more element adds at most one.
LEMMA AddOne ==
    ASSUME NEW S, IsFiniteSet(S), NEW x
    PROVE  /\ IsFiniteSet(S \cup {x})
           /\ Cardinality(S \cup {x}) \in Nat
           /\ Cardinality(S \cup {x}) <= Cardinality(S) + 1
<1>1. /\ IsFiniteSet(S \cup {x})
      /\ Cardinality(S \cup {x}) =
            IF x \in S THEN Cardinality(S) ELSE Cardinality(S) + 1
  BY FS_AddElement
<1>2. Cardinality(S) \in Nat /\ Cardinality(S \cup {x}) \in Nat
  BY <1>1, FS_CardinalityType
<1> QED
  BY <1>1, <1>2

\* What an exchange read before it stored its question was below the limit.
HistoryBelowLimit ==
    /\ IsFiniteSet(messages)
    /\ \A r \in Request : pc[r] = "read" \/ Asked(r) =>
          IsFiniteSet(history[r]) /\ Cardinality(history[r]) < MaxMessages

\* Only ReadHistory changes a history, and only StoreUserMessage asks.
LEMMA HistoryStep ==
    TypeOK /\ IInv /\ HistoryBelowLimit /\ [Next]_vars => HistoryBelowLimit'
<1> SUFFICES ASSUME TypeOK, IInv, HistoryBelowLimit, [Next]_vars
             PROVE  HistoryBelowLimit'
  OBVIOUS
<1>1. IsFiniteSet(messages')
  <2>1. ASSUME NEW r \in Request, StoreUserMessage(r) \/ CommitExchange(r)
        PROVE  IsFiniteSet(messages')
    BY <2>1, FS_AddElement DEF StoreUserMessage, CommitExchange, HistoryBelowLimit
  <2>2. CASE UNCHANGED messages
    BY <2>2 DEF HistoryBelowLimit
  <2> QED
    BY <2>1, <2>2, Writers DEF dbVars, CreateSession, StartNewGeneration
<1>2. ASSUME NEW r \in Request, ReadHistory(r)
      PROVE  HistoryBelowLimit'
  <2> DEFINE D == Dialogue(sid[r], loaded[r].generation)
  <2>1. IsFiniteSet(D)
    BY FS_Subset DEF Dialogue, HistoryBelowLimit
  <2>2. Cardinality(D) < MaxMessages
    BY <1>2, <2>1, FS_CardinalityType, ConfigAssumption DEF ReadHistory, AtLimit
  <2>3. history'[r] = D
    BY <1>2 DEF ReadHistory, TypeOK
  <2>4. \A q \in Request \ {r} :
            /\ history'[q] = history[q]
            /\ pc'[q] = pc[q]
            /\ Asked(q)' = Asked(q)
    BY <1>2 DEF ReadHistory, Goto, Asked, UserMessage, TypeOK, dbVars, callVars
  <2> HIDE DEF D
  <2> QED
    BY <1>1, <2>1, <2>2, <2>3, <2>4 DEF HistoryBelowLimit
<1>3. ASSUME NEW r \in Request, pc[r] \in {"idle", "wait_send", "wait_reset"},
             pc'[r] # "read",
             UNCHANGED <<messages, history, seq>>,
             \A q \in Request \ {r} : /\ pc'[q] = pc[q]
                                      /\ sid'[q] = sid[q]
                                      /\ loaded'[q] = loaded[q]
      PROVE  HistoryBelowLimit'
  <2>1. \A m \in messages : m.of # r
    BY <1>3, NothingStoredYet DEF Awaiting
  <2>2. ~Asked(r)'
    BY <1>3, <2>1 DEF Asked, UserMessage
  <2>3. \A q \in Request \ {r} : Asked(q)' = Asked(q)
    BY <1>3 DEF Asked, UserMessage
  <2> QED
    BY <1>1, <1>3, <2>2, <2>3 DEF HistoryBelowLimit
<1>4. ASSUME NEW r \in Request, NEW s \in SessionId,
             NEW m \in Model \cup {NoModel},
             ReceiveMessage(r, s, m) \/ ReceiveReset(r, s)
      PROVE  HistoryBelowLimit'
  BY <1>3, <1>4
  DEF ReceiveMessage, ReceiveReset, Goto, dbVars, localVars, TypeOK
<1>5. ASSUME NEW r \in Request, LockForSend(r) \/ LockForReset(r)
      PROVE  HistoryBelowLimit'
  BY <1>3, <1>5
  DEF LockForSend, LockForReset, LockRow, Goto, dbVars, callVars, TypeOK
<1>6. ASSUME UNCHANGED <<sid, loaded, history, seq>>,
             \A q \in Request : pc'[q] = "read" => pc[q] = "read",
             \A q \in Request : Asked(q)' => pc[q] = "read" \/ Asked(q)
      PROVE  HistoryBelowLimit'
  BY <1>1, <1>6 DEF HistoryBelowLimit
<1>7. ASSUME NEW r \in Request, StoreUserMessage(r)
      PROVE  HistoryBelowLimit'
  <2>1. \A q \in Request : UserMessage(q)' = UserMessage(q) /\ UserMessage(q).of = q
    BY <1>7 DEF StoreUserMessage, UserMessage, callVars, localVars
  <2>2. \A q \in Request : Asked(q)' => q = r \/ Asked(q)
    BY <1>7, <2>1 DEF StoreUserMessage, Asked
  <2>3. \A q \in Request : pc'[q] = "read" => pc[q] = "read"
    BY <1>7 DEF StoreUserMessage, Goto, TypeOK
  <2> QED
    BY <1>6, <1>7, <2>2, <2>3 DEF StoreUserMessage, callVars, localVars
<1>8. ASSUME NEW r \in Request, CommitExchange(r)
      PROVE  HistoryBelowLimit'
  <2>1. \A q \in Request : UserMessage(q)' = UserMessage(q)
    BY <1>8 DEF CommitExchange, UserMessage, callVars, localVars
  <2>2. \A q \in Request : UserMessage(q) # AssistantMessage(r)
    BY DEF UserMessage, AssistantMessage
  <2>3. \A q \in Request : Asked(q)' => Asked(q)
    BY <1>8, <2>1, <2>2 DEF CommitExchange, Asked
  <2>4. \A q \in Request : pc'[q] = "read" => pc[q] = "read"
    BY <1>8 DEF CommitExchange, Finish, TypeOK
  <2> QED
    BY <1>6, <1>8, <2>3, <2>4 DEF CommitExchange, callVars, localVars
<1>9. ASSUME UNCHANGED <<messages, sid, loaded, history, seq>>,
             \A q \in Request : pc'[q] = "read" => pc[q] = "read"
      PROVE  HistoryBelowLimit'
  <2>1. \A q \in Request : Asked(q)' = Asked(q)
    BY <1>9 DEF Asked, UserMessage
  <2> QED
    BY <1>6, <1>9, <2>1
<1>10. ASSUME NEW r \in Request,
              \/ RejectContent(r) \/ SessionNotFound(r) \/ RejectModel(r)
              \/ RejectAtLimit(r) \/ RejectUnpriced(r) \/ ProviderFails(r)
              \/ ReplySlotTaken(r) \/ ResetNothing(r) \/ DeadlockVictim(r)
              \/ DatabaseFails(r) \/ StartNewGeneration(r)
       PROVE  HistoryBelowLimit'
  <2>1. /\ UNCHANGED <<messages, sid, loaded, history, seq>>
        /\ pc' = [pc EXCEPT ![r] = "done"]
    BY <1>10 DEF RejectContent, SessionNotFound, RejectModel, RejectAtLimit,
                 RejectUnpriced, ProviderFails, ReplySlotTaken, ResetNothing,
                 DeadlockVictim, DatabaseFails, StartNewGeneration, Finish,
                 dbVars, callVars, localVars
  <2> QED
    BY <1>9, <2>1 DEF TypeOK
<1>11. ASSUME NEW r \in Request,
              \/ CallProvider(r) \/ ProviderReplies(r)
              \/ InsertReply(r) \/ LockForReply(r)
       PROVE  HistoryBelowLimit'
  <2>1. /\ UNCHANGED <<messages, sid, loaded, history, seq>>
        /\ \A q \in Request : pc'[q] = "read" => pc[q] = "read"
    BY <1>11 DEF CallProvider, ProviderReplies, InsertReply, LockForReply,
                 Goto, dbVars, callVars, localVars, TypeOK
  <2> QED
    BY <1>9, <2>1
<1>12. CASE \/ UNCHANGED vars \/ Terminating \/ Restart
            \/ \E s \in SessionId, m \in Model \cup {NoModel} : CreateSession(s, m)
  <2>1. /\ UNCHANGED <<messages, sid, loaded, history, seq>>
        /\ \A q \in Request : pc'[q] = "read" => pc[q] = "read"
    BY <1>12 DEF Terminating, Restart, CreateSession, vars, dbVars, callVars,
                 localVars, TypeOK
  <2> QED
    BY <1>9, <2>1
<1> QED
  <2>1. CASE \E r \in Request : Step(r)
    BY <1>2, <1>5, <1>7, <1>8, <1>10, <1>11, <2>1 DEF Step
  <2> QED
    BY <1>2, <1>4, <1>5, <1>7, <1>8, <1>10, <1>11, <1>12, <2>1 DEF Next

\* No question is ever asked at or above the limit.
LEMMA HistoryInvariance == Spec => []HistoryBelowLimit
<1>1. Init => HistoryBelowLimit
  BY FS_EmptySet DEF Init, HistoryBelowLimit, Asked
<1> QED
  BY <1>1, HistoryStep, Invariance, TypeCorrect, PTL DEF Spec

\* However many sends overlap, a generation outgrows the limit by at most one
\* reply: its last question was asked below the limit.
THEOREM GenerationStaysBounded == Spec => []GenerationBounded
<1>1. TypeOK /\ IInv /\ HistoryBelowLimit => GenerationBounded
  <2> SUFFICES ASSUME TypeOK, IInv, HistoryBelowLimit,
                      NEW s \in SessionId, NEW x \in messages
               PROVE  Cardinality(Dialogue(s, x.generation)) <= MaxMessages + 1
    BY DEF GenerationBounded
  <2> DEFINE g == x.generation
             D == Dialogue(s, g)
             Before(m) == {n \in D : n.seq < m.seq}
  <2>1. IsFiniteSet(D) /\ \A m \in D : m \in messages /\ m.seq \in Nat
    BY FS_Subset DEF Dialogue, HistoryBelowLimit, TypeOK, Message
  <2>2. Cardinality(D) \in Nat /\ MaxMessages \in Nat
    BY <2>1, FS_CardinalityType, ConfigAssumption
  <2>3. CASE D = {}
    BY <2>3, FS_EmptySet, ConfigAssumption
  <2>4. ASSUME NEW u \in D, u.role = "user"
        PROVE  /\ IsFiniteSet(Before(u))
               /\ Cardinality(Before(u)) < MaxMessages
               /\ Cardinality(Before(u)) \in Nat
    <3>1. /\ u.of \in Request
          /\ Asked(u.of)
          /\ u = UserMessage(u.of)
      BY <2>1, <2>4 DEF IInv, Origins, TypeOK, Message
    <3>2. history[u.of] = {n \in Dialogue(sid[u.of], loaded[u.of].generation) :
                              n.seq < seq[u.of]}
      BY <3>1 DEF IInv, HistoryIsDialogue
    <3>3. sid[u.of] = s /\ loaded[u.of].generation = g /\ seq[u.of] = u.seq
      BY <3>1 DEF UserMessage, Dialogue
    <3>4. history[u.of] = Before(u)
      BY <3>2, <3>3
    <3> HIDE DEF Before
    <3> QED
      BY <3>1, <3>4, FS_CardinalityType DEF HistoryBelowLimit
  <2>5. ASSUME NEW t \in D, \A m \in D : m.seq <= t.seq
        PROVE  Cardinality(D) <= MaxMessages + 1
    <3>1. \A m, n \in D : m.seq = n.seq => m = n
      BY DEF Dialogue, IInv, LogIsASequence, UniqueSeq
    <3>2. CASE t.role = "user"
      <4>1. D = Before(t) \cup {t}
        BY <2>1, <2>5, <3>1
      <4> HIDE DEF D, Before
      <4>2. Cardinality(Before(t) \cup {t}) <= Cardinality(Before(t)) + 1
        BY <2>4, <3>2, AddOne
      <4> QED
        BY <2>4, <2>2, <3>2, <4>1, <4>2
    <3>3. CASE t.role = "assistant"
      <4>1. PICK u \in D : u.role = "user" /\ u.seq + 1 = t.seq
        <5>1. UserMessage(t.of) \in messages
          BY <2>1 DEF IInv, Origins, Asked
        <5>2. /\ UserMessage(t.of).session = t.session
              /\ UserMessage(t.of).generation = t.generation
              /\ UserMessage(t.of).role = "user"
              /\ UserMessage(t.of).seq + 1 = t.seq
          BY <2>1, <3>3 DEF IInv, Origins, UserMessage
        <5> QED
          BY <5>1, <5>2 DEF Dialogue
      <4>2. D = (Before(u) \cup {u}) \cup {t}
        BY <2>1, <2>5, <3>1, <4>1
      <4> HIDE DEF D, Before
      <4>3. /\ IsFiniteSet(Before(u) \cup {u})
            /\ Cardinality(Before(u) \cup {u}) <= Cardinality(Before(u)) + 1
            /\ Cardinality(Before(u) \cup {u}) \in Nat
        BY <2>4, <4>1, AddOne
      <4>4. Cardinality((Before(u) \cup {u}) \cup {t})
               <= Cardinality(Before(u) \cup {u}) + 1
        BY <4>3, AddOne
      <4> QED
        BY <2>4, <2>2, <4>1, <4>2, <4>3, <4>4
    <3> QED
      BY <2>1, <3>2, <3>3 DEF TypeOK, Message
  <2>6. CASE D # {}
    <3> SUFFICES Cardinality(D) <= MaxMessages + 1
      BY DEF D
    <3> HIDE DEF D
    <3> DEFINE rank == [m \in D |-> m.seq]
    <3>1. rank \in [D -> Int]
      BY <2>1
    <3>2. \E t \in D : \A m \in D : rank[m] <= rank[t]
      <4> HIDE DEF rank
      <4> QED
        BY <2>1, <2>6, <3>1, GreatestRank
    <3>3. PICK t \in D : \A m \in D : m.seq <= t.seq
      BY <3>2
    <3> QED
      BY <2>5, <3>3
  <2> QED
    BY <2>3, <2>6
<1> QED
  BY <1>1, HistoryInvariance, Invariance, TypeCorrect, PTL

-----------------------------------------------------------------------------
(* Why the model leaves no wait and no refusal out.                        *)

\* The question of an exchange never meets a stored message in its slot, and
\* at most one reply of a session is past the unique index: the statements
\* that store a question, a reply's usage and the totals wait for nothing but
\* what WaitsFor, below, lists.
OneWriterPerSlot ==
    /\ \A r \in Request : pc[r] = "read" => ~SlotTaken(sid[r], seq[r])
    /\ \A r, q \in Request :
          /\ r # q
          /\ sid[r] = sid[q]
          /\ pc[r] \in {"inserted", "charging"}
          => pc[q] \notin {"inserted", "charging"}

\* The position that a question was given under the lock is still free when it
\* is stored, and two replies of a session are never being charged at once, so
\* their updates of the session row cannot overwrite each other.
THEOREM NoTwoWritersMeet == Spec => []OneWriterPerSlot
<1>1. TypeOK /\ IInv => OneWriterPerSlot
  <2> SUFFICES ASSUME TypeOK, IInv PROVE OneWriterPerSlot
    OBVIOUS
  <2>1. ASSUME NEW r \in Request, pc[r] = "read", SlotTaken(sid[r], seq[r])
        PROVE  FALSE
    <3>1. seq[r] \in SeqsInUse(sid[r])
      BY <2>1 DEF SlotTaken, SeqsInUse
    <3>2. seq[r] < seq[r]
      BY <2>1, <3>1 DEF IInv, ClaimIsNext, IsNextSeq
    <3> QED
      BY <3>2 DEF TypeOK
  <2>2. ASSUME NEW r \in Request, NEW q \in Request, r # q, sid[r] = sid[q],
               pc[r] \in {"inserted", "charging"},
               pc[q] \in {"inserted", "charging"}
        PROVE  FALSE
    <3>1. /\ UserMessage(r) \in messages /\ UserMessage(q) \in messages
          /\ LastAsked(r) /\ LastAsked(q)
      BY <2>2 DEF IInv, Origins, AnswerSlot, Awaiting, Asked
    <3>2. /\ UserMessage(r).session = sid[r] /\ UserMessage(r).seq = seq[r]
          /\ UserMessage(q).session = sid[q] /\ UserMessage(q).seq = seq[q]
          /\ UserMessage(r).of = r /\ UserMessage(q).of = q
      BY DEF UserMessage
    <3>3. seq[r] <= seq[q] /\ seq[q] <= seq[r] /\ seq[r] \in Nat /\ seq[q] \in Nat
      BY <2>2, <3>1, <3>2 DEF LastAsked, TypeOK
    <3>4. UserMessage(r) = UserMessage(q)
      BY <2>2, <3>1, <3>2, <3>3 DEF IInv, LogIsASequence, UniqueSeq
    <3> QED
      BY <2>2, <3>2, <3>4
  <2> QED
    BY <2>1, <2>2 DEF OneWriterPerSlot
<1> QED
  BY <1>1, Invariance, TypeCorrect, PTL

-----------------------------------------------------------------------------
(* Nobody waits for ever for somebody who waits, too.                      *)
(*                                                                         *)
(* What EveryCallAnswered rests on besides fairness: every step of a call  *)
(* takes it closer to its end, no wait ends at a call that waits, except   *)
(* in the cycle that DeadlockVictim breaks, and so a call that is under    *)
(* way can go on or waits for one that can.                                *)

\* r waits for what the open transaction of q holds: the row lock of their
\* session, or a slot of the unique index.
WaitsFor(r, q) ==
    /\ r # q
    /\ sid[r] = sid[q]
    /\ \/ /\ pc[r] \in {"wait_send", "wait_reset"}
          /\ sid[r] \in created
          /\ pc[q] \in Exclusive \cup {"charging"}
       \/ /\ pc[r] = "inserted"
          /\ pc[q] \in Exclusive
       \/ /\ pc[r] = "read"
          /\ pc[q] \in {"inserted", "charging"}
          /\ seq[r] = seq[q] + 1

InCycle(r) == \E q \in Request : WaitCycle(r, q) \/ WaitCycle(q, r)

\* No wait ends at a call that waits, except in a cycle of two.
WaitsEnd ==
    \A r, q, t \in Request : WaitsFor(r, q) /\ WaitsFor(q, t) => InCycle(q)

NextSeqExists(r) ==
    \E n \in {1} \cup {k + 1 : k \in SeqsInUse(sid[r])} : IsNextSeq(sid[r], n)

\* One of the actions of Step(r) can happen: their guards, in the order of
\* the handler.
CanStep(r) ==
    \/ /\ pc[r] \in {"wait_send", "wait_reset"}
       /\ sid[r] \in created => CanLockForUpdate(r)
    \/ /\ pc[r] = "locked"
       /\ ModelAccepted(r) /\ ~AtLimit(r) => NextSeqExists(r)
    \/ pc[r] = "read" /\ ~SlotPending(sid[r], seq[r])
    \/ pc[r] \in {"stored", "calling", "answered", "charging", "resetting"}
    \/ pc[r] = "inserted" /\ CanLockForKeyShare(r)
    \/ InCycle(r)

\* A call under way can go on, or waits for one that can.
NobodyIsStuck ==
    \A r \in Request : pc[r] \notin {"idle", "done"} =>
        \/ CanStep(r)
        \/ \E q \in Request : WaitsFor(r, q) /\ CanStep(q)

\* Chains of waits have one link, except where a sender and a late reply wait
\* for each other: row locks and the unique index admit no other deadlock, so
\* DeadlockVictim, which knows no other, breaks every one there can be.
THEOREM OnlyOneKindOfDeadlock == Spec => []WaitsEnd
<1>1. IInv => WaitsEnd
  <2> SUFFICES ASSUME IInv, NEW r \in Request, NEW q \in Request,
                      NEW t \in Request, WaitsFor(r, q), WaitsFor(q, t)
               PROVE  InCycle(q)
    BY DEF WaitsEnd
  <2>1. CASE pc[q] = "read"
    <3>1. /\ pc[t] \in {"inserted", "charging"}
          /\ sid[q] = sid[t] /\ q # t /\ seq[q] = seq[t] + 1
      BY <2>1 DEF WaitsFor
    <3>2. pc[t] # "charging"
      BY <2>1, <3>1 DEF IInv, LockExclusive, Exclusive
    <3> QED
      BY <2>1, <3>1, <3>2 DEF InCycle, WaitCycle
  <2>2. CASE pc[q] = "inserted"
    <3>1. pc[r] = "read" /\ seq[r] = seq[q] + 1 /\ sid[r] = sid[q]
      BY <2>2 DEF WaitsFor, Exclusive
    <3> QED
      BY <2>2, <3>1 DEF InCycle, WaitCycle
  <2> QED
    BY <2>1, <2>2 DEF WaitsFor, Exclusive
<1> QED
  BY <1>1, Invariance, PTL

\* next_seq finds a position, however many messages the session has.
LEMMA APositionFollows ==
    ASSUME TypeOK, HistoryBelowLimit, NEW r \in Request
    PROVE  NextSeqExists(r)
<1> DEFINE D == {m \in messages : m.session = sid[r]}
           rank == [m \in D |-> m.seq]
<1>1. IsFiniteSet(D) /\ rank \in [D -> Int] /\ \A m \in D : m.seq \in Nat
  BY FS_Subset DEF HistoryBelowLimit, TypeOK, Message
<1>2. SeqsInUse(sid[r]) = {m.seq : m \in D}
  BY DEF SeqsInUse
<1>3. CASE D = {}
  BY <1>2, <1>3 DEF NextSeqExists, IsNextSeq
<1>4. CASE D # {}
  <2>1. \E t \in D : \A m \in D : rank[m] <= rank[t]
    <3> HIDE DEF D, rank
    <3> QED
      BY <1>1, <1>4, GreatestRank
  <2>2. PICK t \in D : \A m \in D : m.seq <= t.seq
    BY <2>1
  <2>3. /\ t.seq + 1 \in {k + 1 : k \in SeqsInUse(sid[r])}
        /\ \A k \in SeqsInUse(sid[r]) : k < t.seq + 1
    BY <1>1, <1>2, <2>2
  <2> QED
    BY <2>3 DEF NextSeqExists, IsNextSeq
<1> QED
  BY <1>3, <1>4

\* Whoever holds the row lock can go on, if need be as a victim.
LEMMA HoldersCanStep ==
    ASSUME TypeOK, IInv, HistoryBelowLimit, NEW q \in Request,
           pc[q] \in Exclusive \cup {"charging"}
    PROVE  CanStep(q)
<1>1. CASE pc[q] = "read"
  <2>1. CASE SlotPending(sid[q], seq[q])
    <3>1. PICK t \in Request : /\ pc[t] \in {"inserted", "charging"}
                               /\ sid[t] = sid[q]
                               /\ seq[t] + 1 = seq[q]
      BY <2>1 DEF SlotPending
    <3>2. t # q /\ pc[t] # "charging"
      BY <1>1, <3>1 DEF IInv, LockExclusive, Exclusive
    <3> QED
      BY <1>1, <3>1, <3>2 DEF CanStep, InCycle, WaitCycle
  <2> QED
    BY <1>1, <2>1 DEF CanStep
<1>2. CASE pc[q] = "locked"
  BY <1>2, APositionFollows DEF CanStep
<1> QED
  BY <1>1, <1>2 DEF CanStep, Exclusive

\* A call under way can go on or waits for one that can: with the detector, no
\* set of calls ever waits for one another only.
THEOREM SomebodyCanGoOn == Spec => []NobodyIsStuck
<1>1. TypeOK /\ IInv /\ HistoryBelowLimit => NobodyIsStuck
  <2> SUFFICES ASSUME TypeOK, IInv, HistoryBelowLimit, NEW r \in Request,
                      pc[r] \notin {"idle", "done"}, ~CanStep(r)
               PROVE  \E q \in Request : WaitsFor(r, q) /\ CanStep(q)
    BY DEF NobodyIsStuck
  <2>1. CASE pc[r] \in {"wait_send", "wait_reset"}
    <3>1. sid[r] \in created /\ ~CanLockForUpdate(r)
      BY <2>1 DEF CanStep
    <3>2. PICK q \in Request \ {r} : /\ sid[q] = sid[r]
                                     /\ pc[q] \in Exclusive \cup {"charging"}
      BY <3>1 DEF CanLockForUpdate, ExclusivelyLocked, ShareLocked
    <3> QED
      BY <2>1, <3>1, <3>2, HoldersCanStep DEF WaitsFor
  <2>2. CASE pc[r] = "inserted"
    <3>1. PICK q \in Request \ {r} : sid[q] = sid[r] /\ pc[q] \in Exclusive
      BY <2>2 DEF CanStep, CanLockForKeyShare, ExclusivelyLocked
    <3> QED
      BY <2>2, <3>1, HoldersCanStep DEF WaitsFor
  <2>3. CASE pc[r] \in Exclusive
    BY <2>3, HoldersCanStep
  <2> QED
    BY <2>1, <2>2, <2>3 DEF CanStep, Exclusive, TypeOK, SendStep, ResetStep
<1> QED
  BY <1>1, HistoryInvariance, Invariance, TypeCorrect, PTL

\* How far a call has come.
Stage(label) ==
    CASE label = "idle" -> 0
      [] label \in {"wait_send", "wait_reset"} -> 1
      [] label \in {"locked", "resetting"} -> 2
      [] label = "read" -> 3
      [] label = "stored" -> 4
      [] label = "calling" -> 5
      [] label = "answered" -> 6
      [] label = "inserted" -> 7
      [] label = "charging" -> 8
      [] label = "done" -> 9

\* A call only moves forward, and a step of its own does move it.
CallsMoveForward ==
    \A r \in Request :
        /\ pc'[r] = pc[r] \/ Stage(pc[r]) < Stage(pc'[r])
        /\ Step(r) => pc'[r] # pc[r]

\* No handler ever goes back, whatever fails, is aborted or restarts: a call
\* ends after at most nine steps.
THEOREM CallsEndAfterNineSteps == Spec => [][CallsMoveForward]_vars
<1>1. TypeOK /\ [Next]_vars => [CallsMoveForward]_vars
  <2> SUFFICES ASSUME TypeOK, Next PROVE CallsMoveForward
    OBVIOUS
  <2>1. pc \in [Request -> {"idle", "done"} \cup SendStep \cup ResetStep]
    BY DEF TypeOK
  <2> USE DEF Goto, Finish
  <2>2. ASSUME NEW r \in Request,
               \/ \E s \in SessionId : ReceiveReset(r, s)
               \/ \E s \in SessionId, m \in Model \cup {NoModel} :
                     ReceiveMessage(r, s, m)
               \/ RejectContent(r) \/ Step(r) \/ DatabaseFails(r)
        PROVE  /\ \A q \in Request \ {r} : pc'[q] = pc[q]
               /\ Stage(pc[r]) < Stage(pc'[r])
    <3>1. CASE \/ \E s \in SessionId : ReceiveReset(r, s)
               \/ \E s \in SessionId, m \in Model \cup {NoModel} :
                     ReceiveMessage(r, s, m)
               \/ RejectContent(r)
      BY <2>1, <3>1 DEF ReceiveReset, ReceiveMessage, RejectContent, Stage
    <3>2. CASE \/ LockForSend(r) \/ ReadHistory(r) \/ StoreUserMessage(r)
               \/ CallProvider(r) \/ ProviderReplies(r) \/ InsertReply(r)
               \/ LockForReply(r) \/ LockForReset(r)
      BY <2>1, <3>2 DEF LockForSend, LockForReset, LockRow, ReadHistory,
         StoreUserMessage, CallProvider, ProviderReplies, InsertReply,
         LockForReply, Stage
    <3>3. CASE \/ SessionNotFound(r) \/ RejectModel(r) \/ RejectAtLimit(r)
               \/ RejectUnpriced(r) \/ ProviderFails(r) \/ ReplySlotTaken(r)
               \/ CommitExchange(r) \/ ResetNothing(r) \/ StartNewGeneration(r)
               \/ DeadlockVictim(r) \/ DatabaseFails(r)
      <4>1. pc[r] \in SendStep \cup ResetStep /\ pc' = [pc EXCEPT ![r] = "done"]
        BY <3>3 DEF SessionNotFound, RejectModel, RejectAtLimit, RejectUnpriced,
           ProviderFails, ReplySlotTaken, CommitExchange, ResetNothing,
           StartNewGeneration, DeadlockVictim, DatabaseFails, WaitCycle,
           SendStep, ResetStep
      <4> QED
        BY <2>1, <4>1 DEF Stage, SendStep, ResetStep
    <3> QED
      BY <2>2, <3>1, <3>2, <3>3 DEF Step
  <2>3. ASSUME NEW r \in Request PROVE ~(Stage(pc[r]) < Stage(pc[r]))
    BY <2>1 DEF Stage, SendStep, ResetStep
  <2>4. ASSUME NEW r \in Request, Step(r)
        PROVE  pc'[r] # pc[r]
    BY <2>2, <2>3, <2>4
  <2>5. ASSUME NEW q \in Request
        PROVE  pc'[q] = pc[q] \/ Stage(pc[q]) < Stage(pc'[q])
    <3>1. CASE Restart
      BY <2>1, <3>1 DEF Restart, Stage, SendStep, ResetStep
    <3>2. CASE UNCHANGED pc
      BY <3>2
    <3> QED
      BY <2>2, <3>1, <3>2
      DEF Next, CreateSession, Terminating, vars
  <2> QED
    BY <2>4, <2>5 DEF CallsMoveForward
<1> QED
  BY <1>1, TypeCorrect, PTL DEF Spec
=============================================================================
