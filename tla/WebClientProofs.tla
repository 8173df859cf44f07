-------------------------- MODULE WebClientProofs --------------------------
(***************************************************************************)
(* Proofs about WebClient, for any number of sends and sessions and any    *)
(* bound on what the user does.                                            *)
(***************************************************************************)
EXTENDS WebClient, TLAPS

\* The part of the typing that belongs to the service.
ServiceTyped == /\ opened \subseteq SessionId
                /\ generation \in [SessionId -> Nat]
                /\ log \subseteq Turn

Typed == WebTypeOK /\ ServiceTyped

-----------------------------------------------------------------------------
(* What the three ways to change "call" do to each field.                  *)

LEMMA AnswerEffect ==
    ASSUME NEW f \in [Cause -> Call], NEW c \in Cause,
           NEW a \in ServiceAnswer
    PROVE  LET g == [f EXCEPT ![c].answer = a]
           IN  /\ g \in [Cause -> Call]
               /\ \A d \in Cause :
                     /\ g[d].step = f[d].step
                     /\ g[d].answer = IF d = c THEN a ELSE f[d].answer
<1> DEFINE x == [f[c] EXCEPT !.answer = a]
           g == [f EXCEPT ![c] = x]
<1>1. /\ x \in Call
      /\ x.step = f[c].step
      /\ x.answer = a
  BY DEF Call
<1>2. [f EXCEPT ![c].answer = a] = g
  OBVIOUS
<1> HIDE DEF x
<1>3. \A d \in Cause : g[d] = IF d = c THEN x ELSE f[d]
  OBVIOUS
<1>4. g \in [Cause -> Call]
  BY <1>1
<1> QED
  BY <1>1, <1>2, <1>3, <1>4

LEMMA FetchEffect ==
    ASSUME NEW f \in [Cause -> Call], NEW c \in Cause, NEW x \in Call
    PROVE  LET g == [f EXCEPT ![c] = x]
           IN  /\ g \in [Cause -> Call]
               /\ \A d \in Cause : g[d] = IF d = c THEN x ELSE f[d]
  OBVIOUS

LEMMA ReturnEffect ==
    ASSUME NEW f \in [Cause -> Call], NEW c \in Cause, NEW st \in Step
    PROVE  LET g == [f EXCEPT ![c].step = st, ![c].answer = NoAnswer]
           IN  /\ g \in [Cause -> Call]
               /\ \A d \in Cause :
                     /\ g[d].step = IF d = c THEN st ELSE f[d].step
                     /\ g[d].answer = IF d = c THEN NoAnswer ELSE f[d].answer
<1> DEFINE w == [f[c] EXCEPT !.step = st]
           x == [w EXCEPT !.answer = NoAnswer]
           g == [f EXCEPT ![c] = x]
<1>1. NoAnswer \in ServiceAnswer
  BY DEF NoAnswer, NoThread, ServiceAnswer, Thread
<1>2. w \in Call /\ w.step = st /\ w.answer = f[c].answer
  BY DEF Call
<1> HIDE DEF w
<1>3. x \in Call /\ x.step = st /\ x.answer = NoAnswer
  BY <1>1, <1>2 DEF Call
<1>4. [f EXCEPT ![c].step = st, ![c].answer = NoAnswer] = g
  BY DEF w
<1> HIDE DEF x
<1>5. \A d \in Cause : g[d] = IF d = c THEN x ELSE f[d]
  OBVIOUS
<1>6. g \in [Cause -> Call]
  BY <1>3
<1> QED
  BY <1>3, <1>4, <1>5, <1>6

-----------------------------------------------------------------------------
(* The page as a client: each of its steps is one that the service         *)
(* promises, or leaves the service alone.                                  *)

LEMMA ServiceTypePreserved == ServiceTyped /\ [Next]_vars => ServiceTyped'
<1> SUFFICES ASSUME ServiceTyped, [Next]_vars PROVE ServiceTyped'
  OBVIOUS
<1> USE DEF ServiceTyped
<1>1. CASE UNCHANGED vars
  BY <1>1 DEF vars
<1>2. ASSUME NEW s \in SessionId, Open(s) PROVE ServiceTyped'
  BY <1>2 DEF Open
<1>3. ASSUME NEW s \in SessionId, Reset(s) PROVE ServiceTyped'
  BY <1>3 DEF Reset
<1>4. ASSUME NEW s \in SessionId, NEW r \in Request, Ask(s, r)
      PROVE  ServiceTyped'
  <2>1. PICK n \in {1} \cup {m.seq + 1 : m \in Turns(s)} :
             log' = log \cup {Question(s, n, generation[s], r)}
    BY <1>4 DEF Ask
  <2>2. n \in Nat
    BY DEF Turns, Turn
  <2>3. Question(s, n, generation[s], r) \in Turn
    BY <2>2 DEF Question, Turn
  <2> QED
    BY <1>4, <2>1, <2>3 DEF Ask
<1>5. ASSUME NEW s \in SessionId, NEW r \in Request, Answer(s, r)
      PROVE  ServiceTyped'
  <2>1. PICK q \in Turns(s), st \in {"complete", "failed"} :
             log' = log \cup {ReplyTo(q, st)}
    BY <1>5 DEF Answer
  <2>2. ReplyTo(q, st) \in Turn
    BY DEF Turns, Turn, ReplyTo
  <2> QED
    BY <1>5, <2>1, <2>2 DEF Answer
<1> QED
  BY <1>1, <1>2, <1>3, <1>4, <1>5 DEF Next

LEMMA ClientStep == Typed /\ [WebNext]_webVars => [Next]_vars
<1> SUFFICES ASSUME Typed, [WebNext]_webVars PROVE [Next]_vars
  OBVIOUS
<1> USE DEF Typed, WebTypeOK, ServiceTyped
<1>1. ASSUME NEW c \in Cause, ServeCreate(c) PROVE [Next]_vars
  BY <1>1 DEF ServeCreate, Next
<1>2. CASE ServeReset
  <2>1. "reset" \in Cause /\ call["reset"] \in Call
    BY DEF Cause
  <2>2. CASE Reset(call["reset"].session)
    <3>1. call["reset"].session \in SessionId
      BY <1>2, <2>2 DEF Reset, Turns, Turn
    <3> QED
      BY <2>2, <3>1 DEF Next
  <2> QED
    BY <1>2, <2>2 DEF ServeReset
<1>3. ASSUME NEW r \in Request, ServeQuestion(r) PROVE [Next]_vars
  <2>1. call[r].session \in SessionId
    BY <1>3 DEF ServeQuestion, Ask
  <2> QED
    BY <1>3, <2>1 DEF ServeQuestion, Next
<1>4. ASSUME NEW r \in Request, ServeReply(r) PROVE [Next]_vars
  <2>1. call[r].session \in SessionId
    BY <1>4 DEF ServeReply, Answer, Turns, Turn
  <2> QED
    BY <1>4, <2>1 DEF ServeReply, Next
<1>5. ASSUME NEW c \in Cause, RejectKey(c) \/ ServeLoad(c) \/ Lose(c)
      PROVE  UNCHANGED vars
  BY <1>5 DEF RejectKey, ServeLoad, Lose
<1>6. ASSUME NEW r \in Request,
             ServeFailure(r) \/ SendSucceeded(r) \/ SendFailed(r) \/ Send(r)
      PROVE  UNCHANGED vars
  BY <1>6 DEF ServeFailure, SendSucceeded, SendFailed, Send, serviceVars
<1>7. ASSUME NEW c \in Cause,
             Loaded(c) \/ LoadedNothing(c) \/ Created(c) \/ LoadFailed(c)
      PROVE  UNCHANGED vars
  BY <1>7 DEF Loaded, LoadedNothing, Created, LoadFailed, serviceVars
<1>8. CASE \/ ResetSucceeded \/ ResetFailed \/ ResetClicked \/ Reload
           \/ \E k \in Click : NewClicked(k) \/ KeyApplied(k)
  BY <1>8 DEF ResetSucceeded, ResetFailed, ResetClicked, NewClicked,
              KeyApplied, Reload, serviceVars
<1>9. CASE UNCHANGED webVars
  BY <1>9 DEF webVars, serviceVars, vars
<1>10. ASSUME NEW u \in unheard, ServeUnheard(u) PROVE [Next]_vars
  <2>1. CASE Reset(u.session)
    <3>1. u.session \in SessionId
      BY <2>1 DEF Reset, Turns, Turn
    <3> QED
      BY <2>1, <3>1 DEF Next
  <2> QED
    BY <1>10, <2>1 DEF ServeUnheard, Next
<1> QED
  BY <1>1, <1>2, <1>3, <1>4, <1>5, <1>6, <1>7, <1>8, <1>9, <1>10
     DEF WebNext, Progress, UserActs

-----------------------------------------------------------------------------
(* Typing.                                                                 *)

LEMMA AnswersTyped ==
    /\ NoAnswer \in ServiceAnswer
    /\ \A kind \in {"error", "not_found"} : Refusal(kind) \in ServiceAnswer
    /\ \A s \in SessionId, turns \in SUBSET Turn :
          Reply(s, turns) \in ServiceAnswer
  BY DEF NoAnswer, Refusal, Reply, NoThread, ServiceAnswer, Thread

LEMMA FetchTyped ==
    \A step \in Step, s \in SessionId \cup {NoSession, Stale}, key \in BOOLEAN :
        Fetch(step, s, key) \in Call
<1> SUFFICES ASSUME NEW step \in Step,
                    NEW s \in SessionId \cup {NoSession, Stale},
                    NEW key \in BOOLEAN
             PROVE  Fetch(step, s, key) \in Call
  OBVIOUS
<1>1. NoAnswer \in ServiceAnswer
  BY AnswersTyped
<1> QED
  BY <1>1 DEF Fetch, Call

LEMMA LoadTyped ==
    ASSUME WebTypeOK
    PROVE  /\ LoadSession(session) \in Call
           /\ LoadSession(session).step \in Renders
           /\ LoadSession(session).answer = NoAnswer
           /\ \A key \in BOOLEAN :
                 LET f == [LoadSession(session) EXCEPT !.key = key]
                 IN  /\ f \in Call
                     /\ f.step \in Renders
                     /\ f.answer = NoAnswer
<1>1. LoadSession(session) \in Call
  BY FetchTyped DEF LoadSession, WebTypeOK, Step
<1>2. /\ LoadSession(session).step \in Renders
      /\ LoadSession(session).answer = NoAnswer
  BY DEF LoadSession, Fetch, Renders
<1> DEFINE x == LoadSession(session)
<1> HIDE DEF x
<1>3. x \in Call => \A key \in BOOLEAN :
                       LET f == [x EXCEPT !.key = key]
                       IN  f \in Call /\ f.step = x.step /\ f.answer = x.answer
  BY DEF Call
<1> QED
  BY <1>1, <1>2, <1>3 DEF x

\* Each kind of step keeps call well typed.
LEMMA CallTyped ==
    ASSUME Typed, NEW c \in Cause
    PROVE  /\ \A a \in ServiceAnswer : Told(c, a) => (call \in [Cause -> Call])'
           /\ \A x \in Call :
                 Begin(c, x) => /\ (call \in [Cause -> Call])'
                                /\ marred' \in BOOLEAN
           /\ Return(c) => /\ (call \in [Cause -> Call])'
                           /\ enabled' \in BOOLEAN
<1>1. call \in [Cause -> Call] /\ marred \in BOOLEAN /\ enabled \in BOOLEAN
  BY DEF Typed, WebTypeOK
<1>2. ASSUME NEW a \in ServiceAnswer, Told(c, a)
      PROVE  (call \in [Cause -> Call])'
  BY <1>1, <1>2, AnswerEffect DEF Told
<1>3. ASSUME NEW x \in Call, Begin(c, x)
      PROVE  (call \in [Cause -> Call])' /\ marred' \in BOOLEAN
  BY <1>1, <1>3, FetchEffect DEF Begin
<1>4. ASSUME Return(c)
      PROVE  (call \in [Cause -> Call])' /\ enabled' \in BOOLEAN
  <2>1. (IF c \in Request THEN "over" ELSE "idle") \in Step
    BY DEF Step
  <2> QED
    BY <1>1, <1>4, <2>1, ReturnEffect DEF Return
<1> QED
  BY <1>2, <1>3, <1>4

LEMMA AnswerBodyTyped ==
    ASSUME Typed, NEW c \in Cause
    PROVE  /\ call[c] \in Call
           /\ call[c].answer.body \in Thread
           /\ call[c].answer.body.session \in SessionId \cup {NoSession}
  BY DEF Typed, WebTypeOK, Call, ServiceAnswer, Thread

LEMMA UnhandledTyped ==
    ASSUME Typed, NEW C \in SUBSET Cause
    PROVE  Unhandled(C) \subseteq Unheard
BY DEF Unhandled, Unheard, Typed, WebTypeOK, Call

LEMMA WebTypeStep == Typed /\ [WebNext]_webVars => WebTypeOK'
<1> SUFFICES ASSUME Typed, [WebNext]_webVars PROVE WebTypeOK'
  OBVIOUS
<1>1. WebTypeOK /\ ServiceTyped
  BY DEF Typed
<1>2. /\ \A r \in Request : r \in Cause
      /\ \A k \in Click : k \in Cause
      /\ "reset" \in Cause
      /\ "open" \in Cause
  BY DEF Cause
<1>3. /\ NoThread \in Thread
      /\ {} \in SUBSET Turn
      /\ \A t \in SessionId : ActiveTurns(t) \in SUBSET Turn
  BY <1>1 DEF NoThread, Thread, ServiceTyped, ActiveTurns, Turns
<1> USE DEF WebTypeOK, ServiceOnly, serviceVars
<1>4. ASSUME NEW c \in Cause, RejectKey(c) PROVE WebTypeOK'
  BY <1>1, <1>4, CallTyped, AnswersTyped DEF RejectKey
<1>5. ASSUME NEW c \in Cause, ServeLoad(c) PROVE WebTypeOK'
  <2>1. PICK a \in ServiceAnswer : Told(c, a)
    <3>1. CASE call[c].session \in opened
      <4>1. call[c].session \in SessionId
        BY <1>1, <3>1 DEF ServiceTyped
      <4>2. Reply(call[c].session, Shown(call[c].session)) \in ServiceAnswer
        BY <1>3, <4>1, AnswersTyped DEF Shown
      <4> QED
        BY <1>5, <3>1, <4>2 DEF ServeLoad
    <3>2. CASE call[c].session \notin opened
      BY <1>5, <3>2, AnswersTyped DEF ServeLoad
    <3> QED
      BY <3>1, <3>2
  <2> QED
    BY <1>1, <1>5, <2>1, CallTyped DEF ServeLoad
<1>6. ASSUME NEW c \in Cause, ServeCreate(c) PROVE WebTypeOK'
  <2>1. PICK a \in ServiceAnswer : Told(c, a)
    BY <1>3, <1>6, AnswersTyped DEF ServeCreate
  <2> QED
    BY <1>1, <1>6, <2>1, CallTyped DEF ServeCreate
<1>7. CASE ServeReset
  <2>1. PICK a \in ServiceAnswer : Told("reset", a)
    <3>1. CASE call["reset"].session \in opened
      <4>1. Reply(call["reset"].session, {}) \in ServiceAnswer
        BY <1>1, <1>3, <3>1, AnswersTyped DEF ServiceTyped
      <4> QED
        BY <1>7, <3>1, <4>1 DEF ServeReset
    <3>2. CASE call["reset"].session \notin opened
      BY <1>7, <3>2, AnswersTyped DEF ServeReset
    <3> QED
      BY <3>1, <3>2
  <2> QED
    BY <1>1, <1>2, <1>7, <2>1, CallTyped DEF ServeReset
<1>8. ASSUME NEW r \in Request, NEW a \in ServiceAnswer, End(r, a)
      PROVE  WebTypeOK'
  <2>1. (call \in [Cause -> Call])'
    BY <1>1, <1>2, <1>8, CallTyped DEF End, Told
  <2> QED
    BY <1>1, <1>8, <2>1 DEF End
<1>9. ASSUME NEW r \in Request, ServeReply(r) PROVE WebTypeOK'
  <2>1. call[r].session \in SessionId
    BY <1>1, <1>9 DEF ServeReply, Answer, Turns, Turn, ServiceTyped
  <2>2. \E a \in ServiceAnswer : End(r, a)
    <3>1. Reply(call[r].session, {}) \in ServiceAnswer
      BY <1>3, <2>1, AnswersTyped
    <3> QED
      BY <1>9, <3>1, AnswersTyped DEF ServeReply
  <2> QED
    BY <1>8, <2>2
<1>10. ASSUME NEW r \in Request, ServeFailure(r) PROVE WebTypeOK'
  BY <1>8, <1>10, AnswersTyped DEF ServeFailure
<1>11. ASSUME NEW r \in Request, ServeQuestion(r) PROVE WebTypeOK'
  BY <1>1, <1>11 DEF ServeQuestion, pageVars
<1>12. ASSUME NEW c \in Cause, Lose(c) PROVE WebTypeOK'
  <2>1. unheard' \subseteq Unheard
    <3>1. Unhandled({c}) \subseteq Unheard
      BY UnhandledTyped
    <3> QED
      BY <1>1, <1>12, <3>1 DEF Lose
  <2>2. (call \in [Cause -> Call])'
    BY <1>12, CallTyped, AnswersTyped DEF Lose
  <2>3. acts' \in 0 .. MaxActs
    BY <1>1, <1>12, WebAssumption DEF Lose, Acts
  <2> QED
    BY <1>1, <1>12, <2>1, <2>2, <2>3 DEF Lose
<1>13. ASSUME NEW r \in Request, Send(r) PROVE WebTypeOK'
  <2>1. Fetch("sending", session, authorised) \in Call
    BY <1>1, FetchTyped DEF Step
  <2> QED
    BY <1>1, <1>2, <1>13, <2>1, CallTyped DEF Send
<1>14. ASSUME NEW r \in Request, SendSucceeded(r) PROVE WebTypeOK'
  BY <1>1, <1>2, <1>14, CallTyped, LoadTyped DEF SendSucceeded, NoRender
<1>15. ASSUME NEW r \in Request, SendFailed(r) PROVE WebTypeOK'
  BY <1>1, <1>2, <1>15, CallTyped DEF SendFailed
<1>16. ASSUME NEW c \in Cause, Loaded(c) PROVE WebTypeOK'
  BY <1>1, <1>16, CallTyped, AnswerBodyTyped DEF Loaded, Render
<1>17. ASSUME NEW c \in Cause, LoadedNothing(c) PROVE WebTypeOK'
  <2>1. Fetch("creating", NoSession, authorised) \in Call
    BY <1>1, FetchTyped DEF Step
  <2> QED
    BY <1>1, <1>17, <2>1, CallTyped DEF LoadedNothing, NoRender
<1>18. ASSUME NEW c \in Cause, Created(c) PROVE WebTypeOK'
  BY <1>1, <1>18, CallTyped, AnswerBodyTyped DEF Created, Render
<1>19. ASSUME NEW c \in Cause, LoadFailed(c) PROVE WebTypeOK'
  BY <1>1, <1>19, CallTyped DEF LoadFailed, NoRender
<1>20. CASE ResetClicked
  <2>1. Fetch("resetting", session, authorised) \in Call
    BY <1>1, FetchTyped DEF Step
  <2> QED
    BY <1>1, <1>2, <1>20, <2>1, CallTyped, WebAssumption
       DEF ResetClicked, NoRender, Acts
<1>21. CASE ResetSucceeded
  BY <1>1, <1>2, <1>21, CallTyped, LoadTyped DEF ResetSucceeded, NoRender
<1>22. CASE ResetFailed
  BY <1>1, <1>2, <1>22, CallTyped DEF ResetFailed, NoRender
<1>23. ASSUME NEW k \in Click, NewClicked(k) PROVE WebTypeOK'
  <2>1. Fetch("creating", NoSession, authorised) \in Call
    BY <1>1, FetchTyped DEF Step
  <2> QED
    BY <1>1, <1>2, <1>23, <2>1, CallTyped, WebAssumption
       DEF NewClicked, NoRender, Acts
<1>24. ASSUME NEW k \in Click, KeyApplied(k) PROVE WebTypeOK'
  <2>1. authorised' \in BOOLEAN
    BY <1>24 DEF KeyApplied
  <2>2. (call \in [Cause -> Call])' /\ marred' \in BOOLEAN
    <3>1. CASE UNCHANGED <<call, marred>>
      BY <1>1, <3>1
    <3>2. PICK key \in BOOLEAN : authorised' = key
      BY <2>1
    <3>3. CASE Begin(k, [LoadSession(session) EXCEPT !.key = authorised'])
      <4>1. Begin(k, [LoadSession(session) EXCEPT !.key = key])
        BY <3>2, <3>3
      <4>2. [LoadSession(session) EXCEPT !.key = key] \in Call
        BY <1>1, LoadTyped
      <4> QED
        BY <1>1, <1>2, <4>1, <4>2, CallTyped
    <3> QED
      BY <1>24, <3>1, <3>3 DEF KeyApplied
  <2> QED
    BY <1>1, <1>24, <2>1, <2>2, WebAssumption DEF KeyApplied, NoRender, Acts
<1>25. CASE Reload
  <2>1. LoadSession(session) \in Call /\ Fetch("idle", NoSession, FALSE) \in Call
    BY <1>1, FetchTyped, LoadTyped DEF Step
  <2>2. ASSUME NEW c \in Cause
        PROVE  [call[c] EXCEPT !.step = "over", !.answer = NoAnswer] \in Call
    <3> DEFINE w == [call[c] EXCEPT !.step = "over"]
    <3>1. w \in Call
      BY <1>1 DEF Call, Step
    <3> HIDE DEF w
    <3>2. [w EXCEPT !.answer = NoAnswer] \in Call
      BY <3>1, AnswersTyped DEF Call
    <3> QED
      BY <3>2 DEF w
  <2>3. (call \in [Cause -> Call])'
    BY <1>25, <2>1, <2>2 DEF Reload
  <2>4. marred' \in BOOLEAN
    <3> DEFINE busy == \/ \E r \in Request : AtService(r)
                       \/ \E u \in unheard' : u.step = "resetting"
    <3>1. marred' = busy
      BY <1>25 DEF Reload
    <3>2. busy \in BOOLEAN
      OBVIOUS
    <3> QED
      BY <3>1, <3>2, Zenon
  <2>5. (acts \in 0 .. MaxActs)'
    <3>1. Acts
      BY <1>25, Zenon DEF Reload
    <3> QED
      BY <1>1, <3>1, WebAssumption DEF Acts
  <2>6. /\ thread' = NoThread /\ echoes' = {} /\ thinking' = {}
        /\ enabled' = TRUE /\ ended' = ended /\ session' = session
        /\ authorised' = authorised
    BY <1>25 DEF Reload, Render
  <2>7. /\ thread' \in Thread /\ echoes' \subseteq Request
        /\ thinking' \subseteq Request /\ ended' \subseteq Request
        /\ session' \in SessionId \cup {NoSession, Stale}
    BY <1>1, <1>3, <2>6
  <2>8. unheard' \subseteq Unheard
    BY <1>1, <1>25, UnhandledTyped DEF Reload
  <2>9. enabled' \in BOOLEAN /\ authorised' \in BOOLEAN
    BY <1>1, <2>6
  <2> QED
    BY <2>3, <2>4, <2>5, <2>7, <2>8, <2>9, Zenon
<1>26. CASE UNCHANGED webVars
  BY <1>1, <1>26 DEF webVars, serviceVars, pageVars
<1>27. ASSUME NEW u \in unheard, ServeUnheard(u) PROVE WebTypeOK'
  BY <1>1, <1>27 DEF ServeUnheard, pageVars
<1> QED
  BY <1>2, <1>4, <1>5, <1>6, <1>7, <1>9, <1>10, <1>11, <1>12, <1>13, <1>14,
     <1>15, <1>16, <1>17, <1>18, <1>19, <1>20, <1>21, <1>22, <1>23, <1>24,
     <1>25, <1>26, <1>27 DEF WebNext, Progress, UserActs

LEMMA TypedInitially == WebInit => Typed
<1> SUFFICES ASSUME WebInit PROVE Typed
  OBVIOUS
<1>1. ServiceTyped
  BY DEF WebInit, Init, ServiceTyped
<1>2. \A s \in {NoSession, Stale}, key \in BOOLEAN :
        /\ Fetch("creating", s, key) \in Call
        /\ Fetch("loading", s, key) \in Call
        /\ Fetch("idle", s, key) \in Call
  BY FetchTyped DEF Step
<1>3. call \in [Cause -> Call]
  BY <1>2 DEF WebInit, LoadSession
<1>4. NoThread \in Thread
  BY DEF NoThread, Thread
<1>5. acts \in 0 .. MaxActs
  BY WebAssumption DEF WebInit
<1> QED
  BY <1>1, <1>3, <1>4, <1>5, Zenon DEF Typed, WebTypeOK, WebInit

LEMMA TypedStep == Typed /\ [WebNext]_webVars => Typed'
  BY WebTypeStep, ClientStep, ServiceTypePreserved DEF Typed

LEMMA AlwaysTyped == WebSpec => []Typed
  BY TypedInitially, TypedStep, PTL DEF WebSpec

\* The page stays well typed: no answer of the service, in whatever order it
\* comes, leaves something other than a session id in localStorage
\* (static/index.html, loadSession and newSession).
THEOREM WebTypeCorrect == WebSpec => []WebTypeOK
<1>1. Typed => WebTypeOK
  BY DEF Typed
<1> QED
  BY <1>1, AlwaysTyped, PTL

\* The page with the service is a client of the promise: whatever it shows
\* is about a service that behaves as Conversation says, with sends that
\* overlap, answers that are lost and tabs that are reloaded.
THEOREM PageIsAClient == WebSpec => Spec
<1>1. WebInit => Init
  BY DEF WebInit
<1> QED
  BY <1>1, ClientStep, AlwaysTyped, PTL DEF WebSpec, Spec

-----------------------------------------------------------------------------
(* What one step can do to the calls and to what the page shows.           *)

\* The answers that calls hold: kept, without turns, or one dialogue as it
\* is at this moment.
AnswersMove ==
    \A d \in Cause :
        \/ call'[d].answer.body = call[d].answer.body
        \/ call'[d].answer.body.turns = {}
        \/ /\ UNCHANGED vars
           /\ \E s \in SessionId : call'[d].answer.body =
                                      [session |-> s, turns |-> ActiveTurns(s)]

\* The thread: kept, emptied, or one of the answers.
ThreadMoves == \/ thread' = thread
               \/ thread'.turns = {}
               \/ \E c \in Cause : thread' = call[c].answer.body

Moving(f, d) == f[d].step \notin {"idle", "over"}

\* A send that comes to its end enables the button, and its placeholder goes
\* or the page is marred.
SendsEnd ==
    /\ \A r \in Request : Moving(call, r) /\ ~Moving(call', r) =>
          enabled' = TRUE /\ (r \notin thinking' \/ marred' = TRUE)
    /\ enabled' = enabled \/ enabled' = TRUE \/ \E r \in Request : Moving(call', r)
    /\ \A r \in thinking' : r \in thinking \/ (r \in Request /\ Moving(call', r))
    /\ marred = TRUE => marred' = TRUE \/ thinking' = {}

\* The three ways to change call, once more, with what they are in an action.
LEMMA CallEffect ==
    ASSUME Typed, NEW c \in Cause
    PROVE  /\ \A a \in ServiceAnswer : Told(c, a) =>
                 \A d \in Cause :
                    /\ call'[d].step = call[d].step
                    /\ call'[d].answer = IF d = c THEN a ELSE call[d].answer
           /\ \A x \in Call : Begin(c, x) =>
                 /\ \A d \in Cause : call'[d] = IF d = c THEN x ELSE call[d]
                 /\ marred = TRUE => marred' = TRUE
           /\ Return(c) =>
                 /\ \A d \in Cause :
                       /\ d # c => call'[d] = call[d]
                       /\ d = c => /\ call'[d].answer = NoAnswer
                                   /\ ~Moving(call', d)
                 /\ enabled' = enabled \/ enabled' = TRUE
                 /\ c \in Request => enabled' = TRUE
<1>1. call \in [Cause -> Call] /\ marred \in BOOLEAN /\ enabled \in BOOLEAN
  BY DEF Typed, WebTypeOK
<1>2. ASSUME NEW a \in ServiceAnswer, Told(c, a)
      PROVE  \A d \in Cause :
                /\ call'[d].step = call[d].step
                /\ call'[d].answer = IF d = c THEN a ELSE call[d].answer
  BY <1>1, <1>2, AnswerEffect DEF Told
<1>3. ASSUME NEW x \in Call, Begin(c, x)
      PROVE  /\ \A d \in Cause : call'[d] = IF d = c THEN x ELSE call[d]
             /\ marred = TRUE => marred' = TRUE
  <2>1. \A d \in Cause : call'[d] = IF d = c THEN x ELSE call[d]
    BY <1>1, <1>3 DEF Begin
  <2>2. marred = TRUE => marred' = TRUE
    BY <1>3, Zenon DEF Begin
  <2> QED
    BY <2>1, <2>2
<1>4. ASSUME Return(c)
      PROVE  /\ \A d \in Cause :
                   /\ d # c => call'[d] = call[d]
                   /\ d = c => /\ call'[d].answer = NoAnswer
                               /\ ~Moving(call', d)
             /\ enabled' = enabled \/ enabled' = TRUE
             /\ c \in Request => enabled' = TRUE
  <2>1. (IF c \in Request THEN "over" ELSE "idle") \in Step \cap {"idle", "over"}
    BY DEF Step
  <2>2. \A d \in Cause :
           /\ d # c => call'[d] = call[d]
           /\ d = c => /\ call'[d].answer = NoAnswer
                       /\ ~Moving(call', d)
    BY <1>1, <1>4, <2>1, ReturnEffect DEF Return, Moving
  <2>3. /\ enabled' = enabled \/ enabled' = TRUE
        /\ c \in Request => enabled' = TRUE
    BY <1>1, <1>4 DEF Return
  <2> QED
    BY <2>2, <2>3
<1> QED
  BY <1>2, <1>3, <1>4

StepShape == AnswersMove /\ ThreadMoves /\ SendsEnd

LEMMA ShapeOfSteps == Typed /\ WebNext => StepShape
<1> SUFFICES ASSUME Typed, WebNext PROVE StepShape
  OBVIOUS
<1>1. /\ \A r \in Request : r \in Cause
      /\ \A k \in Click : k \in Cause
      /\ "reset" \in Cause
      /\ "open" \in Cause
  BY DEF Cause
<1>2. /\ NoAnswer.body.turns = {} /\ NoThread.turns = {}
      /\ \A kind \in {"error", "not_found"} : Refusal(kind).body.turns = {}
      /\ \A s \in SessionId, turns \in SUBSET Turn :
            Reply(s, turns).body = [session |-> s, turns |-> turns]
  BY DEF NoAnswer, NoThread, Refusal, Reply
<1>3. /\ thinking \subseteq Request /\ echoes \subseteq Request
      /\ marred \in BOOLEAN /\ enabled \in BOOLEAN
      /\ opened \subseteq SessionId
      /\ \A s \in SessionId : ActiveTurns(s) \in SUBSET Turn
      /\ {} \in SUBSET Turn
  BY DEF Typed, WebTypeOK, ServiceTyped, ActiveTurns, Turns
\* An answer arrives.
<1>4. ASSUME NEW c \in Cause, NEW a \in ServiceAnswer, Told(c, a),
             UNCHANGED <<thread, thinking, enabled, marred>>,
             \/ a.body.turns = {}
             \/ /\ UNCHANGED vars
                /\ \E s \in SessionId :
                      a.body = [session |-> s, turns |-> ActiveTurns(s)]
      PROVE  StepShape
  <2>1. \A d \in Cause :
           /\ call'[d].step = call[d].step
           /\ call'[d].answer = IF d = c THEN a ELSE call[d].answer
    BY <1>4, CallEffect
  <2>2. AnswersMove
    BY <1>4, <2>1 DEF AnswersMove
  <2>3. SendsEnd
    BY <1>1, <1>3, <1>4, <2>1 DEF SendsEnd, Moving
  <2> QED
    BY <1>4, <2>2, <2>3 DEF StepShape, ThreadMoves
\* A fetch begins.
<1>5. ASSUME NEW c \in Cause, NEW x \in Call, Begin(c, x),
             x.step \notin {"idle", "over"}, x.answer = NoAnswer,
             thread' = thread,
             \/ UNCHANGED <<thinking, enabled>>
             \/ /\ c \in Request
                /\ enabled' = FALSE
                /\ thinking' = thinking \cup {c}
      PROVE  StepShape
  <2>1. /\ \A d \in Cause : call'[d] = IF d = c THEN x ELSE call[d]
        /\ marred = TRUE => marred' = TRUE
    BY <1>5, CallEffect
  <2>2. AnswersMove
    BY <1>2, <1>5, <2>1 DEF AnswersMove
  <2>3. SendsEnd
    BY <1>1, <1>3, <1>5, <2>1 DEF SendsEnd, Moving
  <2> QED
    BY <1>5, <2>2, <2>3 DEF StepShape, ThreadMoves
\* A call returns.
<1>6. ASSUME NEW c \in Cause, Return(c), ThreadMoves,
             \/ thinking' = {} /\ UNCHANGED marred
             \/ thinking' \subseteq thinking /\ marred' = TRUE
      PROVE  StepShape
  <2>1. /\ \A d \in Cause :
              /\ d # c => call'[d] = call[d]
              /\ d = c => /\ call'[d].answer = NoAnswer
                          /\ ~Moving(call', d)
        /\ enabled' = enabled \/ enabled' = TRUE
        /\ c \in Request => enabled' = TRUE
    BY <1>6, CallEffect
  <2>2. AnswersMove
    BY <1>2, <2>1 DEF AnswersMove
  <2>3. SendsEnd
    BY <1>1, <1>3, <1>6, <2>1 DEF SendsEnd, Moving
  <2> QED
    BY <1>6, <2>2, <2>3 DEF StepShape
<1>7. ASSUME NEW c \in Cause,
             RejectKey(c) \/ ServeLoad(c) \/ ServeCreate(c) \/ Lose(c)
      PROVE  StepShape
  <2>1. UNCHANGED <<thread, thinking, enabled, marred>>
    BY <1>7 DEF RejectKey, ServeLoad, ServeCreate, Lose, ServiceOnly
  <2>2. \E a \in ServiceAnswer :
           /\ Told(c, a)
           /\ \/ a.body.turns = {}
              \/ /\ UNCHANGED vars
                 /\ \E s \in SessionId :
                       a.body = [session |-> s, turns |-> ActiveTurns(s)]
    <3>1. CASE RejectKey(c) \/ Lose(c)
      BY <1>2, <3>1, AnswersTyped DEF RejectKey, Lose
    <3>2. CASE ServeLoad(c) /\ call[c].session \in opened
      <4> DEFINE s == call[c].session
      <4>1. s \in SessionId
        BY <1>3, <3>2
      <4>2. Reply(s, ActiveTurns(s)) \in ServiceAnswer
        BY <1>3, <4>1, AnswersTyped
      <4>3. Told(c, Reply(s, ActiveTurns(s))) /\ UNCHANGED vars
        BY <3>2 DEF ServeLoad, Shown
      <4> QED
        BY <1>2, <1>3, <4>1, <4>2, <4>3
    <3>3. CASE ServeLoad(c) /\ call[c].session \notin opened
      BY <1>2, <3>3, AnswersTyped DEF ServeLoad
    <3>4. CASE ServeCreate(c)
      <4>1. CASE Told(c, Refusal("error"))
        BY <1>2, <4>1, AnswersTyped
      <4>2. ASSUME NEW s \in SessionId, Told(c, Reply(s, {}))
            PROVE  \E a \in ServiceAnswer : Told(c, a) /\ a.body.turns = {}
        <5>1. Reply(s, {}) \in ServiceAnswer /\ Reply(s, {}).body.turns = {}
          BY AnswersTyped DEF Reply
        <5> QED
          BY <4>2, <5>1
      <4> QED
        BY <3>4, <4>1, <4>2 DEF ServeCreate
    <3> QED
      BY <1>7, <3>1, <3>2, <3>3, <3>4
  <2> QED
    BY <1>4, <2>1, <2>2
<1>8. CASE ServeReset
  <2>1. UNCHANGED <<thread, thinking, enabled, marred>>
    BY <1>8 DEF ServeReset, ServiceOnly
  <2>2. \E a \in ServiceAnswer : Told("reset", a) /\ a.body.turns = {}
    <3>1. CASE call["reset"].session \in opened
      <4>1. call["reset"].session \in SessionId
        BY <1>3, <3>1
      <4>2. Told("reset", Reply(call["reset"].session, {}))
        BY <1>8, <3>1 DEF ServeReset
      <4>3. Reply(call["reset"].session, {}) \in ServiceAnswer
        BY <4>1, AnswersTyped
      <4>4. Reply(call["reset"].session, {}).body.turns = {}
        BY DEF Reply
      <4> QED
        BY <4>2, <4>3, <4>4 DEF Told
    <3>2. CASE call["reset"].session \notin opened
      BY <1>2, <1>8, <3>2, AnswersTyped DEF ServeReset
    <3> QED
      BY <3>1, <3>2
  <2> QED
    BY <1>1, <1>4, <2>1, <2>2
<1>9. ASSUME NEW r \in Request, NEW a \in ServiceAnswer, End(r, a),
             a.body.turns = {}
      PROVE  StepShape
  <2>1. UNCHANGED <<thread, thinking, enabled, marred>>
    BY <1>9 DEF End, ServiceOnly
  <2>2. CASE Told(r, a)
    BY <1>1, <1>4, <1>9, <2>1, <2>2
  <2>3. CASE call' = call
    BY <1>1, <1>3, <2>1, <2>3
       DEF StepShape, AnswersMove, ThreadMoves, SendsEnd
  <2> QED
    BY <1>9, <2>2, <2>3 DEF End, Told
<1>10. ASSUME NEW r \in Request, ServeReply(r) PROVE StepShape
  <2>1. call[r].session \in SessionId
    BY <1>1, <1>10 DEF ServeReply, Answer, Turns, Turn, Typed, ServiceTyped
  <2>2. /\ Reply(call[r].session, {}) \in ServiceAnswer
        /\ Reply(call[r].session, {}).body.turns = {}
    <3>1. Reply(call[r].session, {}) \in ServiceAnswer
      BY <2>1, AnswersTyped
    <3> QED
      BY <3>1 DEF Reply
  <2>3. /\ Refusal("error") \in ServiceAnswer
        /\ Refusal("error").body.turns = {}
    BY <1>2, AnswersTyped
  <2>4. End(r, Reply(call[r].session, {})) \/ End(r, Refusal("error"))
    BY <1>10 DEF ServeReply
  <2> QED
    BY <1>9, <2>2, <2>3, <2>4
<1>11. ASSUME NEW r \in Request, ServeFailure(r) PROVE StepShape
  BY <1>2, <1>9, <1>11, AnswersTyped DEF ServeFailure
<1>12. ASSUME NEW r \in Request, ServeQuestion(r) PROVE StepShape
  BY <1>1, <1>3, <1>12 DEF ServeQuestion, pageVars,
     StepShape, AnswersMove, ThreadMoves, SendsEnd
<1>13. ASSUME NEW r \in Request, Send(r) PROVE StepShape
  <2>1. /\ Fetch("sending", session, authorised) \in Call
        /\ Fetch("sending", session, authorised).step \notin {"idle", "over"}
        /\ Fetch("sending", session, authorised).answer = NoAnswer
    BY FetchTyped DEF Step, Fetch, Typed, WebTypeOK
  <2> QED
    BY <1>1, <1>5, <1>13, <2>1 DEF Send
<1>14. ASSUME NEW c \in Cause, Begin(c, LoadSession(session)),
              UNCHANGED <<thread, thinking, enabled>>
       PROVE  StepShape
  BY <1>5, <1>14, LoadTyped DEF Typed, Renders
<1>15. ASSUME NEW c \in Cause, NEW step \in {"creating", "resetting"},
              NEW s \in SessionId \cup {NoSession, Stale},
              Begin(c, Fetch(step, s, authorised)),
              UNCHANGED <<thread, thinking, enabled>>
       PROVE  StepShape
  <2>1. /\ Fetch(step, s, authorised) \in Call
        /\ Fetch(step, s, authorised).step \notin {"idle", "over"}
        /\ Fetch(step, s, authorised).answer = NoAnswer
    BY FetchTyped DEF Step, Fetch, Typed, WebTypeOK
  <2> QED
    BY <1>5, <1>15, <2>1
<1>16. ASSUME NEW r \in Request, SendSucceeded(r) PROVE StepShape
  BY <1>1, <1>14, <1>16 DEF SendSucceeded, NoRender
<1>17. ASSUME NEW r \in Request, SendFailed(r) PROVE StepShape
  BY <1>1, <1>6, <1>17 DEF SendFailed, ThreadMoves
<1>18. ASSUME NEW c \in Cause, Loaded(c) \/ Created(c) PROVE StepShape
  <2>1. ThreadMoves /\ Return(c) /\ thinking' = {} /\ UNCHANGED marred
    BY <1>18 DEF Loaded, Created, Render, ThreadMoves
  <2> QED
    BY <1>6, <2>1
<1>19. ASSUME NEW c \in Cause, LoadedNothing(c) PROVE StepShape
  BY <1>15, <1>19 DEF LoadedNothing, NoRender
<1>20. ASSUME NEW c \in Cause, LoadFailed(c) PROVE StepShape
  BY <1>6, <1>20 DEF LoadFailed, NoRender, ThreadMoves
<1>21. CASE ResetClicked \/ \E k \in Click : NewClicked(k)
  <2>1. session \in SessionId \cup {NoSession, Stale}
    BY DEF Typed, WebTypeOK
  <2> QED
    BY <1>1, <1>15, <1>21, <2>1 DEF ResetClicked, NewClicked, NoRender
<1>22. CASE ResetSucceeded
  BY <1>1, <1>14, <1>22 DEF ResetSucceeded, NoRender
<1>23. CASE ResetFailed
  BY <1>1, <1>6, <1>23 DEF ResetFailed, NoRender, ThreadMoves
<1>24. ASSUME NEW k \in Click, KeyApplied(k) PROVE StepShape
  <2>1. UNCHANGED <<thread, thinking, enabled>>
    BY <1>24 DEF KeyApplied, NoRender
  <2>2. PICK key \in BOOLEAN :
           \/ Begin(k, [LoadSession(session) EXCEPT !.key = key])
           \/ UNCHANGED <<call, marred>>
    BY <1>24 DEF KeyApplied
  <2>3. CASE Begin(k, [LoadSession(session) EXCEPT !.key = key])
    BY <1>1, <1>5, <2>1, <2>3, LoadTyped DEF Typed, Renders
  <2>4. CASE UNCHANGED <<call, marred>>
    BY <1>3, <2>1, <2>4 DEF StepShape, AnswersMove, ThreadMoves, SendsEnd
  <2> QED
    BY <2>2, <2>3, <2>4
<1>25. CASE Reload
  <2>1. /\ \A c \in Cause : call'[c].answer.body.turns = {}
        /\ thread' = NoThread /\ thinking' = {} /\ enabled' = TRUE
    <3>1. /\ thread' = NoThread /\ thinking' = {} /\ enabled' = TRUE
          /\ call' = [c \in Cause |->
                        IF c = "open" THEN LoadSession(session)
                        ELSE IF c \in Request /\ call[c].step # "idle"
                        THEN [call[c] EXCEPT !.step = "over", !.answer = NoAnswer]
                        ELSE Fetch("idle", NoSession, FALSE)]
      BY <1>25 DEF Reload, Render
    <3>2. \A c \in Cause : call[c] \in Call
      BY AnswerBodyTyped
    <3>3. LoadSession(session).answer = NoAnswer
      BY LoadTyped DEF Typed
    <3>4. \A c \in Cause : call'[c].answer = NoAnswer
      BY <3>1, <3>2, <3>3 DEF Fetch, Call
    <3> QED
      BY <1>2, <3>1, <3>4
  <2> QED
    BY <1>2, <2>1 DEF StepShape, AnswersMove, ThreadMoves, SendsEnd
<1>26. ASSUME NEW u \in unheard, ServeUnheard(u) PROVE StepShape
  BY <1>1, <1>3, <1>26 DEF ServeUnheard, pageVars,
     StepShape, AnswersMove, ThreadMoves, SendsEnd
<1> QED
  BY <1>1, <1>7, <1>8, <1>10, <1>11, <1>12, <1>13, <1>16, <1>17, <1>18, <1>19,
     <1>20, <1>21, <1>22, <1>23, <1>24, <1>25, <1>26 DEF WebNext, Progress, UserActs

-----------------------------------------------------------------------------
(* The thread is a dialogue.                                               *)

LEMMA TurnsComeLast ==
    ASSUME ServiceTyped, [Next]_vars
    PROVE  /\ log \subseteq log'
           /\ \A n \in log' \ log, m \in log :
                 m.session = n.session => m.seq < n.seq
<1> USE DEF ServiceTyped
<1>1. CASE UNCHANGED vars
  BY <1>1 DEF vars
<1>2. CASE \E s \in SessionId : Open(s) \/ Reset(s)
  BY <1>2 DEF Open, Reset
<1>3. ASSUME NEW s \in SessionId, NEW r \in Request, Ask(s, r)
      PROVE  /\ log \subseteq log'
             /\ \A n \in log' \ log, m \in log :
                   m.session = n.session => m.seq < n.seq
  <2>1. PICK n : /\ IsNextSeq(s, n)
                 /\ log' = log \cup {Question(s, n, generation[s], r)}
    BY <1>3 DEF Ask
  <2>2. /\ Question(s, n, generation[s], r).session = s
        /\ Question(s, n, generation[s], r).seq = n
    BY DEF Question
  <2> QED
    BY <2>1, <2>2 DEF IsNextSeq, Turns
<1>4. ASSUME NEW s \in SessionId, NEW r \in Request, Answer(s, r)
      PROVE  /\ log \subseteq log'
             /\ \A n \in log' \ log, m \in log :
                   m.session = n.session => m.seq < n.seq
  <2>1. PICK q \in Turns(s), st \in {"complete", "failed"} :
             /\ \A m \in Turns(s) : m.seq <= q.seq
             /\ log' = log \cup {ReplyTo(q, st)}
    BY <1>4 DEF Answer
  <2>2. /\ ReplyTo(q, st).session = s
        /\ ReplyTo(q, st).seq = q.seq + 1
        /\ q.seq \in Nat
        /\ \A m \in log : m.seq \in Nat
    BY DEF ReplyTo, Turns, Turn
  <2> QED
    BY <2>1, <2>2 DEF Turns
<1> QED
  BY <1>1, <1>2, <1>3, <1>4 DEF Next

LEMMA DialogueStays ==
    ASSUME ServiceTyped, [Next]_vars, NEW t, IsDialogue(t)
    PROVE  IsDialogue(t)'
<1>1. /\ log \subseteq log'
      /\ \A n \in log' \ log, m \in log : m.session = n.session => m.seq < n.seq
      /\ \A n \in log' : n.seq \in Nat
  BY TurnsComeLast, ServiceTypePreserved DEF ServiceTyped, Turn
<1>2. ASSUME NEW m \in t.turns, NEW n \in log', n.session = t.session,
             n.seq < m.seq, n.generation = m.generation
      PROVE  n \in t.turns
  <2>1. m \in log /\ m.session = t.session
    BY DEF IsDialogue, Turns
  <2>2. n \in log
    BY <1>1, <1>2, <2>1
  <2> QED
    BY <1>2, <2>2 DEF IsDialogue, Turns
<1> QED
  BY <1>1, <1>2 DEF IsDialogue, Turns

\* What the page and every answer under way show.
DialogueInv == /\ IsDialogue(thread)
               /\ \A c \in Cause : IsDialogue(call[c].answer.body)

LEMMA DialogueStep ==
    Typed /\ DialogueInv /\ [WebNext]_webVars => DialogueInv'
<1> SUFFICES ASSUME Typed, DialogueInv, [WebNext]_webVars PROVE DialogueInv'
  OBVIOUS
<1>1. ServiceTyped /\ [Next]_vars
  BY ClientStep DEF Typed
<1>2. \A t : t.turns = {} => IsDialogue(t)'
  BY DEF IsDialogue
<1>3. CASE UNCHANGED webVars
  BY <1>3 DEF webVars, serviceVars, pageVars, vars, DialogueInv, IsDialogue,
     Turns
<1>4. CASE WebNext
  <2>1. StepShape
    BY <1>4, ShapeOfSteps
  <2>2. ASSUME NEW c \in Cause PROVE IsDialogue(call[c].answer.body)'
    <3>1. PICK t : t = call'[c].answer.body
      OBVIOUS
    <3>2. IsDialogue(t)'
      <4>1. CASE t = call[c].answer.body
        <5>1. IsDialogue(t)
          BY <4>1 DEF DialogueInv
        <5> QED
          BY <1>1, <5>1, DialogueStays
      <4>2. CASE t.turns = {}
        BY <1>2, <4>2
      <4>3. ASSUME UNCHANGED vars, NEW s \in SessionId,
                   t = [session |-> s, turns |-> ActiveTurns(s)]
            PROVE  IsDialogue(t)'
        BY <4>3 DEF IsDialogue, ActiveTurns, Turns, vars
      <4> QED
        BY <2>1, <3>1, <4>1, <4>2, <4>3 DEF StepShape, AnswersMove
    <3> QED
      BY <3>1, <3>2 DEF IsDialogue, Turns
  <2>3. IsDialogue(thread)'
    <3>1. PICK t : t = thread'
      OBVIOUS
    <3>2. IsDialogue(t)'
      <4>1. CASE t.turns = {}
        BY <1>2, <4>1
      <4>2. CASE IsDialogue(t)
        BY <1>1, <4>2, DialogueStays
      <4> QED
        BY <2>1, <3>1, <4>1, <4>2 DEF StepShape, ThreadMoves, DialogueInv
    <3> QED
      BY <3>1, <3>2 DEF IsDialogue, Turns
  <2> QED
    BY <2>2, <2>3 DEF DialogueInv
<1> QED
  BY <1>3, <1>4

\* However the answers to loads are reordered, lost or rendered for a session
\* the page has left, what it shows is one dialogue without a hole
\* (static/index.html, loadSession and renderThread).
THEOREM ThreadStaysADialogue == WebSpec => []ThreadIsADialogue
<1>1. WebInit => DialogueInv
  <2> SUFFICES ASSUME WebInit PROVE DialogueInv
    OBVIOUS
  <2>1. NoThread.turns = {} /\ NoAnswer.body.turns = {}
    BY DEF NoThread, NoAnswer
  <2>2. \A c \in Cause : call[c].answer.body.turns = {}
    BY <2>1 DEF WebInit, LoadSession, Fetch
  <2> QED
    BY <2>1, <2>2 DEF WebInit, DialogueInv, IsDialogue
<1>2. DialogueInv => ThreadIsADialogue
  BY DEF DialogueInv, ThreadIsADialogue
<1> QED
  BY <1>1, <1>2, DialogueStep, AlwaysTyped, PTL DEF WebSpec

-----------------------------------------------------------------------------
(* The button and the placeholders.                                        *)

ComposerInv == ButtonMeansWaiting /\ ThinkingMeansWaiting

LEMMA ComposerStep ==
    Typed /\ ComposerInv /\ [WebNext]_webVars => ComposerInv'
<1> SUFFICES ASSUME Typed, ComposerInv, [WebNext]_webVars PROVE ComposerInv'
  OBVIOUS
<1>1. \A c : Under(c) <=> Moving(call, c)
  BY DEF Under, Moving
<1>2. \A c : (Under(c))' <=> Moving(call', c)
  BY DEF Under, Moving
<1>3. enabled \in BOOLEAN /\ marred \in BOOLEAN /\ enabled' \in BOOLEAN
      /\ marred' \in BOOLEAN /\ thinking \subseteq Request
      /\ thinking' \subseteq Request
  BY TypedStep DEF Typed, WebTypeOK
<1>4. CASE UNCHANGED webVars
  BY <1>4 DEF webVars, serviceVars, pageVars, ComposerInv, ButtonMeansWaiting,
     ThinkingMeansWaiting, Under
<1>5. CASE WebNext
  <2>1. SendsEnd
    BY <1>5, ShapeOfSteps DEF StepShape
  <2>2. enabled' = TRUE \/ \E r \in Request : Moving(call', r)
    BY <1>1, <1>3, <2>1 DEF SendsEnd, ComposerInv, ButtonMeansWaiting
  <2>3. \A r \in thinking' : Moving(call', r) \/ marred' = TRUE
    BY <1>1, <1>3, <2>1 DEF SendsEnd, ComposerInv, ThinkingMeansWaiting
  <2> QED
    BY <1>2, <2>2, <2>3 DEF ComposerInv, ButtonMeansWaiting, ThinkingMeansWaiting
<1> QED
  BY <1>4, <1>5

LEMMA ComposerAlways == WebSpec => []ComposerInv
<1>1. WebInit => ComposerInv
  BY DEF WebInit, ComposerInv, ButtonMeansWaiting, ThinkingMeansWaiting
<1> QED
  BY <1>1, ComposerStep, AlwaysTyped, PTL DEF WebSpec

\* While the send button is disabled, a send is under way that will enable
\* it: sends that overlap because Enter ignores the button, and the finally
\* block of send() (static/index.html), never leave the page without one.
THEOREM ButtonIsNotLost == WebSpec => []ButtonMeansWaiting
<1>1. ComposerInv => ButtonMeansWaiting
  BY DEF ComposerInv
<1> QED
  BY <1>1, ComposerAlways, PTL

\* A placeholder stands only while its send is under way or once an answer
\* was an error: success leaves its removal to the next render
\* (static/index.html, send).
THEOREM PlaceholdersAreRemoved == WebSpec => []ThinkingMeansWaiting
<1>1. ComposerInv => ThinkingMeansWaiting
  BY DEF ComposerInv
<1> QED
  BY <1>1, ComposerAlways, PTL

-----------------------------------------------------------------------------
(* The page at rest.                                                       *)

\* What the page would show of session s now.
Page(s) == [session |-> s, turns |-> ActiveTurns(s)]

Current(t) == \E s \in opened : t = Page(s)

Rendering(c) == call[c].step \in Renders
Arrived(c) == Rendering(c) /\ call[c].answer.kind = "ok"

\* A send or a reset waits for its end, and loads the thread after it.
Sending == \E c \in Cause : call[c].step \in {"sending", "resetting"}

\* A reset that was lost has failed for the page, which has yet to notice.
LostResets ==
    \A u \in unheard : u.step = "resetting" =>
        call[u.of].step = "resetting" /\ call[u.of].answer.kind = "error"

\* The answer that arrived, or else the page, is up to date.
UpToDate ==
    /\ \A c \in Cause : Arrived(c) => Current(call[c].answer.body)
    /\ \/ \E c \in Cause : Rendering(c)
       \/ Current(thread) /\ thread.session = session /\ echoes = {}

\* While no two renders were under way at once and no answer was an error:
\* the service works only on sends that the page waits for and on resets whose
\* failure the page is about to show, one load at most is under way, for the
\* session of the page, and what is not up to date will be loaded again.
Orderly ==
    /\ \A r \in Request : AtService(r) => call[r].step = "sending"
    /\ LostResets
    /\ \A c, d \in Cause : Rendering(c) /\ Rendering(d) => c = d
    /\ \A c \in Cause : call[c].step = "loading" =>
          /\ call[c].session = session
          /\ Arrived(c) => call[c].answer.body.session = session
    /\ Sending \/ UpToDate

\* Only sessions that exist have turns; a send that succeeded has ended.
Grounded ==
    /\ \A m \in log : m.session \in opened
    /\ \A r \in Request :
          \/ Rendering(r)
          \/ call[r].step = "sending" /\ call[r].answer.kind = "ok"
          => r \in ended

QuietInv == Grounded /\ (marred \/ Orderly)

\* What an answer leaves alone.
LEMMA KeptFields ==
    ASSUME Typed, NEW c \in Cause, NEW a \in ServiceAnswer, Told(c, a)
    PROVE  \A d \in Cause : /\ call'[d].session = call[d].session
                            /\ call'[d].key = call[d].key
<1> DEFINE x == [call[c] EXCEPT !.answer = a]
<1>1. call \in [Cause -> Call]
  BY DEF Typed, WebTypeOK
<1>2. x.session = call[c].session /\ x.key = call[c].key
  BY <1>1 DEF Call
<1>3. call' = [call EXCEPT ![c] = x]
  BY DEF Told
<1> HIDE DEF x
<1> QED
  BY <1>1, <1>2, <1>3

\* An answer to fetch d that arrives: of a session that exists, as it is.
Brought(d) ==
    call'[d].answer.kind = "ok" =>
        /\ d \in Request /\ call[d].step = "sending" => d \in ended'
        /\ Rendering(d) => \E s \in opened' :
              /\ call[d].step = "loading" => s = call[d].session
              /\ call'[d].answer.body = Page(s)'

LEMMA ServiceSettles ==
    ASSUME Typed, QuietInv,
           opened \subseteq opened', ended \subseteq ended',
           UNCHANGED <<session, thread, echoes, marred>>,
           (\A m \in log : m.session \in opened)',
           \A d \in Cause : /\ call'[d].step = call[d].step
                            /\ call'[d].session = call[d].session
                            /\ call'[d].key = call[d].key
                            /\ call'[d].answer = call[d].answer \/ Brought(d),
           \/ marred
           \/ Sending
           \/ \A s \in opened : ActiveTurns(s)' = ActiveTurns(s),
           marred \/ LostResets'
    PROVE  QuietInv'
<1>1. /\ \A r \in Request : r \in Cause
      /\ "reset" \in Cause
  BY DEF Cause
<1>2. \A d \in Cause : (Rendering(d))' <=> Rendering(d)
  BY DEF Rendering
<1>3. Sending' <=> Sending
  BY <1>1 DEF Sending
<1>4. Grounded'
  BY <1>1, <1>2 DEF QuietInv, Grounded, Brought
<1>5. ASSUME ~marred, Orderly
      PROVE  Orderly'
  <2>1. \A r \in Request : (AtService(r))' => call'[r].step = "sending"
    BY <1>1, <1>5 DEF Orderly, AtService
  <2>2. \A c, d \in Cause : (Rendering(c))' /\ (Rendering(d))' => c = d
    BY <1>2, <1>5 DEF Orderly
  <2>3. ASSUME NEW c \in Cause, call'[c].step = "loading"
        PROVE  /\ call'[c].session = session'
               /\ (Arrived(c))' => call'[c].answer.body.session = session'
    <3>1. Rendering(c) /\ call[c].step = "loading" /\ call[c].session = session
      BY <1>5, <2>3 DEF Orderly, Rendering, Renders
    <3>2. CASE call'[c].answer = call[c].answer
      BY <1>5, <3>1, <3>2 DEF Orderly, Arrived
    <3>3. CASE Brought(c)
      <4> SUFFICES ASSUME (Arrived(c))'
                   PROVE  call'[c].answer.body.session = session
        BY <3>1
      <4>1. PICK s \in opened' : s = session /\ call'[c].answer.body = Page(s)'
        BY <2>3, <3>1, <3>3 DEF Brought, Arrived
      <4>2. Page(s)'.session = s
        BY DEF Page
      <4> QED
        BY <4>1, <4>2
    <3> QED
      BY <3>1, <3>2, <3>3
  <2>4. ASSUME ~Sending PROVE UpToDate'
    <3>1. UpToDate /\ \A s \in opened : ActiveTurns(s)' = ActiveTurns(s)
      BY <1>5, <2>4 DEF Orderly
    <3>2. \A s \in opened : s \in opened' /\ Page(s)' = Page(s)
      BY <3>1 DEF Page
    <3>3. ASSUME NEW c \in Cause, (Arrived(c))'
          PROVE  \E s \in opened' : call'[c].answer.body = Page(s)'
      <4>1. CASE call'[c].answer = call[c].answer
        <5>1. Arrived(c)
          BY <1>2, <3>3, <4>1 DEF Arrived
        <5>2. PICK s \in opened : call[c].answer.body = Page(s)
          BY <3>1, <5>1 DEF UpToDate, Current
        <5> QED
          BY <3>2, <4>1, <5>2
      <4>2. CASE Brought(c)
        BY <1>2, <3>3, <4>2 DEF Brought, Arrived
      <4> QED
        BY <4>1, <4>2
    <3>4. \/ \E c \in Cause : (Rendering(c))'
          \/ /\ \E s \in opened' : thread' = Page(s)'
             /\ thread'.session = session' /\ echoes' = {}
      <4>1. CASE \E c \in Cause : Rendering(c)
        BY <1>2, <4>1
      <4>2. CASE Current(thread) /\ thread.session = session /\ echoes = {}
        <5>1. PICK s \in opened : thread = Page(s)
          BY <4>2 DEF Current
        <5> QED
          BY <3>2, <4>2, <5>1
      <4> QED
        BY <3>1, <4>1, <4>2 DEF UpToDate
    <3> QED
      BY <3>3, <3>4 DEF UpToDate, Current
  <2> QED
    BY <1>3, <1>5, <2>1, <2>2, <2>3, <2>4 DEF Orderly
<1> QED
  BY <1>4, <1>5 DEF QuietInv

LEMMA FetchSettles ==
    ASSUME Typed, QuietInv, NEW c \in Cause, NEW x \in Call, Begin(c, x),
           x.answer = NoAnswer,
           UNCHANGED <<serviceVars, session, thread>>,
           call[c].step # "resetting" \/ call[c].answer.kind # "error",
           \/ c \in Request /\ x.step = "sending"
           \/ c = "reset" /\ x.step = "resetting"
           \/ /\ x.step \in Renders
              /\ x.step = "loading" => x.session = session
              /\ c \in Request => c \in ended
    PROVE  QuietInv'
<1>1. /\ \A r \in Request : r \in Cause
      /\ "reset" \in Cause
      /\ x.answer.kind = "none"
  BY DEF Cause, NoAnswer
<1>2. \A d \in Cause : call'[d] = IF d = c THEN x ELSE call[d]
  BY CallEffect
<1>3. marred' = (marred \/ /\ x.step \in Renders
                           /\ \E d \in Cause \ {c} : call[d].step \in Renders)
  BY DEF Begin
<1>4. Grounded'
  BY <1>1, <1>2 DEF QuietInv, Grounded, Rendering, Renders, serviceVars, vars
<1>5. ASSUME ~marred' PROVE Orderly'
  <2>1. /\ ~marred
        /\ x.step \in Renders => \A d \in Cause \ {c} : ~Rendering(d)
    BY <1>3, <1>5, Zenon DEF Rendering
  <2>2. Orderly
    BY <2>1 DEF QuietInv
  <2>3. \A r \in Request : (AtService(r))' => call'[r].step = "sending"
    BY <1>1, <1>2, <2>2, WebAssumption
       DEF Orderly, AtService, Renders, serviceVars
  <2>4. \A d, e \in Cause : (Rendering(d))' /\ (Rendering(e))' => d = e
    BY <1>2, <2>1, <2>2 DEF Orderly, Rendering
  <2>5. \A d \in Cause : call'[d].step = "loading" =>
           /\ call'[d].session = session'
           /\ (Arrived(d))' => call'[d].answer.body.session = session'
    BY <1>1, <1>2, <2>2 DEF Orderly, Arrived, Rendering, Renders
  <2>6. LostResets'
    <3>1. LostResets /\ \A u \in unheard : u.of \in Cause
      BY <2>2 DEF Orderly, Typed, WebTypeOK, Unheard
    <3> QED
      BY <1>2, <3>1 DEF LostResets, serviceVars
  <2>7. CASE x.step \in Renders
    <3>1. \A d \in Cause : ~(Arrived(d))'
      BY <1>1, <1>2, <2>1, <2>7 DEF Arrived, Rendering
    <3>2. (Rendering(c))'
      BY <1>2, <2>7 DEF Rendering
    <3> QED
      BY <2>3, <2>4, <2>5, <2>6, <3>1, <3>2 DEF Orderly, UpToDate
  <2>8. CASE x.step \notin Renders
    <3>1. Sending'
      BY <1>1, <1>2, <2>8 DEF Sending
    <3> QED
      BY <2>3, <2>4, <2>5, <2>6, <3>1 DEF Orderly
  <2> QED
    BY <2>7, <2>8
<1> QED
  BY <1>4, <1>5 DEF QuietInv

LEMMA ReturnSettles ==
    ASSUME Typed, QuietInv, NEW c \in Cause, Return(c),
           UNCHANGED serviceVars,
           \/ marred' = TRUE
           \/ /\ UNCHANGED marred
              /\ Arrived(c)
              /\ thread' = call[c].answer.body
              /\ echoes' = {}
              /\ \/ call[c].step = "loading" /\ session' = session
                 \/ call[c].step = "creating" /\ session' = thread'.session
    PROVE  QuietInv'
<1>1. /\ \A r \in Request : r \in Cause
      /\ "reset" \in Cause
  BY DEF Cause
<1>2. \A d \in Cause : IF d = c THEN call'[d].step \in {"idle", "over"}
                                ELSE call'[d] = call[d]
  BY CallEffect DEF Moving
<1>3. Grounded'
  BY <1>1, <1>2 DEF QuietInv, Grounded, Rendering, Renders, serviceVars, vars
<1>4. ASSUME ~marred, Arrived(c), thread' = call[c].answer.body, echoes' = {},
             \/ call[c].step = "loading" /\ session' = session
             \/ call[c].step = "creating" /\ session' = thread'.session
      PROVE  Orderly'
  <2>1. Orderly /\ Grounded /\ Rendering(c)
    BY <1>4 DEF QuietInv, Arrived
  <2>2. \A d \in Cause : ~(Rendering(d))'
    BY <1>2, <2>1 DEF Orderly, Rendering, Renders
  <2>3. \A r \in Request : (AtService(r))' => call'[r].step = "sending"
    BY <1>1, <1>2, <2>1 DEF Orderly, AtService, Grounded, serviceVars
  <2>4. ASSUME ~Sending' PROVE UpToDate'
    <3>1. ~Sending
      BY <1>1, <1>2, <2>1, <2>4 DEF Sending, Rendering, Renders
    <3>2. PICK s \in opened : thread' = Page(s)
      BY <1>4, <2>1, <3>1 DEF Orderly, UpToDate, Current
    <3>3. Page(s)' = Page(s) /\ opened' = opened
      BY DEF Page, ActiveTurns, Turns, serviceVars, vars
    <3>4. thread'.session = session'
      BY <1>4, <2>1 DEF Orderly
    <3> QED
      BY <1>4, <2>2, <3>2, <3>3, <3>4 DEF UpToDate, Current, Arrived
  <2>5. \A d \in Cause : call'[d].step # "loading"
    BY <2>2 DEF Rendering, Renders
  <2>6. LostResets'
    <3>1. LostResets /\ \A u \in unheard : u.of \in Cause
      BY <2>1 DEF Orderly, Typed, WebTypeOK, Unheard
    <3>2. call[c].step # "resetting"
      BY <2>1 DEF Rendering, Renders
    <3> QED
      BY <1>2, <3>1, <3>2 DEF LostResets, serviceVars
  <2> QED
    BY <2>2, <2>3, <2>4, <2>5, <2>6 DEF Orderly
<1> QED
  BY <1>3, <1>4 DEF QuietInv

LEMMA ReloadSettles ==
    ASSUME Typed, QuietInv, Reload PROVE QuietInv'
<1>1. /\ \A r \in Request : r \in Cause /\ r # "open"
      /\ "reset" \in Cause /\ "reset" # "open" /\ "open" \in Cause
      /\ NoAnswer.kind = "none"
  BY WebAssumption DEF Cause, NoAnswer
<1>2. call' = [c \in Cause |->
                 IF c = "open" THEN LoadSession(session)
                 ELSE IF c \in Request /\ call[c].step # "idle"
                 THEN [call[c] EXCEPT !.step = "over", !.answer = NoAnswer]
                 ELSE Fetch("idle", NoSession, FALSE)]
  BY DEF Reload
<1>3. ASSUME NEW c \in Cause, c # "open"
      PROVE  /\ call'[c].step \in {"idle", "over"}
             /\ call'[c].step = "over" =>
                   /\ c \in Request
                   /\ call[c].step # "idle"
                   /\ call'[c].key = call[c].key
  <2>1. CASE c \in Request /\ call[c].step # "idle"
    <3> DEFINE w == [call[c] EXCEPT !.step = "over"]
               x == [w EXCEPT !.answer = NoAnswer]
    <3>1. w \in Call /\ w.step = "over" /\ w.key = call[c].key
      BY DEF Typed, WebTypeOK, Call, Step
    <3>2. call'[c] = x
      BY <1>2, <1>3, <2>1
    <3> HIDE DEF w
    <3>3. x.step = w.step /\ x.key = w.key
      BY <3>1 DEF Call
    <3> QED
      BY <2>1, <3>1, <3>2, <3>3
  <2>2. CASE ~(c \in Request /\ call[c].step # "idle")
    BY <1>2, <1>3, <2>2 DEF Fetch
  <2> QED
    BY <2>1, <2>2
<1>4. /\ (Rendering("open"))'
      /\ call'["open"].answer = NoAnswer
      /\ call'["open"].step = "loading" => call'["open"].session = session
  BY <1>1, <1>2, WebAssumption DEF LoadSession, Fetch, Rendering, Renders
<1>5. \A c \in Cause : (Rendering(c))' => c = "open"
  BY <1>3 DEF Rendering, Renders
<1>6. UNCHANGED <<vars, ended, session>>
  BY DEF Reload
<1>7. Grounded'
  BY <1>1, <1>3, <1>5, <1>6 DEF QuietInv, Grounded, vars
<1>8. ASSUME ~marred' PROVE Orderly'
  <2>1. /\ \A r \in Request : ~AtService(r)
        /\ \A u \in unheard' : u.step # "resetting"
    BY <1>8, Zenon DEF Reload
  <2>2. \A r \in Request : ~(AtService(r))'
    BY <1>1, <1>3, <1>6, <2>1 DEF AtService
  <2>3. \A c \in Cause : ~(Arrived(c))'
    BY <1>1, <1>4, <1>5 DEF Arrived
  <2>4. \A c \in Cause : call'[c].step = "loading" => call'[c].session = session'
    BY <1>3, <1>4, <1>6
  <2> QED
    BY <1>1, <1>4, <1>5, <2>1, <2>2, <2>3, <2>4
    DEF Orderly, UpToDate, LostResets
<1> QED
  BY <1>7, <1>8 DEF QuietInv

\* Sessions stay, and turns are stored only in sessions that exist.
LEMMA TurnsHaveSessions ==
    ASSUME ServiceTyped, [Next]_vars, \A m \in log : m.session \in opened
    PROVE  /\ opened \subseteq opened'
           /\ (\A m \in log : m.session \in opened)'
<1>1. CASE UNCHANGED vars
  BY <1>1 DEF vars
<1>2. CASE \E s \in SessionId : Open(s) \/ Reset(s)
  BY <1>2 DEF Open, Reset
<1>3. ASSUME NEW s \in SessionId, NEW r \in Request, Ask(s, r)
      PROVE  opened' = opened /\ \A m \in log' : m.session \in opened
  <2>1. PICK n : log' = log \cup {Question(s, n, generation[s], r)}
    BY <1>3 DEF Ask
  <2> QED
    BY <1>3, <2>1 DEF Ask, Question
<1>4. ASSUME NEW s \in SessionId, NEW r \in Request, Answer(s, r)
      PROVE  opened' = opened /\ \A m \in log' : m.session \in opened
  <2>1. PICK q \in Turns(s), st \in {"complete", "failed"} :
             log' = log \cup {ReplyTo(q, st)}
    BY <1>4 DEF Answer
  <2> QED
    BY <1>4, <2>1 DEF Answer, ReplyTo, Turns
<1> QED
  BY <1>1, <1>2, <1>3, <1>4 DEF Next

LEMMA QuietStep == Typed /\ QuietInv /\ [WebNext]_webVars => QuietInv'
<1> SUFFICES ASSUME Typed, QuietInv, [WebNext]_webVars PROVE QuietInv'
  OBVIOUS
<1>1. /\ \A r \in Request : r \in Cause
      /\ \A k \in Click : k \in Cause
      /\ "reset" \in Cause
      /\ \A k \in Click : k \notin Request
      /\ "reset" \notin Request
  BY WebAssumption DEF Cause
<1>2. /\ opened \subseteq SessionId /\ opened \subseteq opened'
      /\ (\A m \in log : m.session \in opened)'
  BY ClientStep, TurnsHaveSessions DEF Typed, ServiceTyped, QuietInv, Grounded
<1>3. /\ \A kind \in {"error", "not_found"} : Refusal(kind).kind # "ok"
      /\ \A s, turns : Reply(s, turns).body = [session |-> s, turns |-> turns]
  BY DEF Refusal, Reply
<1>4. \A u \in unheard : u.of \in Cause
  BY DEF Typed, WebTypeOK, Unheard
<1>5. marred \/ LostResets
  BY DEF QuietInv, Orderly
\* The service answers.
<1>6. ASSUME NEW c \in Cause, NEW a \in ServiceAnswer, Told(c, a),
             ended \subseteq ended', call[c].answer.kind # "error",
             UNCHANGED <<unheard, session, thread, echoes, marred>>,
             \/ marred
             \/ Sending
             \/ \A s \in opened : ActiveTurns(s)' = ActiveTurns(s),
             a.kind = "ok" =>
                 /\ c \in Request /\ call[c].step = "sending" => c \in ended'
                 /\ Rendering(c) => \E s \in opened' :
                       /\ call[c].step = "loading" => s = call[c].session
                       /\ a.body = Page(s)'
      PROVE  QuietInv'
  <2>1. \A d \in Cause :
           /\ call'[d].step = call[d].step
           /\ call'[d].answer = IF d = c THEN a ELSE call[d].answer
    BY <1>6, CallEffect
  <2>2. \A d \in Cause : call'[d].answer = call[d].answer \/ Brought(d)
    BY <1>6, <2>1 DEF Brought
  <2>3. \A d \in Cause : /\ call'[d].session = call[d].session
                         /\ call'[d].key = call[d].key
    BY <1>6, KeptFields
  <2>4. marred \/ LostResets'
    BY <1>6, <1>4, <1>5, <2>1 DEF LostResets
  <2> QED
    BY <1>2, <1>6, <2>1, <2>2, <2>3, <2>4, ServiceSettles
<1>7. UNCHANGED vars => \A s \in SessionId : ActiveTurns(s)' = ActiveTurns(s)
  BY DEF vars, ActiveTurns, Turns
<1>8. ASSUME NEW c \in Cause, Lose(c) PROVE QuietInv'
  <2> DEFINE a == Refusal("error")
  <2>1. /\ Told(c, a) /\ UNCHANGED vars /\ ended' = ended
        /\ unheard' = unheard \cup Unhandled({c})
        /\ UNCHANGED <<session, thread, echoes, marred>>
        /\ a \in ServiceAnswer /\ a.kind = "error"
        /\ call[c].answer.kind # "error"
    BY <1>8, AnswersTyped DEF Lose, Refusal
  <2> HIDE DEF a
  <2>2. \A d \in Cause :
           /\ call'[d].step = call[d].step
           /\ call'[d].answer = IF d = c THEN a ELSE call[d].answer
    BY <2>1, CallEffect
  <2>3. \A d \in Cause : /\ call'[d].session = call[d].session
                         /\ call'[d].key = call[d].key
    BY <2>1, KeptFields
  <2>4. \A d \in Cause : call'[d].answer = call[d].answer \/ Brought(d)
    BY <2>1, <2>2 DEF Brought
  <2>5. \A u \in Unhandled({c}) : u.of = c /\ u.step = call[c].step
    BY DEF Unhandled
  <2>6. marred \/ LostResets'
    BY <1>4, <1>5, <2>1, <2>2, <2>5 DEF LostResets
  <2> QED
    BY <1>2, <1>7, <2>1, <2>2, <2>3, <2>4, <2>6, ServiceSettles
<1>9. ASSUME NEW c \in Cause, RejectKey(c) PROVE QuietInv'
  <2>1. Told(c, Refusal("error")) /\ UNCHANGED vars /\ ended \subseteq ended'
        /\ UNCHANGED <<unheard, session, thread, echoes, marred>>
        /\ call[c].answer.kind # "error"
    BY <1>9 DEF RejectKey, ServiceOnly, Waiting
  <2> QED
    BY <1>2, <1>3, <1>6, <1>7, <2>1, AnswersTyped
<1>10. ASSUME NEW c \in Cause, ServeLoad(c) PROVE QuietInv'
  <2>1. /\ UNCHANGED vars /\ ended' = ended /\ call[c].step = "loading"
        /\ UNCHANGED <<unheard, session, thread, echoes, marred>>
        /\ call[c].answer.kind # "error"
    BY <1>10 DEF ServeLoad, ServiceOnly, Waiting
  <2>2. CASE call[c].session \notin opened
    BY <1>2, <1>3, <1>6, <1>7, <1>10, <2>1, <2>2, AnswersTyped DEF ServeLoad
  <2>3. CASE call[c].session \in opened
    <3>1. PICK s \in opened : s = call[c].session
      BY <2>3
    <3>2. Told(c, Reply(s, ActiveTurns(s)))
      BY <1>10, <2>3, <3>1 DEF ServeLoad, Shown
    <3>3. s \in SessionId /\ s \in opened' /\ Reply(s, ActiveTurns(s)) \in ServiceAnswer
      BY <1>2, AnswersTyped DEF Typed, ServiceTyped, ActiveTurns, Turns
    <3>4. Reply(s, ActiveTurns(s)).body = Page(s)'
      BY <1>3, <1>7, <2>1, <3>3 DEF Page
    <3> QED
      BY <1>2, <1>6, <1>7, <2>1, <3>1, <3>2, <3>3, <3>4
  <2> QED
    BY <2>2, <2>3
<1>11. ASSUME NEW c \in Cause, ServeCreate(c) PROVE QuietInv'
  <2>1. /\ ended' = ended /\ call[c].step = "creating"
        /\ UNCHANGED <<unheard, session, thread, echoes, marred>>
        /\ call[c].answer.kind # "error"
    BY <1>11 DEF ServeCreate, ServiceOnly, Waiting
  <2>2. CASE Told(c, Refusal("error")) /\ UNCHANGED vars
    BY <1>2, <1>3, <1>6, <1>7, <2>1, <2>2, AnswersTyped
  <2>3. ASSUME NEW s \in SessionId, Open(s), Told(c, Reply(s, {}))
        PROVE  QuietInv'
    <3>1. \A t \in SessionId : ActiveTurns(t)' = ActiveTurns(t)
      BY <2>3 DEF Open, ActiveTurns, Turns
    <3>2. ActiveTurns(s) = {} /\ s \in opened'
      BY <2>3 DEF Open, ActiveTurns, Turns, QuietInv, Grounded
    <3>3. Reply(s, {}) \in ServiceAnswer /\ Reply(s, {}).body = Page(s)'
      BY <1>3, <3>1, <3>2, AnswersTyped DEF Page
    <3> QED
      BY <1>2, <1>6, <2>1, <2>3, <3>1, <3>2, <3>3
  <2> QED
    BY <1>11, <2>2, <2>3 DEF ServeCreate
<1>12. CASE ServeReset
  <2>1. /\ ended' = ended /\ call["reset"].step = "resetting" /\ Sending
        /\ ~Rendering("reset")
        /\ UNCHANGED <<unheard, session, thread, echoes, marred>>
        /\ call["reset"].answer.kind # "error"
    BY <1>1, <1>12
    DEF ServeReset, ServiceOnly, Sending, Rendering, Renders, Waiting
  <2>2. PICK a \in ServiceAnswer : Told("reset", a)
    <3>1. CASE call["reset"].session \in opened
      <4>1. Reply(call["reset"].session, {}) \in ServiceAnswer
        BY <1>2, <3>1, AnswersTyped
      <4> QED
        BY <1>12, <3>1, <4>1 DEF ServeReset
    <3>2. CASE call["reset"].session \notin opened
      BY <1>12, <3>2, AnswersTyped DEF ServeReset
    <3> QED
      BY <3>1, <3>2
  <2> QED
    BY <1>1, <1>6, <2>1, <2>2
\* A send that the service works on is one that the page waits for.
<1>13. ASSUME NEW r \in Request, AtService(r)
       PROVE  /\ marred \/ Sending
              /\ ~Rendering(r)
  BY <1>1, <1>13 DEF QuietInv, Orderly, Grounded, Sending, AtService
<1>14. ASSUME NEW r \in Request, AtService(r), NEW a \in ServiceAnswer, End(r, a)
       PROVE  QuietInv'
  <2>1. /\ ended \subseteq ended' /\ r \in ended'
        /\ UNCHANGED <<unheard, session, thread, echoes, marred>>
    BY <1>14 DEF End, ServiceOnly
  <2>2. CASE Told(r, a) /\ call[r].answer.kind # "error"
    BY <1>1, <1>6, <1>13, <1>14, <2>1, <2>2
  <2>3. CASE call' = call
    <3>1. marred \/ LostResets'
      BY <1>5, <2>1, <2>3 DEF LostResets
    <3> QED
      BY <1>2, <1>13, <1>14, <2>1, <2>3, <3>1, ServiceSettles
  <2> QED
    BY <1>14, <2>2, <2>3 DEF End, Told, Waiting
<1>15. ASSUME NEW r \in Request, ServeReply(r) PROVE QuietInv'
  <2>1. call[r].session \in SessionId
    BY <1>15 DEF ServeReply, Answer, Turns, Turn, Typed, ServiceTyped
  <2>2. Reply(call[r].session, {}) \in ServiceAnswer
    BY <2>1, AnswersTyped
  <2>3. End(r, Reply(call[r].session, {})) \/ End(r, Refusal("error"))
    BY <1>15 DEF ServeReply
  <2> QED
    BY <1>14, <1>15, <2>2, <2>3, AnswersTyped DEF ServeReply
<1>16. ASSUME NEW r \in Request, ServeFailure(r) PROVE QuietInv'
  BY <1>14, <1>16, AnswersTyped DEF ServeFailure
<1>17. ASSUME NEW r \in Request, ServeQuestion(r) PROVE QuietInv'
  <2>1. /\ AtService(r)
        /\ UNCHANGED <<call, ended, unheard, session, thread, echoes, marred>>
    BY <1>17 DEF ServeQuestion, pageVars
  <2>2. marred \/ LostResets'
    BY <1>5, <2>1 DEF LostResets
  <2> QED
    BY <1>2, <1>13, <2>1, <2>2, ServiceSettles
<1>18. ASSUME NEW u \in unheard, ServeUnheard(u) PROVE QuietInv'
  <2>1. /\ unheard' \subseteq unheard
        /\ UNCHANGED <<call, ended, session, thread, echoes, marred>>
    BY <1>18 DEF ServeUnheard, pageVars
  <2>2. marred \/ LostResets'
    BY <1>5, <2>1 DEF LostResets
  <2>3. \/ marred
        \/ Sending
        \/ \A s \in opened : ActiveTurns(s)' = ActiveTurns(s)
    <3>1. CASE u.step = "resetting"
      BY <1>4, <1>5, <3>1 DEF LostResets, Sending
    <3>2. CASE UNCHANGED vars
      BY <1>2, <1>7, <3>2
    <3>3. CASE \E s \in SessionId : Open(s)
      BY <3>3 DEF Open, ActiveTurns, Turns
    <3> QED
      BY <1>18, <3>1, <3>2, <3>3 DEF ServeUnheard
  <2> QED
    BY <1>2, <2>1, <2>2, <2>3, ServiceSettles
\* The page begins a fetch.
<1>19. ASSUME NEW c \in Cause, NEW step \in {"creating", "resetting", "sending"},
              NEW s \in SessionId \cup {NoSession, Stale},
              Begin(c, Fetch(step, s, authorised)),
              UNCHANGED <<serviceVars, session, thread>>,
              call[c].step # "resetting" \/ call[c].answer.kind # "error",
              \/ c \in Request /\ step = "sending"
              \/ c = "reset" /\ step = "resetting"
              \/ step = "creating" /\ (c \in Request => c \in ended)
       PROVE  QuietInv'
  <2> DEFINE x == Fetch(step, s, authorised)
  <2>1. x \in Call /\ x.step = step /\ x.answer = NoAnswer
    BY FetchTyped DEF Step, Fetch, Typed, WebTypeOK
  <2> HIDE DEF x
  <2>2. Begin(c, x)
    BY <1>19 DEF x
  <2> QED
    BY <1>19, <2>1, <2>2, FetchSettles DEF Renders
<1>20. ASSUME NEW c \in Cause, c \in Request => c \in ended,
              NEW x \in Call, Begin(c, x), x.answer = NoAnswer,
              x.step \in Renders, x.step = "loading" => x.session = session,
              UNCHANGED <<serviceVars, session, thread>>,
              call[c].step # "resetting" \/ call[c].answer.kind # "error"
       PROVE  QuietInv'
  BY <1>20, FetchSettles
<1>21. /\ LoadSession(session) \in Call
       /\ LoadSession(session).answer = NoAnswer
       /\ LoadSession(session).step \in Renders
       /\ LoadSession(session).session = session
  BY LoadTyped DEF LoadSession, Fetch, Typed
<1>22. session \in SessionId \cup {NoSession, Stale}
  BY DEF Typed, WebTypeOK
<1>23. ASSUME NEW r \in Request, Send(r) PROVE QuietInv'
  BY <1>1, <1>19, <1>22, <1>23 DEF Send
<1>24. ASSUME NEW r \in Request, SendSucceeded(r) PROVE QuietInv'
  <2>1. r \in ended
    BY <1>24 DEF SendSucceeded, Answered, QuietInv, Grounded
  <2> QED
    BY <1>1, <1>20, <1>21, <1>24, <2>1 DEF SendSucceeded, NoRender, Answered
<1>25. ASSUME NEW c \in Cause, LoadedNothing(c) PROVE QuietInv'
  <2>1. c \in Request => c \in ended
    BY <1>25 DEF LoadedNothing, Answered, QuietInv, Grounded, Rendering, Renders
  <2> QED
    BY <1>19, <1>25, <2>1 DEF LoadedNothing, NoRender, Answered
<1>26. CASE ResetClicked \/ \E k \in Click : NewClicked(k)
  BY <1>1, <1>19, <1>22, <1>26 DEF ResetClicked, NewClicked, NoRender
<1>27. CASE ResetSucceeded
  BY <1>1, <1>20, <1>21, <1>27 DEF ResetSucceeded, NoRender, Answered
<1>28. ASSUME NEW k \in Click, KeyApplied(k) PROVE QuietInv'
  <2>1. UNCHANGED <<serviceVars, session, thread, echoes>>
        /\ call[k].step # "resetting"
    BY <1>28 DEF KeyApplied, NoRender
  <2>2. PICK key \in BOOLEAN :
           \/ Begin(k, [LoadSession(session) EXCEPT !.key = key])
           \/ UNCHANGED <<call, marred>>
    BY <1>28 DEF KeyApplied
  <2>3. CASE Begin(k, [LoadSession(session) EXCEPT !.key = key])
    <3> DEFINE y == LoadSession(session)
               x == [y EXCEPT !.key = key]
    <3>1. y \in Call /\ y.answer = NoAnswer /\ y.step \in Renders /\ y.session = session
      BY <1>21
    <3> HIDE DEF y
    <3>2. /\ x \in Call /\ x.answer = NoAnswer /\ x.step \in Renders
          /\ x.session = session
      BY <3>1 DEF Call
    <3>3. Begin(k, x)
      BY <2>3 DEF y
    <3> HIDE DEF x
    <3> QED
      BY <1>1, <1>20, <2>1, <3>2, <3>3
  <2>4. CASE UNCHANGED <<call, marred>>
    <3>1. UNCHANGED <<vars, ended, unheard, session, thread, echoes>>
      BY <2>1 DEF serviceVars
    <3>2. marred \/ LostResets'
      BY <1>5, <2>4, <3>1 DEF LostResets
    <3> QED
      BY <1>2, <1>7, <2>4, <3>1, <3>2, ServiceSettles
  <2> QED
    BY <2>2, <2>3, <2>4
\* A call returns.
<1>29. ASSUME NEW r \in Request, SendFailed(r) PROVE QuietInv'
  BY <1>1, <1>29, ReturnSettles DEF SendFailed
<1>30. ASSUME NEW c \in Cause, LoadFailed(c) PROVE QuietInv'
  BY <1>30, ReturnSettles DEF LoadFailed
<1>31. CASE ResetFailed
  BY <1>1, <1>31, ReturnSettles DEF ResetFailed
<1>32. ASSUME NEW c \in Cause, Loaded(c) \/ Created(c) PROVE QuietInv'
  <2>1. Return(c) /\ UNCHANGED <<serviceVars, marred>> /\ Arrived(c)
    BY <1>32 DEF Loaded, Created, Answered, Arrived, Rendering, Renders
  <2>2. /\ thread' = call[c].answer.body /\ echoes' = {}
        /\ \/ call[c].step = "loading" /\ session' = session
           \/ call[c].step = "creating" /\ session' = thread'.session
    BY <1>32 DEF Loaded, Created, Answered, Render
  <2> QED
    BY <2>1, <2>2, ReturnSettles
<1>33. CASE Reload
  BY <1>33, ReloadSettles
<1>34. CASE UNCHANGED webVars
  <2>1. UNCHANGED <<vars, call, ended, unheard, session, thread, echoes, marred>>
    BY <1>34 DEF webVars, serviceVars, pageVars
  <2>2. marred \/ LostResets'
    BY <1>5, <2>1 DEF LostResets
  <2> QED
    BY <1>2, <1>7, <2>1, <2>2, ServiceSettles
<1> QED
  BY <1>1, <1>8, <1>9, <1>10, <1>11, <1>12, <1>15, <1>16, <1>17, <1>18,
     <1>23, <1>24, <1>25, <1>26, <1>27, <1>28, <1>29, <1>30, <1>31, <1>32,
     <1>33, <1>34
     DEF WebNext, Progress, UserActs

\* A page that has come to rest shows its own session as the service has it,
\* unless, since it was opened, two renders were under way at once, an answer
\* was an error, or the service was still at work on a send or a reset that
\* a reload had given up (static/index.html: the load after every send and
\* reset).
THEOREM QuietPagesAreCurrent == WebSpec => []QuietPageIsCurrent
<1>1. WebInit => QuietInv
  <2> SUFFICES ASSUME WebInit PROVE QuietInv
    OBVIOUS
  <2>1. /\ \A c \in Cause : Rendering(c) <=> c = "open"
        /\ \A c \in Cause : call[c].step \in Renders \cup {"idle"}
        /\ \A c \in Cause : call[c].answer.kind # "ok"
        /\ \A c \in Cause : call[c].step = "loading" => call[c].session = session
    BY DEF WebInit, LoadSession, Fetch, Rendering, Renders, NoAnswer
  <2>2. "open" \in Cause /\ \A r \in Request : r \in Cause /\ r # "open"
    BY WebAssumption DEF Cause
  <2>3. Grounded
    BY <2>1, <2>2 DEF Grounded, WebInit, Init
  <2>4. UpToDate
    BY <2>1, <2>2 DEF UpToDate, Arrived
  <2>5. \A r \in Request : ~AtService(r)
    BY <2>1, <2>2 DEF AtService, Rendering
  <2>6. LostResets
    BY DEF WebInit, LostResets
  <2> QED
    BY <2>1, <2>3, <2>4, <2>5, <2>6 DEF QuietInv, Orderly, Arrived
<1>2. QuietInv => QuietPageIsCurrent
  <2> SUFFICES ASSUME QuietInv, Quiet, ~marred
               PROVE  /\ session \in opened
                      /\ thread = Page(session)
                      /\ echoes = {}
    BY DEF QuietPageIsCurrent, Page
  <2>1. \A c \in Cause : call[c].step \in {"idle", "over"}
    BY DEF Quiet, Under
  <2>2. ~Sending /\ \A c \in Cause : ~Rendering(c)
    BY <2>1 DEF Sending, Rendering, Renders, Cause
  <2>3. Current(thread) /\ thread.session = session /\ echoes = {}
    BY <2>2 DEF QuietInv, Orderly, UpToDate
  <2>4. PICK s \in opened : thread = Page(s)
    BY <2>3 DEF Current
  <2>5. s = session
    BY <2>3, <2>4 DEF Page
  <2> QED
    BY <2>3, <2>4, <2>5
<1> QED
  BY <1>1, <1>2, QuietStep, AlwaysTyped, PTL DEF WebSpec
=============================================================================
