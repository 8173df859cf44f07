------------------------------ MODULE WebClient ------------------------------
(***************************************************************************)
(* The chat page (static/index.html) in one browser tab, as a client of    *)
(* the service that module Conversation specifies.                         *)
(*                                                                         *)
(* Every async function of the page that is under way is a call, named by  *)
(* what started it.  A call waits for one fetch at a time; the service     *)
(* handles a fetch at some moment after it was made, and the page handles  *)
(* the answer at some moment after that, so answers arrive in any order.   *)
(***************************************************************************)
EXTENDS Conversation

CONSTANTS
    Click,      \* calls that the new-session button or the key field starts
    NoSession,  \* localStorage holds no session id
    Stale,      \* an id that localStorage kept and the service does not know
    MaxActs     \* bound on what the user does besides sending, and on losses

ASSUME WebAssumption ==
    /\ NoSession \notin SessionId
    /\ Stale \notin SessionId
    /\ MaxActs \in Nat
    /\ Request \cap Click = {}
    /\ (Request \cup Click) \cap {"open", "reset"} = {}

VARIABLES
    session,     \* api.sessionId, kept in localStorage
    authorised,  \* the API key of the page is the service's
    call,        \* the calls under way
    ended,       \* the sends that the service has finished with
    unheard,     \* resets and creations whose answer nobody waits for, and
                 \* that the service may still handle
    thread,      \* the turns on the page, from the answer rendered last
    echoes,      \* questions that send() put on the page itself
    thinking,    \* placeholders of replies on the page
    enabled,     \* the send button is enabled
    acts,        \* buttons clicked, keys applied, reloads and losses so far
    marred       \* since it was opened, answers may have crossed or failed, or
                 \* the service was at work for the page before

pageVars == <<session, authorised, call, thread, echoes, thinking, enabled,
              acts, marred>>
serviceVars == <<vars, ended, unheard>>
webVars == <<pageVars, serviceVars>>

\* What may start a call: a send; the new-session button or the key field,
\* which nothing disables; opening the page; the reset button.
Cause == Request \cup Click \cup {"open", "reset"}

Step == {"idle", "sending", "resetting", "loading", "creating", "over"}

Thread == [session: SessionId \cup {NoSession}, turns: SUBSET Turn]

NoThread == [session |-> NoSession, turns |-> {}]

\* The answer to a fetch; "ok" carries a session and its turns.
ServiceAnswer == [kind: {"none", "ok", "error", "not_found"}, body: Thread]

Call == [step: Step, session: SessionId \cup {NoSession, Stale},
         key: BOOLEAN, answer: ServiceAnswer]

\* A reset or a creation that the page gave up, at its act number "at".
Unheard == [at: 0 .. MaxActs, of: Cause, step: {"creating", "resetting"},
            session: SessionId \cup {NoSession, Stale}]

NoAnswer == [kind |-> "none", body |-> NoThread]
Refusal(kind) == [kind |-> kind, body |-> NoThread]
Reply(s, turns) == [kind |-> "ok", body |-> [session |-> s, turns |-> turns]]

\* A fetch that has just been made.
Fetch(step, s, key) ==
    [step |-> step, session |-> s, key |-> key, answer |-> NoAnswer]

Under(c) == call[c].step \notin {"idle", "over"}
Waiting(c) == Under(c) /\ call[c].answer.kind = "none"
Answered(c, step) == call[c].step = step /\ call[c].answer.kind # "none"

\* The active dialogue of session s: the messages of GET /sessions/{id}.
ActiveTurns(s) == {m \in Turns(s) : m.generation = generation[s]}

\* What uses up the bound.
Acts == /\ acts < MaxActs
        /\ acts' = acts + 1

-----------------------------------------------------------------------------
(* The service.                                                            *)

Told(c, answer) == call' = [call EXCEPT ![c].answer = answer]

ServiceOnly == UNCHANGED <<session, authorised, thread, echoes, thinking,
                           enabled, acts, marred, unheard>>

\* require_api_key comes before every handler.
RejectKey(c) ==
    /\ Waiting(c)
    /\ ~call[c].key
    /\ Told(c, Refusal("error"))
    /\ ended' = ended \cup ({c} \cap Request)
    /\ ServiceOnly
    /\ UNCHANGED vars

\* Mutant: the thread hides replies without text.
ShownWithText(s) == {m \in ActiveTurns(s) : m.status = "complete"}

\* What an answer to GET /sessions/{id} makes the page show.
Shown(s) == ActiveTurns(s)

ServeLoad(c) ==
    /\ Waiting(c)
    /\ call[c].key
    /\ call[c].step = "loading"
    /\ Told(c, IF call[c].session \in opened
               THEN Reply(call[c].session, Shown(call[c].session))
               ELSE Refusal("not_found"))
    /\ ServiceOnly
    /\ UNCHANGED <<vars, ended>>

\* No session is created once all ids of the instance are in use.
ServeCreate(c) ==
    /\ Waiting(c)
    /\ call[c].key
    /\ call[c].step = "creating"
    /\ \/ \E s \in SessionId : Open(s) /\ Told(c, Reply(s, {}))
       \/ /\ opened = SessionId
          /\ Told(c, Refusal("error"))
          /\ UNCHANGED vars
    /\ ServiceOnly
    /\ UNCHANGED ended

ServeReset ==
    /\ Waiting("reset")
    /\ call["reset"].key
    /\ call["reset"].step = "resetting"
    /\ IF call["reset"].session \in opened
       THEN /\ \/ Reset(call["reset"].session)
               \/ /\ ActiveTurns(call["reset"].session) = {}
                  /\ UNCHANGED vars
            /\ Told("reset", Reply(call["reset"].session, {}))
       ELSE /\ Told("reset", Refusal("not_found"))
            /\ UNCHANGED vars
    /\ ServiceOnly
    /\ UNCHANGED ended

\* A send that has reached the service, whether or not the page still waits.
AtService(r) == /\ call[r].step # "idle"
                /\ r \notin ended
                /\ call[r].key

\* The page hears of the end of send r if it still waits for it.
End(r, answer) ==
    /\ ended' = ended \cup {r}
    /\ call' = IF Waiting(r) THEN [call EXCEPT ![r].answer = answer] ELSE call
    /\ ServiceOnly

ServeQuestion(r) == /\ AtService(r)
                    /\ Ask(call[r].session, r)
                    /\ UNCHANGED <<pageVars, ended, unheard>>

\* 201 for a reply with text, an error for one without.
ServeReply(r) ==
    /\ AtService(r)
    /\ Answer(call[r].session, r)
    /\ \E a \in log' \ log :
          End(r, IF a.status = "complete" THEN Reply(call[r].session, {})
                                          ELSE Refusal("error"))

\* The send is refused, or fails after its question was stored.
ServeFailure(r) ==
    /\ AtService(r)
    /\ End(r, Refusal(IF call[r].session \in opened THEN "error"
                                                    ELSE "not_found"))
    /\ UNCHANGED vars

\* The resets and creations among calls C that the service has not handled.
Unhandled(C) ==
    {[at |-> acts, of |-> c, step |-> call[c].step,
      session |-> call[c].session] :
        c \in {d \in C : /\ Waiting(d)
                        /\ call[d].key
                        /\ call[d].step \in {"creating", "resetting"}}}

\* A request or its answer is lost; the service may have handled it, or may
\* still do so.
Lose(c) ==
    /\ Acts
    /\ Under(c)
    /\ call[c].answer.kind # "error"
    /\ Told(c, Refusal("error"))
    /\ unheard' = unheard \cup Unhandled({c})
    /\ UNCHANGED <<vars, ended, session, authorised, thread, echoes, thinking,
                   enabled, marred>>

\* The service handles a request nobody waits for: with its effect, or
\* without one when it is refused, has nothing to archive or never arrived.
ServeUnheard(u) ==
    /\ unheard' = unheard \ {u}
    /\ \/ u.step = "creating" /\ \E s \in SessionId : Open(s)
       \/ u.step = "resetting" /\ Reset(u.session)
       \/ UNCHANGED vars
    /\ UNCHANGED <<pageVars, ended>>

-----------------------------------------------------------------------------
(* The page.                                                               *)

\* Beginning fetch f of call c; two fetches whose answers the page renders
\* may cross.
Renders == {"loading", "creating"}
Begin(c, f) ==
    /\ call' = [call EXCEPT ![c] = f]
    /\ marred' = (marred \/ /\ f.step \in Renders
                            /\ \E d \in Cause \ {c} : call[d].step \in Renders)

\* loadSession: the session of the page at that moment, or a new one.
LoadSession(s) == IF s = NoSession
                  THEN Fetch("creating", NoSession, authorised)
                  ELSE Fetch("loading", s, authorised)

\* Mutant: the finally block is missing on the way out.
ReturnDisabled(c) ==
    /\ call' = [call EXCEPT ![c].step = IF c \in Request THEN "over" ELSE "idle",
                            ![c].answer = NoAnswer]
    /\ UNCHANGED enabled

\* The call returns; that of send() enables the button.
Return(c) ==
    /\ call' = [call EXCEPT ![c].step = IF c \in Request THEN "over" ELSE "idle",
                            ![c].answer = NoAnswer]
    /\ enabled' = (enabled \/ c \in Request)

\* Mutant: the new messages are added below what the page has.
RenderBelow(shown) == /\ thread' = shown
                      /\ UNCHANGED <<echoes, thinking>>

\* renderThread empties the thread first.
Render(shown) == /\ thread' = shown
                 /\ echoes' = {}
                 /\ thinking' = {}

NoRender == UNCHANGED <<thread, echoes, thinking>>

\* Neither the button nor the state of another send keeps Enter from sending.
Send(r) ==
    /\ call[r].step = "idle"
    /\ Begin(r, Fetch("sending", session, authorised))
    /\ enabled' = FALSE
    /\ echoes' = echoes \cup {r}
    /\ thinking' = thinking \cup {r}
    /\ UNCHANGED <<serviceVars, session, authorised, thread, acts>>

\* Mutant: the page takes its own question for the answer.
SendWithoutLoad(r) ==
    /\ Answered(r, "sending")
    /\ call[r].answer.kind = "ok"
    /\ thinking' = thinking \ {r}
    /\ Return(r)
    /\ UNCHANGED <<serviceVars, session, authorised, thread, echoes, acts, marred>>

SendSucceeded(r) ==
    /\ Answered(r, "sending")
    /\ call[r].answer.kind = "ok"
    /\ Begin(r, LoadSession(session))
    /\ NoRender
    /\ UNCHANGED <<serviceVars, session, authorised, enabled, acts>>

SendFailed(r) ==
    /\ Answered(r, "sending")
    /\ call[r].answer.kind # "ok"
    /\ thinking' = thinking \ {r}
    /\ Return(r)
    /\ marred' = TRUE
    /\ UNCHANGED <<serviceVars, session, authorised, thread, echoes, acts>>

Loaded(c) ==
    /\ Answered(c, "loading")
    /\ call[c].answer.kind = "ok"
    /\ Render(call[c].answer.body)
    /\ Return(c)
    /\ UNCHANGED <<serviceVars, session, authorised, acts, marred>>

\* session_not_found: newSession takes over.
LoadedNothing(c) ==
    /\ Answered(c, "loading")
    /\ call[c].answer.kind = "not_found"
    /\ Begin(c, Fetch("creating", NoSession, authorised))
    /\ NoRender
    /\ UNCHANGED <<serviceVars, session, authorised, enabled, acts>>

\* Mutant: the page keeps the whole answer in place of its id.
CreatedObject(c) ==
    /\ Answered(c, "creating")
    /\ call[c].answer.kind = "ok"
    /\ session' = call[c].answer.body
    /\ Render(call[c].answer.body)
    /\ Return(c)
    /\ UNCHANGED <<serviceVars, authorised, acts, marred>>

\* newSession: the page moves to the session just created.
Created(c) ==
    /\ Answered(c, "creating")
    /\ call[c].answer.kind = "ok"
    /\ session' = call[c].answer.body.session
    /\ Render(call[c].answer.body)
    /\ Return(c)
    /\ UNCHANGED <<serviceVars, authorised, acts, marred>>

\* Errors of loadSession and newSession are shown, and the caller goes on.
LoadFailed(c) ==
    /\ \E step \in Renders : Answered(c, step)
    /\ call[c].answer.kind \in IF call[c].step = "loading"
                               THEN {"error"} ELSE {"error", "not_found"}
    /\ NoRender
    /\ Return(c)
    /\ marred' = TRUE
    /\ UNCHANGED <<serviceVars, session, authorised, acts>>

ResetClicked ==
    /\ Acts
    /\ call["reset"].step = "idle"
    /\ session # NoSession
    /\ Begin("reset", Fetch("resetting", session, authorised))
    /\ NoRender
    /\ UNCHANGED <<serviceVars, session, authorised, enabled>>

ResetSucceeded ==
    /\ Answered("reset", "resetting")
    /\ call["reset"].answer.kind = "ok"
    /\ Begin("reset", LoadSession(session))
    /\ NoRender
    /\ UNCHANGED <<serviceVars, session, authorised, enabled, acts>>

ResetFailed ==
    /\ Answered("reset", "resetting")
    /\ call["reset"].answer.kind # "ok"
    /\ Return("reset")
    /\ marred' = TRUE
    /\ NoRender
    /\ UNCHANGED <<serviceVars, session, authorised, acts>>

NewClicked(k) ==
    /\ Acts
    /\ call[k].step = "idle"
    /\ Begin(k, Fetch("creating", NoSession, authorised))
    /\ NoRender
    /\ UNCHANGED <<serviceVars, session, authorised, enabled>>

\* applyKey, with the right key, a wrong one or none: load the session again
\* unless the field is empty.
KeyApplied(k) ==
    /\ Acts
    /\ call[k].step = "idle"
    /\ \/ /\ authorised' \in BOOLEAN
          /\ Begin(k, [LoadSession(session) EXCEPT !.key = authorised'])
       \/ /\ authorised' = FALSE
          /\ UNCHANGED <<call, marred>>
    /\ NoRender
    /\ UNCHANGED <<serviceVars, session, enabled>>

\* The tab is reloaded: the page never hears of what was under way, while the
\* service still works on it.
Reload ==
    /\ Acts
    /\ call' = [c \in Cause |->
                   IF c = "open" THEN LoadSession(session)
                   ELSE IF c \in Request /\ call[c].step # "idle"
                   THEN [call[c] EXCEPT !.step = "over", !.answer = NoAnswer]
                   ELSE Fetch("idle", NoSession, FALSE)]
    /\ unheard' = unheard \cup Unhandled(Cause)
    /\ marred' = \/ \E r \in Request : AtService(r)
                 \/ \E u \in unheard' : u.step = "resetting"
    /\ Render(NoThread)
    /\ enabled' = TRUE
    /\ UNCHANGED <<vars, ended, session, authorised>>

-----------------------------------------------------------------------------
WebInit ==
    /\ Init
    /\ session \in {NoSession, Stale}
    /\ authorised \in BOOLEAN
    /\ call = [c \in Cause |-> IF c = "open" THEN LoadSession(session)
                               ELSE Fetch("idle", NoSession, FALSE)]
    /\ ended = {}
    /\ unheard = {}
    /\ thread = NoThread
    /\ echoes = {}
    /\ thinking = {}
    /\ enabled = TRUE
    /\ acts = 0
    /\ marred = FALSE

\* What the service and the browser do on their own.
Progress(c) ==
    \/ RejectKey(c) \/ ServeLoad(c) \/ ServeCreate(c)
    \/ c = "reset" /\ (ServeReset \/ ResetSucceeded \/ ResetFailed)
    \/ /\ c \in Request
       /\ \/ ServeQuestion(c) \/ ServeReply(c) \/ ServeFailure(c)
          \/ SendSucceeded(c) \/ SendFailed(c)
    \/ Loaded(c) \/ LoadedNothing(c) \/ Created(c) \/ LoadFailed(c)

\* What the user does.
UserActs == \/ \E r \in Request : Send(r)
            \/ \E k \in Click : NewClicked(k) \/ KeyApplied(k)
            \/ ResetClicked \/ Reload

WebNext == \/ \E c \in Cause : Progress(c) \/ Lose(c)
           \/ \E u \in unheard : ServeUnheard(u)
           \/ UserActs

WebSpec == WebInit /\ [][WebNext]_webVars

-----------------------------------------------------------------------------
WebTypeOK ==
    /\ session \in SessionId \cup {NoSession, Stale}
    /\ authorised \in BOOLEAN
    /\ call \in [Cause -> Call]
    /\ ended \subseteq Request
    /\ unheard \subseteq Unheard
    /\ thread \in Thread
    /\ echoes \subseteq Request
    /\ thinking \subseteq Request
    /\ enabled \in BOOLEAN
    /\ acts \in 0 .. MaxActs
    /\ marred \in BOOLEAN

\* t is one generation of one session without a hole.
IsDialogue(t) ==
    \A m \in t.turns :
        /\ m \in Turns(t.session)
        /\ \A n \in Turns(t.session) :
              n.seq < m.seq /\ n.generation = m.generation => n \in t.turns
        /\ \A n \in t.turns : n.generation = m.generation

\* The page never mixes what it got from two answers: every turn that
\* preceded a shown one in its dialogue is shown too, however the answers to
\* loads were reordered, and also when the page is out of date.
ThreadIsADialogue == IsDialogue(thread)

\* No call is under way on the page, and no send at the service.
Quiet == /\ \A c \in Cause : ~Under(c)
         /\ \A r \in Request : ~AtService(r)

\* A page at rest shows its own session as the service has it, unless, since
\* it was opened, two answers that it renders were under way at once, an
\* answer was an error, or the service was still at work on a send or a reset
\* of the page before a reload.
QuietPageIsCurrent ==
    Quiet /\ ~marred =>
        /\ session \in opened
        /\ thread = [session |-> session, turns |-> ActiveTurns(session)]
        /\ echoes = {}

\* A placeholder of a reply stands only while its send is under way, or after
\* a load has failed; success relies on the next render to remove it.
ThinkingMeansWaiting ==
    \A r \in thinking : Under(r) \/ marred

\* The button is not disabled for ever: while it is, a send is under way that
\* will enable it, also when sends overlap or the page was reloaded.
ButtonMeansWaiting == enabled \/ \E r \in Request : Under(r)
=============================================================================
