---------------------------- MODULE Conversation ----------------------------
(***************************************************************************)
(* What the chat service promises about its stored conversations, without  *)
(* requests, transactions or locks.                                        *)
(*                                                                         *)
(* A session's log is a dialogue whose turns are numbered 1, 2, 3, ...     *)
(* across resets.  A question takes the next number in the active          *)
(* generation.  A reply is recorded only directly after the question it    *)
(* answers, while that question is still the last turn of the log, it      *)
(* belongs to the generation of the question, and the session's lifetime   *)
(* spending grows by that exchange in the same step.  A reset opens a new  *)
(* generation, only when the active one holds a turn, and removes nothing. *)
(***************************************************************************)
EXTENDS Naturals

CONSTANTS
    Request,    \* the calls of clients; a turn is identified by its call
    SessionId   \* the ids of sessions

VARIABLES
    opened,      \* the sessions that exist
    generation,  \* the active generation of each session
    log,         \* every turn ever stored
    spent        \* the exchanges each session was charged for, in its lifetime

vars == <<opened, generation, log, spent>>

\* One stored turn: a row of the messages table.  "of" is the call that
\* asked the question, or whose question the turn answers.
Turn == [session: SessionId, seq: Nat, generation: Nat,
         role: {"user", "assistant"}, status: {"complete", "failed"},
         of: Request]

Turns(s) == {m \in log : m.session = s}

\* n is one past the greatest number in use in session s, or 1.
IsNextSeq(s, n) == /\ n \in {1} \cup {m.seq + 1 : m \in Turns(s)}
                   /\ \A m \in Turns(s) : m.seq < n

Question(s, n, g, r) ==
    [session |-> s, seq |-> n, generation |-> g, role |-> "user",
     status |-> "complete", of |-> r]

\* The reply to question q takes the position after it.
ReplyTo(q, st) ==
    [session |-> q.session, seq |-> q.seq + 1, generation |-> q.generation,
     role |-> "assistant", status |-> st, of |-> q.of]

-----------------------------------------------------------------------------
Init == /\ opened = {}
        /\ generation = [s \in SessionId |-> 1]
        /\ log = {}
        /\ spent = [s \in SessionId |-> {}]

Open(s) == /\ s \notin opened
           /\ opened' = opened \cup {s}
           /\ UNCHANGED <<generation, log, spent>>

Ask(s, r) == /\ s \in opened
             /\ \A m \in log : m.of # r
             /\ \E n \in {1} \cup {m.seq + 1 : m \in Turns(s)} :
                   /\ IsNextSeq(s, n)
                   /\ log' = log \cup {Question(s, n, generation[s], r)}
             /\ UNCHANGED <<opened, generation, spent>>

Answer(s, r) == /\ \E q \in Turns(s), st \in {"complete", "failed"} :
                      /\ q.of = r
                      /\ q.role = "user"
                      /\ \A m \in Turns(s) : m.seq <= q.seq
                      /\ log' = log \cup {ReplyTo(q, st)}
                /\ spent' = [spent EXCEPT ![s] = @ \cup {r}]
                /\ UNCHANGED <<opened, generation>>

Reset(s) ==
    /\ \E m \in Turns(s) : m.generation = generation[s]
    /\ generation' = [generation EXCEPT ![s] = @ + 1]
    /\ UNCHANGED <<opened, log, spent>>

Next == \E s \in SessionId :
           \/ Open(s)
           \/ Reset(s)
           \/ \E r \in Request : Ask(s, r) \/ Answer(s, r)

Spec == Init /\ [][Next]_vars
=============================================================================
