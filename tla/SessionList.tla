----------------------------- MODULE SessionList -----------------------------
(***************************************************************************)
(* GET /sessions, read page by page with limit and offset, newest session  *)
(* first, while other callers create sessions and use them.                *)
(*                                                                         *)
(* Each page is one statement on what is committed at its moment.  A       *)
(* session is dated by the beginning of the transaction that stores it, so *)
(* one that commits late turns up behind younger ones; sessions of equal   *)
(* date come in any order, another one for each page.                      *)
(***************************************************************************)
EXTENDS Integers, FiniteSets

CONSTANTS
    SessionId,  \* sessions that may be created
    PageSize,   \* the query parameter "limit"
    MaxTime     \* bound on the clock of the database

ASSUME ListAssumption == /\ PageSize \in Nat \ {0}
                         /\ MaxTime \in Nat

VARIABLES
    now,        \* the clock of the database
    creating,   \* sessions whose transaction has begun
    stored,     \* the rows of table sessions
    createdAt,  \* sessions.created_at
    updatedAt,  \* sessions.updated_at
    offset,     \* the query parameter of the next page
    walking,    \* the client has not met the end of the list
    atStart,    \* the rows at the moment of the first page
    shown       \* sessions on the pages it has received

tableVars == <<now, creating, stored, createdAt, updatedAt>>
walkVars == <<offset, walking, atStart, shown>>
vars == <<tableVars, walkVars>>

\* Mutant: the session used last comes first.
FirstByUse(X, S) == \A x \in X, y \in S \ X : updatedAt[x] >= updatedAt[y]

\* X can be the first rows of S in order of created_at, descending.
First(X, S) == \A x \in X, y \in S \ X : createdAt[x] >= createdAt[y]

\* The n first rows of S, or all of them; sessions of equal date in any order.
Heads(S, n) ==
    {X \in SUBSET S : /\ First(X, S)
                      /\ \/ Cardinality(X) = n
                         \/ Cardinality(X) < n /\ X = S}

-----------------------------------------------------------------------------
Init ==
    /\ now = 0
    /\ creating = {}
    /\ stored = {}
    /\ createdAt = [s \in SessionId |-> 0]
    /\ updatedAt = [s \in SessionId |-> 0]
    /\ offset = 0
    /\ walking = TRUE
    /\ atStart = {}
    /\ shown = {}

Tick == /\ now < MaxTime
        /\ now' = now + 1
        /\ UNCHANGED <<creating, stored, createdAt, updatedAt, walkVars>>

\* create_session: the transaction begins, which fixes now().
BeginCreate(s) ==
    /\ s \notin creating \cup stored
    /\ creating' = creating \cup {s}
    /\ createdAt' = [createdAt EXCEPT ![s] = now]
    /\ updatedAt' = [updatedAt EXCEPT ![s] = now]
    /\ UNCHANGED <<now, stored, walkVars>>

CommitCreate(s) ==
    /\ s \in creating
    /\ creating' = creating \ {s}
    /\ stored' = stored \cup {s}
    /\ UNCHANGED <<now, createdAt, updatedAt, walkVars>>

\* The statement or the commit fails.
RollBackCreate(s) ==
    /\ s \in creating
    /\ creating' = creating \ {s}
    /\ UNCHANGED <<now, stored, createdAt, updatedAt, walkVars>>

\* An exchange or a reset updates the row (onupdate=func.now()).
Use(s) ==
    /\ s \in stored
    /\ updatedAt[s] < now
    /\ updatedAt' = [updatedAt EXCEPT ![s] = now]
    /\ UNCHANGED <<now, creating, stored, createdAt, walkVars>>

\* One page; a page that is not full is the end of the list.
ReadPage ==
    /\ walking
    /\ \E skipped \in Heads(stored, offset) :
          \E page \in Heads(stored \ skipped, PageSize) :
             /\ shown' = shown \cup page
             /\ walking' = (Cardinality(page) = PageSize)
    /\ offset' = offset + PageSize
    /\ atStart' = IF offset = 0 THEN stored ELSE atStart
    /\ UNCHANGED tableVars

Next == \/ Tick
        \/ \E s \in SessionId :
              BeginCreate(s) \/ CommitCreate(s) \/ RollBackCreate(s) \/ Use(s)
        \/ ReadPage

Spec == Init /\ [][Next]_vars

-----------------------------------------------------------------------------
TypeOK ==
    /\ now \in 0 .. MaxTime
    /\ creating \in SUBSET SessionId
    /\ stored \in SUBSET SessionId
    /\ createdAt \in [SessionId -> 0 .. MaxTime]
    /\ updatedAt \in [SessionId -> 0 .. MaxTime]
    /\ offset \in Nat
    /\ walking \in BOOLEAN
    /\ atStart \in SUBSET stored
    /\ shown \in SUBSET stored

\* Another session has the date of s: nothing orders the two.
Tied(s) == \E t \in stored \ {s} : createdAt[t] = createdAt[s]

\* A client that reads the list to its end misses no session that was there
\* when it began, whatever was created or used between its pages, unless
\* a session of the same date exists: new rows only push old ones to later
\* pages, where they are shown again, never to pages already read.
WalkMissesNothing ==
    ~walking => \A s \in atStart : s \in shown \/ Tied(s)
=============================================================================
