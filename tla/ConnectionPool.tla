---------------------------- MODULE ConnectionPool ----------------------------
(***************************************************************************)
(* ChatService behind the connection pool of its engine (db/session.py).   *)
(*                                                                         *)
(* A handler's database session takes a connection from the pool with its  *)
(* first statement and gives it back at each commit and rollback, so an    *)
(* exchange takes one twice, before and after the provider call, and holds *)
(* it while it waits for a row lock or for a slot of the unique index.     *)
(***************************************************************************)
EXTENDS ChatService

CONSTANT PoolSizes  \* the sizes checked; pool_size plus max_overflow, 15

ASSUME PoolAssumption == PoolSizes \subseteq Nat \ {0}

VARIABLES
    poolSize,  \* the number of connections, which never changes
    connected  \* calls that hold one

poolVars == <<poolSize, connected>>
pooledVars == <<vars, poolVars>>

\* Control points at which the next step is a statement.
Querying == {"wait_send", "locked", "read", "answered", "inserted",
             "charging", "wait_reset", "resetting"}

ConnectionFree == Cardinality(connected) < poolSize

\* The first statement of a transaction waits for a connection.
Connect(r) ==
    /\ pc[r] \in Querying
    /\ r \notin connected
    /\ ConnectionFree
    /\ connected' = connected \cup {r}
    /\ UNCHANGED <<vars, poolSize>>

\* Mutant: the session keeps its connection until the request ends.
ReleaseAtEnd ==
    /\ connected' = {r \in connected : pc'[r] # "done"}
    /\ UNCHANGED poolSize

\* Commit and rollback give the connection back.
Release ==
    /\ connected' = {r \in connected : pc'[r] \in Querying}
    /\ UNCHANGED poolSize

\* A step of the service: a statement needs a connection, unless it fails.
Serve ==
    /\ Next
    /\ \A r \in Request : pc[r] \in Querying /\ pc'[r] # pc[r] =>
          r \in connected \/ DatabaseFails(r) \/ restarts' # restarts
    /\ created' # created => ConnectionFree
    /\ Release

-----------------------------------------------------------------------------
PoolInit ==
    /\ Init
    /\ poolSize \in PoolSizes
    /\ connected = {}

PoolNext == Serve \/ \E r \in Request : Connect(r)

PoolSpec == PoolInit /\ [][PoolNext]_pooledVars

\* The service and the database do not pause, and the pool serves its waiters
\* in the order they came.  Nothing is assumed of the provider.
HandlerStep(r) == pc[r] # "calling" /\ Step(r) /\ Serve

PoolFairSpec ==
    /\ PoolSpec
    /\ \A r \in Request : /\ WF_pooledVars(HandlerStep(r))
                          /\ WF_pooledVars(Connect(r))

-----------------------------------------------------------------------------
\* A call never waits for the provider call of another one, however slow the
\* provider and however small the pool: what it waits for, a connection, a row
\* lock or a slot of the index, comes, even if no provider call ever returns.
\* (chat.py commits before the call so as not to serialise a session behind
\* one slow request.)
StatementsEnd ==
    \A r \in Request : pc[r] \in Querying ~> pc[r] \notin Querying
=============================================================================
