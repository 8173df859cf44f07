------------------------------ MODULE Migration ------------------------------
(***************************************************************************)
(* The database across migrations: container starts that run               *)
(* "alembic upgrade head" before the service, crashes in the middle of a   *)
(* migration, downgrades by an operator, and the service in between.       *)
(*                                                                         *)
(* alembic runs all steps of one command in one transaction, and           *)
(* PostgreSQL's DDL is transactional: tx is what the transaction sees, db  *)
(* what is committed.  Of the service, an exchange is its two              *)
(* transactions, with resets and other exchanges between them; what else   *)
(* interleaves is ChatService's subject.                                   *)
(***************************************************************************)
EXTENDS Naturals

CONSTANTS
    SessionId,      \* the ids of sessions
    Reply,          \* billed replies
    MaxGeneration,  \* bound on resets
    MaxDowngrades,  \* bound on downgrades
    MaxCrashes      \* bound on crashes during a migration

ASSUME MigrationAssumption ==
    /\ MaxGeneration \in Nat \ {0}
    /\ MaxDowngrades \in Nat
    /\ MaxCrashes \in Nat

VARIABLES
    db,          \* the committed database
    awaiting,    \* exchanges that wait for the provider
    tx,          \* the database as the running alembic command sees it
    alembic,     \* the alembic command under way
    container,   \* the API container
    downgrades,  \* downgrades committed so far
    crashes,     \* migrations that died so far
    forgotten    \* per session, the replies that were archived, and not in
                 \* the active total, when it was last downgraded

vars == <<db, awaiting, tx, alembic, container, downgrades, crashes, forgotten>>

\* A billed reply: its message and its usage row.
Turn == [session: SessionId, of: Reply, generation: 1 .. MaxGeneration]

\* An exchange between its transactions: the reply it will store, and what
\* its first transaction read of the session.
Exchange == [session: SessionId, of: Reply, generation: 1 .. MaxGeneration,
             total: SUBSET Reply, lifetime: SUBSET Reply]

\* "asked": the generations of a session that hold a question.
\* "columns": the columns of revision 0002 exist.  While they do not, they
\* are represented by the defaults that adding them gives.
Database == [revision: 0 .. 2, columns: BOOLEAN, sessions: SUBSET SessionId,
             generation: [SessionId -> 1 .. MaxGeneration],
             total: [SessionId -> SUBSET Reply],
             lifetime: [SessionId -> SUBSET Reply], turns: SUBSET Turn,
             asked: [SessionId -> SUBSET (1 .. MaxGeneration)]]

EmptyDatabase == [revision |-> 0, columns |-> FALSE, sessions |-> {},
                  generation |-> [s \in SessionId |-> 1],
                  total |-> [s \in SessionId |-> {}],
                  lifetime |-> [s \in SessionId |-> {}], turns |-> {},
                  asked |-> [s \in SessionId |-> {}]]

\* The replies that session s was charged for, and those in its dialogue.
Spent(d, s) == {r \in Reply : \E t \in d.turns : t.session = s /\ t.of = r}
Active(d, s) ==
    {r \in Reply : \E t \in d.turns : /\ t.session = s
                                     /\ t.of = r
                                     /\ t.generation = d.generation[s]}

-----------------------------------------------------------------------------
(* The steps of the migrations, as functions of the database.              *)

Upgrade0001(d) == [d EXCEPT !.revision = 1]

\* Mutant: the column was added with another default.
ZerothGeneration(turns) ==
    {[session |-> t.session, of |-> t.of, generation |-> 0] : t \in turns}

FirstGeneration(turns) ==
    {[session |-> t.session, of |-> t.of, generation |-> 1] : t \in turns}

FirstIfAny(asked) == [s \in SessionId |-> {1 : g \in asked[s]}]

AddColumns(d) == [d EXCEPT !.columns = TRUE]

\* Mutant: the new totals keep the default of their columns.
CopyNothing(d) == [d EXCEPT !.revision = 2]

\* UPDATE sessions SET lifetime_... = total_...
CopyTotals(d) == [d EXCEPT !.lifetime = d.total, !.revision = 2]

\* Mutant: what was archived is deleted with the column that told it apart.
DropArchived(d) ==
    [d EXCEPT !.revision = 1, !.columns = FALSE,
              !.generation = [s \in SessionId |-> 1],
              !.lifetime = [s \in SessionId |-> {}],
              !.turns = FirstGeneration(
                  {t \in @ : t.generation = d.generation[t.session]}),
              !.asked = FirstIfAny(@)]

\* The columns go; rows stay, and no longer belong to a generation.
DropColumns(d) ==
    [d EXCEPT !.revision = 1, !.columns = FALSE,
              !.generation = [s \in SessionId |-> 1],
              !.lifetime = [s \in SessionId |-> {}],
              !.turns = FirstGeneration(@), !.asked = FirstIfAny(@)]

DropTables(d) == EmptyDatabase

\* The reset; and the first and the second transaction of an exchange.
AfterReset(d, s) == [d EXCEPT !.generation[s] = @ + 1, !.total[s] = {}]

AfterQuestion(d, s) ==
    [d EXCEPT !.asked[s] = @ \cup {d.generation[s]}]

\* The totals are written as they were read, plus this reply.
AfterReply(d, x) ==
    [d EXCEPT !.turns = @ \cup {[session |-> x.session, of |-> x.of,
                                 generation |-> x.generation]},
              !.total[x.session] = x.total \cup {x.of},
              !.lifetime[x.session] = x.lifetime \cup {x.of}]

\* Mutant: no unique constraint refuses the reply that comes too late.
NothingRefused(w, x) == w \cup {x}

\* The question takes the position after the session's last message.  That is
\* where the reply of an exchange still under way would go, which is
\* therefore refused from now on.
LastAsked(w, x) == {y \in w : y.session # x.session} \cup {x}

-----------------------------------------------------------------------------
\* A new database, or one that the release before generations left behind:
\* everything was spent in the only generation there was.
FirstRelease(turns) ==
    LET d == [EmptyDatabase EXCEPT !.revision = 1, !.turns = turns,
                                   !.sessions = {t.session : t \in turns}]
    IN [d EXCEPT !.total = [s \in SessionId |-> Spent(d, s)],
                 !.asked = [s \in SessionId |-> {1 : r \in Spent(d, s)}]]

Init ==
    /\ \/ db = EmptyDatabase
       \/ \E paid \in SUBSET (SessionId \X Reply) :
             /\ \A p, q \in paid : p[2] = q[2] => p = q
             /\ db = FirstRelease({[session |-> p[1], of |-> p[2],
                                    generation |-> 1] : p \in paid})
    /\ awaiting = {}
    /\ tx = EmptyDatabase
    /\ alembic = "idle"
    /\ container = "down"
    /\ downgrades = 0
    /\ crashes = 0
    /\ forgotten = [s \in SessionId |-> {}]

\* CMD: alembic upgrade head && uvicorn ...
StartContainer ==
    /\ container = "down"
    /\ alembic = "idle"
    /\ container' = "migrating"
    /\ alembic' = "upgrade"
    /\ tx' = db
    /\ UNCHANGED <<db, awaiting, downgrades, crashes, forgotten>>

\* One statement, or a group of statements, of the open transaction.
InTransaction(command, d) ==
    /\ alembic = command
    /\ tx' = d
    /\ UNCHANGED <<db, awaiting, alembic, container, downgrades, crashes, forgotten>>

CreateTables == /\ tx.revision = 0
                /\ InTransaction("upgrade", Upgrade0001(tx))

\* ALTER TABLE ... ADD COLUMN fails when the column is there already, so the
\* UPDATE runs only after columns that this transaction added.
AddGenerations == /\ tx.revision = 1
                  /\ ~tx.columns
                  /\ InTransaction("upgrade", AddColumns(tx))

FillLifetime == /\ tx.revision = 1
                /\ tx.columns
                /\ ~db.columns
                /\ InTransaction("upgrade", CopyTotals(tx))

\* Mutant: ";" in place of "&&", the service starts whatever alembic did.
ServeAnyway ==
    /\ alembic = "upgrade"
    /\ alembic' = "idle"
    /\ db' = IF tx.revision = 2 THEN tx ELSE db
    /\ container' = "serving"
    /\ UNCHANGED <<awaiting, tx, downgrades, crashes, forgotten>>

\* The commit of the upgrade, and the start of the service.
CommitUpgrade ==
    /\ alembic = "upgrade"
    /\ tx.revision = 2
    /\ alembic' = "idle"
    /\ db' = tx
    /\ container' = "serving"
    /\ UNCHANGED <<awaiting, tx, downgrades, crashes, forgotten>>

\* alembic downgrade, with the service stopped.
StartDowngrade ==
    /\ container = "down"
    /\ alembic = "idle"
    /\ downgrades < MaxDowngrades
    /\ db.revision = 2
    /\ alembic' = "downgrade"
    /\ tx' = db
    /\ UNCHANGED <<db, awaiting, container, downgrades, crashes, forgotten>>

DropGenerations == /\ tx.revision = 2
                   /\ InTransaction("downgrade", DropColumns(tx))

DropAll == /\ tx.revision = 1
           /\ InTransaction("downgrade", DropTables(tx))

\* The command named revision 0001 or base as its target.
CommitDowngrade ==
    /\ alembic = "downgrade"
    /\ tx.revision < 2
    /\ alembic' = "idle"
    /\ db' = tx
    /\ downgrades' = downgrades + 1
    /\ forgotten' = [s \in SessionId |->
                        IF tx.revision = 0 THEN {}
                        ELSE Spent(db, s) \ db.total[s]]
    /\ UNCHANGED <<awaiting, tx, container, crashes>>

\* Mutant: every statement of an upgrade was committed as it ran.
CrashKeepsStatements ==
    /\ alembic # "idle"
    /\ crashes < MaxCrashes
    /\ alembic' = "idle"
    /\ container' = "down"
    /\ crashes' = crashes + 1
    /\ db' = IF alembic = "upgrade" THEN tx ELSE db
    /\ UNCHANGED <<awaiting, tx, downgrades, forgotten>>

\* The process or the connection dies: the transaction rolls back.
MigrationCrashes ==
    /\ alembic # "idle"
    /\ crashes < MaxCrashes
    /\ alembic' = "idle"
    /\ container' = "down"
    /\ crashes' = crashes + 1
    /\ UNCHANGED <<db, awaiting, tx, downgrades, forgotten>>

\* A deployment, or a crash of the service: exchanges under way are gone.
ContainerStops ==
    /\ container = "serving"
    /\ container' = "down"
    /\ awaiting' = {}
    /\ UNCHANGED <<db, tx, alembic, downgrades, crashes, forgotten>>

\* The service changes the committed database, and what it waits for.
Served(d, w) == /\ container = "serving"
                /\ db' = d
                /\ awaiting' = w
                /\ UNCHANGED <<tx, alembic, container, downgrades, crashes,
                               forgotten>>

OpenSession(s) == /\ s \notin db.sessions
                  /\ Served([db EXCEPT !.sessions = @ \cup {s}], awaiting)

\* The question is committed; r is the reply that the provider will bill.
Ask(s, r) ==
    /\ s \in db.sessions
    /\ \A t \in db.turns \cup awaiting : t.of # r
    /\ Served(AfterQuestion(db, s),
              LastAsked(awaiting, [session |-> s, of |-> r,
                                   generation |-> db.generation[s],
                                   total |-> db.total[s],
                                   lifetime |-> db.lifetime[s]]))

Answer(x) == /\ x \in awaiting
             /\ Served(AfterReply(db, x), awaiting \ {x})

Reset(s) == /\ db.generation[s] \in db.asked[s]
            /\ db.generation[s] < MaxGeneration
            /\ Served(AfterReset(db, s), awaiting)

\* What alembic and the container runtime do on their own.
Upgrading == \/ StartContainer \/ CreateTables \/ AddGenerations
             \/ FillLifetime \/ CommitUpgrade

Next == \/ Upgrading
        \/ StartDowngrade \/ DropGenerations \/ DropAll \/ CommitDowngrade
        \/ MigrationCrashes \/ ContainerStops
        \/ \E s \in SessionId : \/ OpenSession(s)
                                \/ Reset(s)
                                \/ \E r \in Reply : Ask(s, r)
        \/ \E x \in awaiting : Answer(x)

Spec == Init /\ [][Next]_vars

\* The container runtime restarts the container unless it was stopped, and
\* alembic runs to its end once started; an operator finishes a downgrade.
FairSpec == /\ Spec
            /\ WF_vars(Upgrading)
            /\ WF_vars(CommitDowngrade)
            /\ WF_vars(DropGenerations)

-----------------------------------------------------------------------------
TypeOK ==
    /\ db \in Database
    /\ awaiting \subseteq Exchange
    /\ tx \in Database
    /\ alembic \in {"idle", "upgrade", "downgrade"}
    /\ container \in {"down", "migrating", "serving"}
    /\ downgrades \in 0 .. MaxDowngrades
    /\ crashes \in 0 .. MaxCrashes
    /\ forgotten \in [SessionId -> SUBSET Reply]

\* Migrations lose no spending but this: a session's lifetime total at head
\* lacks exactly what was archived when the database was last downgraded.
\* On the way up alone, nothing is lost, whatever dies in between.
LifetimeLacksOnlyForgotten ==
    db.revision = 2 =>
        \A s \in SessionId : db.lifetime[s] = Spent(db, s) \ forgotten[s]

\* A turn that is in the active dialogue without being in its total is one
\* that a downgrade took out of the archive, and nothing is in the active
\* total that is not in the lifetime one.  So no exchange under way while
\* others were answered, reset or migrated costs an active turn its charge.
\* (The total may hold more than the active turns: a reply that comes after
\* a reset is charged to it, see ActiveTotalExact in ChatService.)
ReturnedTurnsAreForgotten ==
    db.revision = 2 =>
        \A s \in SessionId : /\ Active(db, s) \ db.total[s] \subseteq forgotten[s]
                             /\ db.total[s] \subseteq db.lifetime[s]

\* The service never runs on a schema older than its models.
ServesOnlyHead ==
    container = "serving" => db.revision = 2 /\ alembic = "idle"

\* Short of dropping the tables, no migration and no crash loses a billed
\* reply or moves it to another session: the spending report stays as it was.
KeepsBilled(d, e) ==
    \A s \in SessionId : Spent(d, s) \subseteq Spent(e, s)
ReportSurvives == [][db'.revision # 0 => KeepsBilled(db, db')]_vars

\* However a migration dies, the service comes up: no half-applied revision
\* is left behind that the next start could not complete.
ServiceComesUp == container = "migrating" ~> container = "serving"
=============================================================================
