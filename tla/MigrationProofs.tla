--------------------------- MODULE MigrationProofs ---------------------------
(***************************************************************************)
(* Proofs about Migration, for any sessions, replies and bounds.           *)
(***************************************************************************)
EXTENDS Migration, TLAPS

\* What a database at each revision looks like, f being the replies that
\* were forgotten by its last downgrade.
Consistent(d, f) ==
    /\ d.revision = 0 => /\ d.turns = {}
                         /\ \A s \in SessionId : d.total[s] = {} /\ f[s] = {}
    /\ d.revision = 1 =>
          \A s \in SessionId : /\ d.total[s] \subseteq Spent(d, s)
                               /\ f[s] = Spent(d, s) \ d.total[s]
    /\ \A t \in d.turns : t.generation <= d.generation[t.session]
    /\ d.revision # 2 => /\ \A s \in SessionId : d.generation[s] = 1
                         /\ \A t \in d.turns : t.generation = 1
    /\ d.revision = 2 =>
          \A s \in SessionId :
             /\ d.lifetime[s] = Spent(d, s) \ f[s]
             /\ d.total[s] \subseteq d.lifetime[s]
             /\ Active(d, s) \ d.total[s] \subseteq f[s]
             /\ f[s] \subseteq Spent(d, s)

\* What holds of an exchange under way.  Its copy of the lifetime total is
\* the session's: nobody else can charge the session before it is refused.
\* Its copy of the active total is the session's until a reset; after one,
\* the new generation holds no reply that the copy could miss.
UnderWay(d, x) ==
    /\ x.generation <= d.generation[x.session]
    /\ x.lifetime = d.lifetime[x.session]
    /\ x.total \subseteq x.lifetime
    /\ x.generation = d.generation[x.session] => x.total = d.total[x.session]
    /\ x.generation < d.generation[x.session] => Active(d, x.session) = {}
    /\ \A t \in d.turns : t.of # x.of

\* At most one exchange of a session may still be answered.
OnePerSession(w) ==
    \A x, y \in w : x.session = y.session \/ x.of = y.of => x = y

\* Where the container and the alembic command are, together.
Coordinated ==
    /\ container = "serving" => db.revision = 2 /\ alembic = "idle"
    /\ container = "migrating" => alembic = "upgrade"
    /\ alembic = "downgrade" => /\ db.revision = 2
                                /\ container = "down"
                                /\ downgrades < MaxDowngrades
    /\ awaiting # {} => container = "serving"

\* What the open transaction sees.
TxConsistent ==
    /\ alembic = "upgrade" => /\ Consistent(tx, forgotten)
                              /\ KeepsBilled(db, tx)
    /\ alembic = "downgrade" => tx \in {db, DropColumns(db), EmptyDatabase}

\* The exchanges under way.
InFlight ==
    /\ \A x \in awaiting : UnderWay(db, x)
    /\ OnePerSession(awaiting)

IInv == /\ TypeOK
        /\ Coordinated
        /\ Consistent(db, forgotten)
        /\ TxConsistent
        /\ InFlight

-----------------------------------------------------------------------------
(* The steps of the migrations, one lemma each.                            *)

LEMMA EmptyIsConsistent ==
    /\ EmptyDatabase \in Database
    /\ \A f : (\A s \in SessionId : f[s] = {}) => Consistent(EmptyDatabase, f)
    /\ EmptyDatabase.revision = 0
<1>1. EmptyDatabase \in Database
  BY MigrationAssumption DEF EmptyDatabase, Database
<1> QED
  BY <1>1 DEF EmptyDatabase, Consistent

\* Well-typed fields make a well-typed database.
LEMMA WithLifetime ==
    ASSUME NEW d \in Database, NEW l \in [SessionId -> SUBSET Reply]
    PROVE  [d EXCEPT !.lifetime = l, !.revision = 2] \in Database
<1> DEFINE d1 == [d EXCEPT !.lifetime = l]
<1>1. d1 \in Database
  BY DEF Database
<1> HIDE DEF d1
<1>2. [d1 EXCEPT !.revision = 2] \in Database
  BY <1>1 DEF Database
<1>3. [d EXCEPT !.lifetime = l, !.revision = 2] = [d1 EXCEPT !.revision = 2]
  BY DEF d1
<1> QED
  BY <1>2, <1>3

LEMMA WithDefaults ==
    ASSUME NEW d \in Database, NEW g \in [SessionId -> 1 .. MaxGeneration],
           NEW l \in [SessionId -> SUBSET Reply], NEW t \in SUBSET Turn,
           NEW a \in [SessionId -> SUBSET (1 .. MaxGeneration)]
    PROVE  [d EXCEPT !.revision = 1, !.columns = FALSE, !.generation = g,
                     !.lifetime = l, !.turns = t, !.asked = a] \in Database
<1> DEFINE d1 == [d EXCEPT !.revision = 1]
           d2 == [d1 EXCEPT !.columns = FALSE]
           d3 == [d2 EXCEPT !.generation = g]
           d4 == [d3 EXCEPT !.lifetime = l]
           d5 == [d4 EXCEPT !.turns = t]
           d6 == [d5 EXCEPT !.asked = a]
<1>1. [d EXCEPT !.revision = 1, !.columns = FALSE, !.generation = g,
                !.lifetime = l, !.turns = t, !.asked = a] = d6
  OBVIOUS
<1>2. d1 \in Database
  BY DEF Database
<1> HIDE DEF d1
<1>3. d2 \in Database
  BY <1>2 DEF Database
<1> HIDE DEF d2
<1>4. d3 \in Database
  BY <1>3 DEF Database
<1> HIDE DEF d3
<1>5. d4 \in Database
  BY <1>4 DEF Database
<1> HIDE DEF d4
<1>6. d5 \in Database
  BY <1>5 DEF Database
<1> HIDE DEF d5
<1>7. d6 \in Database
  BY <1>6 DEF Database
<1> QED
  BY <1>1, <1>7

LEMMA CreateTablesStep ==
    ASSUME NEW d \in Database, NEW f, Consistent(d, f), d.revision = 0
    PROVE  /\ Upgrade0001(d) \in Database
           /\ Consistent(Upgrade0001(d), f)
           /\ KeepsBilled(d, Upgrade0001(d))
BY DEF Database, Upgrade0001, Consistent, Spent, KeepsBilled

LEMMA AddColumnsStep ==
    ASSUME NEW d \in Database, NEW f, Consistent(d, f), d.revision = 1
    PROVE  /\ AddColumns(d) \in Database
           /\ Consistent(AddColumns(d), f)
           /\ KeepsBilled(d, AddColumns(d))
<1> DEFINE e == AddColumns(d)
<1>1. /\ e \in Database /\ e.revision = 1 /\ e.turns = d.turns
      /\ e.total = d.total /\ e.generation = d.generation
  BY DEF Database, AddColumns
<1>2. \A s \in SessionId : Spent(e, s) = Spent(d, s)
  BY <1>1 DEF Spent
<1> QED
  BY <1>1, <1>2 DEF Consistent, KeepsBilled

\* With one generation, the active turns of a session are all its turns.
LEMMA CopyTotalsStep ==
    ASSUME NEW d \in Database, NEW f, Consistent(d, f), d.revision = 1
    PROVE  /\ CopyTotals(d) \in Database
           /\ Consistent(CopyTotals(d), f)
           /\ KeepsBilled(d, CopyTotals(d))
<1> DEFINE e == CopyTotals(d)
<1>1. e \in Database
  <2>1. d.total \in [SessionId -> SUBSET Reply]
    BY DEF Database
  <2> QED
    BY <2>1, WithLifetime DEF CopyTotals
<1>2. /\ e.revision = 2 /\ e.turns = d.turns /\ e.total = d.total
      /\ e.lifetime = d.total /\ e.generation = d.generation
  BY DEF Database, CopyTotals
<1>3. ASSUME NEW s \in SessionId
      PROVE  Spent(e, s) = Spent(d, s) /\ Active(e, s) = Spent(d, s)
  BY <1>2 DEF Spent, Active, Consistent
<1>4. ASSUME NEW s \in SessionId
      PROVE  /\ d.total[s] \subseteq Spent(d, s)
             /\ f[s] = Spent(d, s) \ d.total[s]
  BY DEF Consistent
<1>5. Consistent(e, f)
  BY <1>2, <1>3, <1>4 DEF Consistent
<1> QED
  BY <1>1, <1>3, <1>5 DEF KeepsBilled

\* What going down forgets is what was archived.
LEMMA DropColumnsStep ==
    ASSUME NEW d \in Database, NEW f, Consistent(d, f), d.revision = 2
    PROVE  /\ DropColumns(d) \in Database
           /\ DropColumns(d).revision = 1
           /\ Consistent(DropColumns(d),
                         [s \in SessionId |-> Spent(d, s) \ d.total[s]])
           /\ KeepsBilled(d, DropColumns(d))
<1> DEFINE e == DropColumns(d)
<1>1. /\ e.revision = 1 /\ e.columns = FALSE /\ e.total = d.total
      /\ e.sessions = d.sessions /\ e.turns = FirstGeneration(d.turns)
      /\ e.generation = [s \in SessionId |-> 1]
      /\ e.lifetime = [s \in SessionId |-> {}]
      /\ e.asked = FirstIfAny(d.asked)
  BY DEF Database, DropColumns
<1>2. \A u \in e.turns : /\ u \in Turn
                         /\ u.generation = 1
                         /\ \E t \in d.turns : /\ t.session = u.session
                                               /\ t.of = u.of
  BY <1>1, MigrationAssumption DEF FirstGeneration, Turn, Database
<1>3. e \in Database
  <2> DEFINE one == [s \in SessionId |-> 1]
             none == [s \in SessionId |-> {}]
             first == FirstGeneration(d.turns)
             asked == FirstIfAny(d.asked)
  <2>1. /\ one \in [SessionId -> 1 .. MaxGeneration]
        /\ none \in [SessionId -> SUBSET Reply]
        /\ first \in SUBSET Turn
        /\ asked \in [SessionId -> SUBSET (1 .. MaxGeneration)]
    BY <1>1, <1>2, MigrationAssumption DEF FirstIfAny
  <2>2. e = [d EXCEPT !.revision = 1, !.columns = FALSE, !.generation = one,
                      !.lifetime = none, !.turns = first, !.asked = asked]
    BY DEF DropColumns
  <2> HIDE DEF one, none, first, asked, e
  <2> QED
    BY <2>1, <2>2, WithDefaults
<1>4. \A t \in d.turns : \E u \in e.turns : u.session = t.session /\ u.of = t.of
  <2> SUFFICES ASSUME NEW t \in d.turns
               PROVE  \E u \in e.turns : u.session = t.session /\ u.of = t.of
    OBVIOUS
  <2> DEFINE w == [session |-> t.session, of |-> t.of, generation |-> 1]
  <2>1. w \in e.turns
    BY <1>1 DEF FirstGeneration
  <2> QED
    BY <2>1
<1>5. ASSUME NEW s \in SessionId PROVE Spent(e, s) = Spent(d, s)
  BY <1>2, <1>4 DEF Spent
<1>6. ASSUME NEW s \in SessionId PROVE d.total[s] \subseteq Spent(d, s)
  BY DEF Consistent, Active, Spent
<1>7. \A t \in e.turns : /\ t.generation = 1
                         /\ t.generation <= e.generation[t.session]
  BY <1>1, <1>2 DEF Turn
<1> DEFINE f2 == [s \in SessionId |-> Spent(d, s) \ d.total[s]]
<1>8. \A s \in SessionId : /\ e.total[s] \subseteq Spent(e, s)
                           /\ f2[s] = Spent(e, s) \ e.total[s]
                           /\ e.generation[s] = 1
  BY <1>1, <1>5, <1>6
<1>9. Consistent(e, f2)
  BY <1>1, <1>7, <1>8 DEF Consistent
<1> QED
  BY <1>1, <1>3, <1>5, <1>9 DEF KeepsBilled

LEMMA QuestionStep ==
    ASSUME NEW d \in Database, NEW f, Consistent(d, f), d.revision = 2,
           NEW s \in SessionId
    PROVE  LET e == AfterQuestion(d, s)
           IN  /\ e \in Database
               /\ Consistent(e, f)
               /\ e.revision = 2 /\ e.turns = d.turns /\ e.total = d.total
               /\ e.lifetime = d.lifetime /\ e.generation = d.generation
               /\ \A z \in SessionId : Active(e, z) = Active(d, z)
<1> DEFINE e == AfterQuestion(d, s)
<1>1. /\ e.revision = 2 /\ e.turns = d.turns /\ e.total = d.total
      /\ e.lifetime = d.lifetime /\ e.generation = d.generation
  BY DEF Database, AfterQuestion
<1>2. e \in Database
  BY DEF Database, AfterQuestion
<1> HIDE DEF e
<1>3. \A z \in SessionId : Spent(e, z) = Spent(d, z) /\ Active(e, z) = Active(d, z)
  BY <1>1 DEF Spent, Active
<1>4. Consistent(e, f)
  BY <1>1, <1>3 DEF Consistent
<1> QED
  BY <1>1, <1>2, <1>3, <1>4 DEF e

\* Whether it comes in time or after a reset, a reply is charged once and to
\* its session; in time, it is active and in the active total.
LEMMA ReplyStep ==
    ASSUME NEW d \in Database, NEW f, Consistent(d, f), d.revision = 2,
           NEW x \in Exchange, UnderWay(d, x)
    PROVE  /\ AfterReply(d, x) \in Database
           /\ AfterReply(d, x).revision = 2
           /\ Consistent(AfterReply(d, x), f)
           /\ KeepsBilled(d, AfterReply(d, x))
<1> DEFINE s == x.session
           r == x.of
           t == [session |-> s, of |-> r, generation |-> x.generation]
           e == AfterReply(d, x)
<1>1. /\ e.revision = 2 /\ e.turns = d.turns \cup {t}
      /\ e.generation = d.generation
      /\ e.total = [d.total EXCEPT ![s] = x.total \cup {r}]
      /\ e.lifetime = [d.lifetime EXCEPT ![s] = x.lifetime \cup {r}]
  BY DEF Database, AfterReply
<1>2. /\ s \in SessionId /\ r \in Reply /\ t \in Turn
      /\ x.total \cup {r} \in SUBSET Reply
      /\ x.lifetime \cup {r} \in SUBSET Reply
  BY DEF Exchange, Turn
<1>3. e \in Database
  <2> DEFINE total == [d.total EXCEPT ![s] = x.total \cup {r}]
             lifetime == [d.lifetime EXCEPT ![s] = x.lifetime \cup {r}]
             turns == d.turns \cup {t}
             d1 == [d EXCEPT !.turns = turns]
             d2 == [d1 EXCEPT !.total = total]
             d3 == [d2 EXCEPT !.lifetime = lifetime]
  <2>1. /\ total \in [SessionId -> SUBSET Reply]
        /\ lifetime \in [SessionId -> SUBSET Reply]
        /\ turns \in SUBSET Turn
    BY <1>2 DEF Database
  <2>2. e = d3
    BY DEF AfterReply, Database
  <2> HIDE DEF total, lifetime, turns, e
  <2>3. d1 \in Database
    BY <2>1 DEF Database
  <2> HIDE DEF d1
  <2>4. d2 \in Database
    BY <2>1, <2>3 DEF Database
  <2> HIDE DEF d2
  <2>5. d3 \in Database
    BY <2>1, <2>4 DEF Database
  <2> QED
    BY <2>2, <2>5
<1>4. KeepsBilled(d, e)
  BY <1>1 DEF KeepsBilled, Spent
<1>5. /\ Spent(e, s) = Spent(d, s) \cup {r}
      /\ r \notin Spent(d, s)
      /\ x.generation = d.generation[s] => Active(e, s) = Active(d, s) \cup {r}
      /\ x.generation # d.generation[s] => Active(e, s) = Active(d, s)
  <2>1. t.session = s /\ t.of = r /\ t.generation = x.generation
    OBVIOUS
  <2>2. \A u : u \in e.turns <=> u \in d.turns \/ u = t
    BY <1>1
  <2> HIDE DEF e, t
  <2>3. Spent(e, s) = Spent(d, s) \cup {r}
    BY <1>2, <2>1, <2>2 DEF Spent
  <2>4. /\ x.generation = d.generation[s] => Active(e, s) = Active(d, s) \cup {r}
        /\ x.generation # d.generation[s] => Active(e, s) = Active(d, s)
    BY <1>1, <1>2, <2>1, <2>2 DEF Active
  <2> QED
    BY <2>3, <2>4 DEF Spent, UnderWay
<1>6. ASSUME NEW z \in SessionId, z # s
      PROVE  Spent(e, z) = Spent(d, z) /\ Active(e, z) = Active(d, z)
  BY <1>1, <1>6 DEF Spent, Active
<1>7. ASSUME NEW z \in SessionId
      PROVE  /\ e.lifetime[z] = Spent(e, z) \ f[z]
             /\ e.total[z] \subseteq e.lifetime[z]
             /\ Active(e, z) \ e.total[z] \subseteq f[z]
             /\ f[z] \subseteq Spent(e, z)
  <2>1. /\ d.lifetime[z] = Spent(d, z) \ f[z]
        /\ d.total[z] \subseteq d.lifetime[z]
        /\ Active(d, z) \ d.total[z] \subseteq f[z]
        /\ f[z] \subseteq Spent(d, z)
    BY DEF Consistent
  <2>2. CASE z = s
    <3>1. /\ x.lifetime = d.lifetime[z]
          /\ x.total \subseteq x.lifetime
          /\ x.generation = d.generation[z] => x.total = d.total[z]
          /\ x.generation # d.generation[z] => Active(d, z) = {}
      BY <2>2 DEF UnderWay, Database, Exchange
    <3>2. e.total[z] = x.total \cup {r} /\ e.lifetime[z] = x.lifetime \cup {r}
      BY <1>1, <2>2 DEF Database
    <3> HIDE DEF e, s, r, t
    <3>3. CASE x.generation = d.generation[z]
      BY <1>5, <2>1, <2>2, <3>1, <3>2, <3>3
    <3>4. CASE x.generation # d.generation[z]
      BY <1>5, <2>1, <2>2, <3>1, <3>2, <3>4
    <3> QED
      BY <3>3, <3>4
  <2>3. CASE z # s
    BY <1>1, <1>6, <2>1, <2>3 DEF Database
  <2> QED
    BY <2>2, <2>3
<1>8. \A u \in e.turns : u.generation <= e.generation[u.session]
  BY <1>1 DEF Consistent, UnderWay
<1> HIDE DEF e
<1> QED
  BY <1>1, <1>3, <1>4, <1>7, <1>8 DEF Consistent, e

LEMMA ResetStep ==
    ASSUME NEW d \in Database, NEW f, Consistent(d, f), d.revision = 2,
           NEW s \in SessionId, d.generation[s] < MaxGeneration
    PROVE  /\ AfterReset(d, s) \in Database
           /\ AfterReset(d, s).revision = 2
           /\ Consistent(AfterReset(d, s), f)
           /\ KeepsBilled(d, AfterReset(d, s))
<1> DEFINE e == AfterReset(d, s)
<1>1. /\ e.revision = 2 /\ e.turns = d.turns /\ e.lifetime = d.lifetime
      /\ e.generation = [d.generation EXCEPT ![s] = @ + 1]
      /\ e.total = [d.total EXCEPT ![s] = {}]
  BY DEF Database, AfterReset
<1>2. e \in Database
  <2>1. d.generation[s] + 1 \in 1 .. MaxGeneration
    BY MigrationAssumption DEF Database
  <2> QED
    BY <1>1, <2>1 DEF Database, AfterReset
<1>3. \A z \in SessionId : Spent(e, z) = Spent(d, z)
  BY <1>1 DEF Spent
<1>4. \A t \in e.turns : t.generation <= e.generation[t.session]
  BY <1>1 DEF Consistent, Database, Turn
<1>5. Active(e, s) = {}
  BY <1>1 DEF Active, Consistent, Database, Turn
<1>6. ASSUME NEW z \in SessionId, z # s
      PROVE  Active(e, z) = Active(d, z)
  BY <1>1, <1>6 DEF Active, Database
<1>7. ASSUME NEW z \in SessionId
      PROVE  /\ e.lifetime[z] = Spent(e, z) \ f[z]
             /\ e.total[z] \subseteq e.lifetime[z]
             /\ Active(e, z) \ e.total[z] \subseteq f[z]
             /\ f[z] \subseteq Spent(e, z)
  <2>1. /\ d.lifetime[z] = Spent(d, z) \ f[z]
        /\ d.total[z] \subseteq d.lifetime[z]
        /\ Active(d, z) \ d.total[z] \subseteq f[z]
        /\ f[z] \subseteq Spent(d, z)
    BY DEF Consistent
  <2>2. CASE z = s
    BY <1>1, <1>3, <1>5, <2>1, <2>2 DEF Database
  <2>3. CASE z # s
    BY <1>1, <1>3, <1>6, <2>1, <2>3 DEF Database
  <2> QED
    BY <2>2, <2>3
<1> QED
  BY <1>1, <1>2, <1>3, <1>4, <1>7 DEF Consistent, KeepsBilled

-----------------------------------------------------------------------------
(* What the service does leaves the other exchanges as they should be.     *)

LEMMA QuestionLeavesExchanges ==
    ASSUME NEW d \in Database, NEW s \in SessionId, NEW x \in Exchange,
           NEW f, Consistent(d, f), d.revision = 2, UnderWay(d, x)
    PROVE  UnderWay(AfterQuestion(d, s), x)
<1>1. x.session \in SessionId
  BY DEF Exchange
<1> QED
  BY <1>1, QuestionStep DEF UnderWay

LEMMA ResetLeavesExchanges ==
    ASSUME NEW d \in Database, NEW f, Consistent(d, f), d.revision = 2,
           NEW s \in SessionId, d.generation[s] < MaxGeneration,
           NEW x \in Exchange, UnderWay(d, x)
    PROVE  UnderWay(AfterReset(d, s), x)
<1> DEFINE e == AfterReset(d, s)
<1>1. /\ e.turns = d.turns /\ e.lifetime = d.lifetime
      /\ e.generation = [d.generation EXCEPT ![s] = @ + 1]
      /\ e.total = [d.total EXCEPT ![s] = {}]
  BY DEF Database, AfterReset
<1>2. /\ x.session \in SessionId /\ x.generation \in Nat
      /\ d.generation[s] \in Nat
  BY DEF Exchange, Database
<1> HIDE DEF e
<1>3. CASE x.session = s
  <2>1. e.generation[s] = d.generation[s] + 1
    BY <1>1 DEF Database
  <2>2. Active(e, s) = {}
    BY <1>1, <1>2, <2>1 DEF Active, Consistent, Database, Turn
  <2> QED
    BY <1>1, <1>2, <1>3, <2>1, <2>2 DEF UnderWay, e
<1>4. CASE x.session # s
  <2>1. /\ e.generation[x.session] = d.generation[x.session]
        /\ e.total[x.session] = d.total[x.session]
        /\ Active(e, x.session) = Active(d, x.session)
    BY <1>1, <1>2, <1>4 DEF Active, Database
  <2> QED
    BY <1>1, <2>1 DEF UnderWay, e
<1> QED
  BY <1>3, <1>4 DEF e

LEMMA ReplyLeavesExchanges ==
    ASSUME NEW d \in Database, NEW x \in Exchange, NEW y \in Exchange,
           x.session # y.session, x.of # y.of, UnderWay(d, y)
    PROVE  UnderWay(AfterReply(d, x), y)
<1> DEFINE t == [session |-> x.session, of |-> x.of, generation |-> x.generation]
           e == AfterReply(d, x)
           s == y.session
<1>1. /\ e.turns = d.turns \cup {t}
      /\ e.generation = d.generation
      /\ e.total = [d.total EXCEPT ![x.session] = x.total \cup {x.of}]
      /\ e.lifetime = [d.lifetime EXCEPT ![x.session] = x.lifetime \cup {x.of}]
  BY DEF Database, AfterReply
<1>2. t.session = x.session /\ t.of = x.of
  OBVIOUS
<1>3. s \in SessionId
  BY DEF Exchange
<1> HIDE DEF e, t
<1>4. e.total[s] = d.total[s] /\ e.lifetime[s] = d.lifetime[s]
  BY <1>1, <1>3 DEF Database
<1>5. Active(e, s) = Active(d, s)
  BY <1>1, <1>2 DEF Active
<1> QED
  BY <1>1, <1>2, <1>4, <1>5 DEF UnderWay, e

-----------------------------------------------------------------------------
(* The invariant.                                                          *)

\* The database of the release before generations is consistent.
LEMMA FirstReleaseIsConsistent ==
    ASSUME NEW turns \in SUBSET Turn, \A t \in turns : t.generation = 1,
           NEW f, \A s \in SessionId : f[s] = {}
    PROVE  /\ FirstRelease(turns) \in Database
           /\ FirstRelease(turns).revision = 1
           /\ Consistent(FirstRelease(turns), f)
<1> DEFINE d1 == [EmptyDatabase EXCEPT !.revision = 1]
           d2 == [d1 EXCEPT !.turns = turns]
           d == [d2 EXCEPT !.sessions = {t.session : t \in turns}]
           all == [s \in SessionId |-> Spent(d, s)]
           asked == [s \in SessionId |-> {1 : r \in Spent(d, s)}]
           d3 == [d EXCEPT !.total = all]
           e == [d3 EXCEPT !.asked = asked]
<1>1. d1 \in Database /\ d1.revision = 1 /\ d1.generation = [s \in SessionId |-> 1]
  <2>1. /\ EmptyDatabase \in Database
        /\ EmptyDatabase.generation = [s \in SessionId |-> 1]
    BY EmptyIsConsistent DEF EmptyDatabase
  <2> QED
    BY <2>1 DEF Database
<1> HIDE DEF d1
<1>2. d2 \in Database /\ d2.revision = 1 /\ d2.turns = turns
      /\ d2.generation = [s \in SessionId |-> 1]
  BY <1>1 DEF Database
<1> HIDE DEF d2
<1>3. /\ d \in Database /\ d.revision = 1 /\ d.turns = turns
      /\ d.generation = [s \in SessionId |-> 1]
  <2>1. {t.session : t \in turns} \subseteq SessionId
    BY DEF Turn
  <2> QED
    BY <1>2, <2>1 DEF Database
<1>4. FirstRelease(turns) = e
  <2>1. d = [EmptyDatabase EXCEPT !.revision = 1, !.turns = turns,
                                  !.sessions = {t.session : t \in turns}]
    BY DEF d1, d2
  <2> QED
    BY <2>1 DEF FirstRelease
<1> HIDE DEF d
<1>5. /\ all \in [SessionId -> SUBSET Reply]
      /\ asked \in [SessionId -> SUBSET (1 .. MaxGeneration)]
  BY MigrationAssumption DEF Spent
<1>6. \A s \in SessionId : all[s] = Spent(d, s)
  OBVIOUS
<1> HIDE DEF all, asked
<1>7. /\ e \in Database /\ e.revision = 1 /\ e.turns = turns /\ e.total = all
      /\ e.generation = [s \in SessionId |-> 1]
  <2>1. /\ d3 \in Database /\ d3.revision = 1 /\ d3.turns = turns
        /\ d3.total = all /\ d3.generation = [s \in SessionId |-> 1]
    BY <1>3, <1>5 DEF Database
  <2> HIDE DEF d3
  <2> QED
    BY <1>5, <2>1 DEF Database
<1> HIDE DEF e
<1>8. \A s \in SessionId : Spent(e, s) = all[s]
  <2>1. e.turns = d.turns
    BY <1>3, <1>7
  <2>2. \A s \in SessionId : Spent(e, s) = Spent(d, s)
    BY <2>1 DEF Spent
  <2> QED
    BY <1>6, <2>2
<1>9. Consistent(e, f)
  BY <1>7, <1>8 DEF Consistent, Turn
<1> QED
  BY <1>4, <1>7, <1>9

LEMMA InitInvariant == Init => IInv
<1> SUFFICES ASSUME Init PROVE IInv
  OBVIOUS
<1>1. forgotten \in [SessionId -> SUBSET Reply]
      /\ \A s \in SessionId : forgotten[s] = {}
  BY DEF Init
<1>2. db \in Database /\ Consistent(db, forgotten)
  <2>1. CASE db = EmptyDatabase
    BY <1>1, <2>1, EmptyIsConsistent
  <2>2. ASSUME NEW paid \in SUBSET (SessionId \X Reply),
               db = FirstRelease({[session |-> p[1], of |-> p[2],
                                   generation |-> 1] : p \in paid})
        PROVE  db \in Database /\ Consistent(db, forgotten)
    <3> DEFINE turns == {[session |-> p[1], of |-> p[2], generation |-> 1] :
                            p \in paid}
    <3>1. turns \in SUBSET Turn /\ \A t \in turns : t.generation = 1
      BY MigrationAssumption DEF Turn
    <3> HIDE DEF turns
    <3>2. db = FirstRelease(turns)
      BY <2>2 DEF turns
    <3> QED
      BY <1>1, <3>1, <3>2, FirstReleaseIsConsistent
  <2> QED
    BY <2>1, <2>2 DEF Init
<1> QED
  BY <1>1, <1>2, EmptyIsConsistent, MigrationAssumption
  DEF Init, IInv, TypeOK, Coordinated, TxConsistent, InFlight, OnePerSession

\* What the service does to the committed database keeps the invariant.
LEMMA ServedStep ==
    ASSUME IInv, NEW e, NEW w, Served(e, w), e \in Database, e.revision = 2,
           w \subseteq Exchange, Consistent(e, forgotten),
           \A x \in w : UnderWay(e, x), OnePerSession(w)
    PROVE  IInv'
BY DEF IInv, Served, TypeOK, Coordinated, TxConsistent, InFlight

\* A statement of the upgrade keeps the invariant.
LEMMA UpgradeStatement ==
    ASSUME IInv, NEW e, InTransaction("upgrade", e), e \in Database,
           Consistent(e, forgotten), KeepsBilled(tx, e)
    PROVE  IInv'
<1>1. /\ alembic = "upgrade" /\ tx' = e
      /\ UNCHANGED <<db, awaiting, alembic, container, downgrades, crashes,
                     forgotten>>
  BY DEF InTransaction
<1>2. KeepsBilled(db, e)
  BY <1>1 DEF IInv, TxConsistent, KeepsBilled
<1>3. TypeOK' /\ Coordinated' /\ Consistent(db, forgotten)' /\ InFlight'
  BY <1>1 DEF IInv, TypeOK, Coordinated, InFlight
<1>4. TxConsistent'
  BY <1>1, <1>2 DEF TxConsistent
<1> QED
  BY <1>3, <1>4 DEF IInv

LEMMA NextInvariant == IInv /\ [Next]_vars => IInv'
<1> SUFFICES ASSUME IInv, [Next]_vars PROVE IInv'
  OBVIOUS
<1> USE DEF IInv
<1>1. CASE StartContainer
  <2>1. KeepsBilled(db, db)
    BY DEF KeepsBilled
  <2> QED
    BY <1>1, <2>1 DEF StartContainer, TypeOK, Coordinated, TxConsistent, InFlight
<1>2. CASE CreateTables
  <2>1. tx \in Database /\ tx.revision = 0 /\ Consistent(tx, forgotten)
    BY <1>2 DEF CreateTables, InTransaction, TypeOK, TxConsistent
  <2> QED
    BY <1>2, <2>1, CreateTablesStep, UpgradeStatement DEF CreateTables
<1>3. CASE AddGenerations
  <2>1. tx \in Database /\ tx.revision = 1 /\ Consistent(tx, forgotten)
    BY <1>3 DEF AddGenerations, InTransaction, TypeOK, TxConsistent
  <2> QED
    BY <1>3, <2>1, AddColumnsStep, UpgradeStatement DEF AddGenerations
<1>4. CASE FillLifetime
  <2>1. tx \in Database /\ tx.revision = 1 /\ Consistent(tx, forgotten)
    BY <1>4 DEF FillLifetime, InTransaction, TypeOK, TxConsistent
  <2> QED
    BY <1>4, <2>1, CopyTotalsStep, UpgradeStatement DEF FillLifetime
<1>5. CASE CommitUpgrade
  BY <1>5 DEF CommitUpgrade, TypeOK, Coordinated, TxConsistent, InFlight
<1>6. CASE StartDowngrade
  BY <1>6 DEF StartDowngrade, TypeOK, Coordinated, TxConsistent, InFlight
<1>7. CASE DropGenerations
  <2>1. /\ alembic = "downgrade" /\ tx.revision = 2 /\ tx' = DropColumns(tx)
        /\ UNCHANGED <<db, awaiting, alembic, container, downgrades, crashes,
                       forgotten>>
    BY <1>7 DEF DropGenerations, InTransaction
  <2>2. tx = db
    <3>1. tx \in {db, DropColumns(db), EmptyDatabase} /\ db.revision = 2
      BY <2>1 DEF TxConsistent, Coordinated
    <3>2. DropColumns(db).revision = 1
      BY <3>1, DropColumnsStep DEF TypeOK
    <3> QED
      BY <2>1, <3>1, <3>2, EmptyIsConsistent
  <2>3. DropColumns(db) \in Database
    BY <2>1, <2>2, DropColumnsStep DEF TypeOK
  <2> QED
    BY <2>1, <2>2, <2>3 DEF TypeOK, Coordinated, TxConsistent, InFlight
<1>8. CASE DropAll
  BY <1>8, EmptyIsConsistent
  DEF DropAll, InTransaction, DropTables, TypeOK, Coordinated, TxConsistent,
      InFlight
<1>9. CASE CommitDowngrade
  <2>1. /\ alembic = "downgrade" /\ tx.revision < 2 /\ db' = tx /\ tx' = tx
        /\ alembic' = "idle" /\ UNCHANGED <<awaiting, container, crashes>>
        /\ downgrades' = downgrades + 1
        /\ forgotten' = [s \in SessionId |->
                            IF tx.revision = 0 THEN {}
                            ELSE Spent(db, s) \ db.total[s]]
    BY <1>9 DEF CommitDowngrade
  <2>2. db.revision = 2 /\ container = "down" /\ tx \in {DropColumns(db), EmptyDatabase}
    BY <2>1 DEF TxConsistent, Coordinated
  <2>3. Consistent(tx, forgotten')
    <3>1. CASE tx = EmptyDatabase
      BY <2>1, <3>1, EmptyIsConsistent
    <3>2. CASE tx = DropColumns(db)
      <4>1. tx.revision = 1
        BY <2>2, <3>2, DropColumnsStep DEF TypeOK
      <4>2. forgotten' = [s \in SessionId |-> Spent(db, s) \ db.total[s]]
        BY <2>1, <4>1
      <4> QED
        BY <2>2, <3>2, <4>2, DropColumnsStep DEF TypeOK
    <3> QED
      BY <2>2, <3>1, <3>2
  <2>4. awaiting = {}
    BY <2>2 DEF Coordinated
  <2>5. forgotten' \in [SessionId -> SUBSET Reply]
    BY <2>1 DEF Spent
  <2> QED
    BY <2>1, <2>2, <2>3, <2>4, <2>5, MigrationAssumption
    DEF TypeOK, Coordinated, TxConsistent, InFlight, OnePerSession
<1>10. CASE MigrationCrashes
  BY <1>10, MigrationAssumption
  DEF MigrationCrashes, TypeOK, Coordinated, TxConsistent, InFlight
<1>11. CASE ContainerStops
  BY <1>11
  DEF ContainerStops, TypeOK, Coordinated, TxConsistent, InFlight, OnePerSession
<1>12. ASSUME NEW s \in SessionId, OpenSession(s)
       PROVE  IInv'
  <2> DEFINE e == [db EXCEPT !.sessions = @ \cup {s}]
  <2>1. db.revision = 2
    BY <1>12 DEF OpenSession, Served, Coordinated
  <2>2. e \in Database /\ e.revision = 2 /\ e.turns = db.turns
        /\ e.generation = db.generation /\ e.total = db.total
        /\ e.lifetime = db.lifetime
    BY <2>1 DEF TypeOK, Database
  <2>3. Served(e, awaiting)
    BY <1>12 DEF OpenSession
  <2> HIDE DEF e
  <2>4. \A z \in SessionId : Spent(e, z) = Spent(db, z) /\ Active(e, z) = Active(db, z)
    BY <2>2 DEF Spent, Active
  <2>5. Consistent(e, forgotten)
    BY <2>1, <2>2, <2>4 DEF Consistent
  <2>6. \A x \in awaiting : UnderWay(e, x)
    BY <2>2, <2>4 DEF InFlight, UnderWay, TypeOK, Exchange
  <2> QED
    BY <2>2, <2>3, <2>5, <2>6, ServedStep DEF TypeOK, InFlight
<1>13. ASSUME NEW s \in SessionId, Reset(s)
       PROVE  IInv'
  <2>1. /\ Served(AfterReset(db, s), awaiting)
        /\ db.generation[s] < MaxGeneration
        /\ db \in Database /\ db.revision = 2 /\ Consistent(db, forgotten)
    BY <1>13 DEF Reset, Served, Coordinated, TypeOK
  <2>2. \A x \in awaiting : UnderWay(AfterReset(db, s), x)
    BY <2>1, ResetLeavesExchanges DEF InFlight, TypeOK
  <2> QED
    BY <2>1, <2>2, ResetStep, ServedStep DEF TypeOK, InFlight
<1>14. ASSUME NEW s \in SessionId, NEW r \in Reply, Ask(s, r)
       PROVE  IInv'
  <2> DEFINE x == [session |-> s, of |-> r, generation |-> db.generation[s],
                   total |-> db.total[s], lifetime |-> db.lifetime[s]]
             e == AfterQuestion(db, s)
             w == LastAsked(awaiting, x)
  <2>1. /\ Served(e, w)
        /\ \A t \in db.turns \cup awaiting : t.of # r
        /\ db \in Database /\ db.revision = 2 /\ Consistent(db, forgotten)
    BY <1>14 DEF Ask, Served, Coordinated, TypeOK
  <2>2. x \in Exchange /\ x.session = s /\ x.of = r
    BY <2>1 DEF Exchange, Database
  <2>3. w \subseteq Exchange
    BY <2>2 DEF LastAsked, TypeOK
  <2>4. OnePerSession(w)
    BY <2>1, <2>2 DEF InFlight, OnePerSession, LastAsked
  <2>5. UnderWay(db, x)
    <3>1. db.total[s] \subseteq db.lifetime[s] /\ db.generation[s] \in Nat
      BY <2>1 DEF Consistent, Database
    <3> QED
      BY <2>1, <3>1 DEF UnderWay
  <2>6. \A y \in w : UnderWay(db, y)
    BY <2>5 DEF LastAsked, InFlight
  <2> HIDE DEF x, w
  <2>7. \A y \in w : UnderWay(e, y)
    BY <2>1, <2>3, <2>6, QuestionLeavesExchanges
  <2>8. e \in Database /\ Consistent(e, forgotten) /\ e.revision = 2
    BY <2>1, QuestionStep
  <2> HIDE DEF e
  <2> QED
    BY <2>1, <2>3, <2>4, <2>7, <2>8, ServedStep
<1>15. ASSUME NEW x \in awaiting, Answer(x)
       PROVE  IInv'
  <2> DEFINE e == AfterReply(db, x)
             w == awaiting \ {x}
  <2>1. /\ Served(e, w) /\ x \in Exchange /\ UnderWay(db, x)
        /\ db \in Database /\ db.revision = 2 /\ Consistent(db, forgotten)
    BY <1>15 DEF Answer, Served, Coordinated, TypeOK, InFlight
  <2>2. w \subseteq Exchange /\ OnePerSession(w)
    BY DEF TypeOK, InFlight, OnePerSession
  <2>3. ASSUME NEW y \in w PROVE UnderWay(e, y)
    <3>1. y \in Exchange /\ UnderWay(db, y)
          /\ x.session # y.session /\ x.of # y.of
      BY DEF TypeOK, InFlight, OnePerSession
    <3> QED
      BY <2>1, <3>1, ReplyLeavesExchanges
  <2>4. e \in Database /\ Consistent(e, forgotten) /\ e.revision = 2
    BY <2>1, ReplyStep
  <2> HIDE DEF e, w
  <2> QED
    BY <2>1, <2>2, <2>3, <2>4, ServedStep
<1>16. CASE UNCHANGED vars
  BY <1>16 DEF vars, TypeOK, Coordinated, TxConsistent, InFlight
<1> QED
  BY <1>1, <1>2, <1>3, <1>4, <1>5, <1>6, <1>7, <1>8, <1>9, <1>10, <1>11,
     <1>12, <1>13, <1>14, <1>15, <1>16
  DEF Next, Upgrading

LEMMA Invariance == Spec => []IInv
BY InitInvariant, NextInvariant, PTL DEF Spec

-----------------------------------------------------------------------------
\* Type correctness.
THEOREM TypeCorrect == Spec => []TypeOK
BY Invariance, PTL DEF IInv

\* Migrations lose no spending but what was archived at a downgrade.
THEOREM LifetimeLacksTheForgotten == Spec => []LifetimeLacksOnlyForgotten
<1>1. IInv => LifetimeLacksOnlyForgotten
  BY DEF IInv, Consistent, LifetimeLacksOnlyForgotten
<1> QED
  BY <1>1, Invariance, PTL

\* Active turns that the active total lacks came back by a downgrade, and the
\* active total is part of the lifetime one, whatever exchanges, resets and
\* migrations came between a question and its reply.
THEOREM ReturnedTurnsWereForgotten == Spec => []ReturnedTurnsAreForgotten
<1>1. IInv => ReturnedTurnsAreForgotten
  BY DEF IInv, Consistent, ReturnedTurnsAreForgotten
<1> QED
  BY <1>1, Invariance, PTL

\* The service runs on the newest schema only.
THEOREM OnlyHeadIsServed == Spec => []ServesOnlyHead
<1>1. IInv => ServesOnlyHead
  BY DEF IInv, Coordinated, ServesOnlyHead
<1> QED
  BY <1>1, Invariance, PTL

\* No billed reply leaves the report, short of dropping the tables.
THEOREM ReportsSurvive == Spec => ReportSurvives
<1>1. IInv /\ [Next]_vars => [db'.revision # 0 => KeepsBilled(db, db')]_vars
  <2> SUFFICES ASSUME IInv, Next, db'.revision # 0
               PROVE  KeepsBilled(db, db')
    OBVIOUS
  <2> USE DEF IInv
  <2>1. CASE db' = db
    BY <2>1 DEF KeepsBilled
  <2>2. CASE CommitUpgrade
    BY <2>2 DEF CommitUpgrade, TxConsistent
  <2>3. CASE CommitDowngrade
    <3>1. /\ db.revision = 2 /\ db' = tx /\ tx.revision < 2
          /\ tx \in {db, DropColumns(db), EmptyDatabase}
      BY <2>3 DEF CommitDowngrade, TxConsistent, Coordinated
    <3>2. db' = DropColumns(db)
      BY <3>1, EmptyIsConsistent
    <3> QED
      BY <3>1, <3>2, DropColumnsStep DEF TypeOK
  <2>4. ASSUME NEW s \in SessionId, OpenSession(s)
        PROVE  KeepsBilled(db, db')
    <3>1. db'.turns = db.turns
      BY <2>4 DEF OpenSession, Served, TypeOK, Database
    <3> QED
      BY <3>1 DEF KeepsBilled, Spent
  <2>5. ASSUME NEW s \in SessionId, Reset(s)
        PROVE  KeepsBilled(db, db')
    BY <2>5, ResetStep DEF Reset, Served, TypeOK, Coordinated
  <2>6. ASSUME NEW s \in SessionId, NEW r \in Reply, Ask(s, r)
        PROVE  KeepsBilled(db, db')
    <3>1. db'.turns = db.turns
      BY <2>6, QuestionStep DEF Ask, Served, TypeOK, Coordinated
    <3> QED
      BY <3>1 DEF KeepsBilled, Spent
  <2>7. ASSUME NEW x \in awaiting, Answer(x)
        PROVE  KeepsBilled(db, db')
    <3>1. /\ db' = AfterReply(db, x) /\ x \in Exchange /\ UnderWay(db, x)
          /\ db \in Database /\ db.revision = 2 /\ Consistent(db, forgotten)
      BY <2>7 DEF Answer, Served, TypeOK, Coordinated, InFlight
    <3> QED
      BY <3>1, ReplyStep
  <2> QED
    BY <2>1, <2>2, <2>3, <2>4, <2>5, <2>6, <2>7
    DEF Next, Upgrading, StartContainer, CreateTables, AddGenerations,
        FillLifetime, StartDowngrade, DropGenerations, DropAll,
        MigrationCrashes, ContainerStops, InTransaction
<1> QED
  BY <1>1, Invariance, PTL DEF Spec, ReportSurvives
=============================================================================
