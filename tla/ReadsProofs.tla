----------------------------- MODULE ReadsProofs -----------------------------
(***************************************************************************)
(* Proofs about Reads.  A reader changes nothing that the service knows,   *)
(* so what is proved of ChatService holds while pages and reports are read.*)
(***************************************************************************)
EXTENDS Reads, ChatServiceProofs

\* One statement of a read leaves the service alone.
LEMMA ReadsLeaveService ==
    ASSUME [ReadsNext]_readsVars
    PROVE  [Next]_vars
BY DEF ReadsNext, Serve, DayPasses, ReadSession, ReadMessages, CountSessions,
       ReadOverall, ReadByModel, ReadByDay, ReadFailed, Read, readsVars

\* Readers are invisible to the service: every behaviour with readers is one
\* of the service.
THEOREM ReadersAreInvisible == ReadsSpec => Spec
<1>1. ReadsInit => Init
  BY DEF ReadsInit
<1> QED
  BY <1>1, ReadsLeaveService, PTL DEF ReadsSpec, Spec

-----------------------------------------------------------------------------
\* Type correctness of the readers.
THEOREM ReadsTypeCorrect == ReadsSpec => []ReadsTypeOK
<1>1. ReadsInit => ReadsTypeOK
  <2> SUFFICES ASSUME ReadsInit PROVE ReadsTypeOK
    OBVIOUS
  <2>1. (CHOOSE s \in SessionId : TRUE) \in SessionId
    BY ReadsAssumption
  <2>2. NewRow(DefaultModel) \in Row
    BY ConfigAssumption DEF NewRow, Row
  <2>3. seen \in Seen
    BY <2>1, <2>2 DEF ReadsInit, Seen
  <2> QED
    BY <2>3, ReadsAssumption DEF ReadsInit, ReadsTypeOK, ReadStep
<1>2. TypeOK /\ ReadsTypeOK /\ [ReadsNext]_readsVars => ReadsTypeOK'
  <2> SUFFICES ASSUME TypeOK, ReadsTypeOK, [ReadsNext]_readsVars
               PROVE  ReadsTypeOK'
    OBVIOUS
  <2> USE DEF ReadsTypeOK, ReadStep, Read
  <2>1. CASE Serve
    BY <2>1 DEF Serve
  <2>2. CASE DayPasses
    BY <2>2, ReadsAssumption DEF DayPasses
  <2>3. ASSUME NEW s \in SessionId, ReadSession(s)
        PROVE  ReadsTypeOK'
    BY <2>3 DEF ReadSession, Seen, TypeOK
  <2>4. CASE ReadMessages
    <3>1. PageMessages(seen.session, seen.row.generation) \in SUBSET Message
      BY DEF PageMessages, Dialogue, TypeOK
    <3> QED
      BY <2>4, <3>1 DEF ReadMessages, Seen
  <2>5. CASE CountSessions
    BY <2>5 DEF CountSessions, Seen, TypeOK
  <2>6. CASE ReadOverall
    BY <2>6 DEF ReadOverall, Seen, TypeOK
  <2>7. CASE ReadByModel
    <3>1. ByModel \in [Model -> SUBSET Request]
      BY DEF ByModel, BilledAs, TypeOK
    <3> QED
      BY <2>7, <3>1 DEF ReadByModel, Seen
  <2>8. CASE ReadByDay
    <3>1. ByDay \in [0 .. MaxDay -> SUBSET Request]
      BY DEF ByDay, OnDay, TypeOK
    <3> QED
      BY <2>8, <3>1 DEF ReadByDay, Seen
  <2>9. CASE ReadFailed
    <3>1. BilledAs({"failed"}) \in SUBSET Request
      BY DEF BilledAs, TypeOK
    <3> QED
      BY <2>9, <3>1 DEF ReadFailed, Seen
  <2>10. CASE UNCHANGED readsVars
    BY <2>10 DEF readsVars
  <2> QED
    BY <2>1, <2>2, <2>3, <2>4, <2>5, <2>6, <2>7, <2>8, <2>9, <2>10
    DEF ReadsNext
<1> QED
  BY <1>1, <1>2, ReadersAreInvisible, TypeCorrect, PTL DEF ReadsSpec

-----------------------------------------------------------------------------
(* A page never counts what it does not show.                              *)

\* Exchange r of session s has ended, and question and reply are stored.
Complete(r, s) ==
    /\ pc[r] = "done"
    /\ sid[r] = s
    /\ Asked(r)
    /\ \E m \in messages : m.of = r /\ m.role = "assistant"

\* What the session row counted when it was read is stored for good.
CountedIsComplete ==
    at \in {"session_read", "page_done"} =>
        \A r \in seen.row.total : Complete(r, seen.session)

PageInv == CountedIsComplete /\ PageShowsWhatItCounts

\* Every charge of an active total is an exchange that is complete.
LEMMA TotalsAreComplete ==
    ASSUME TypeOK, IInv, NEW s \in SessionId, NEW r \in row[s].total
    PROVE  r \in Request /\ Complete(r, s)
<1>1. r \in Answered(s)
  BY DEF IInv, ActiveTotalCovers, LifetimeExact
<1>2. PICK m \in messages : /\ m.session = s
                            /\ m.role = "assistant"
                            /\ m.of = r
  BY <1>1 DEF Answered
<1>3. r \in Request
  BY <1>2 DEF TypeOK, Message
<1> QED
  BY <1>2, <1>3 DEF Complete, IInv, Origins

\* A complete exchange stays as it is.
LEMMA CompleteStays ==
    ASSUME TypeOK, [Next]_vars, NEW r \in Request, NEW s, Complete(r, s)
    PROVE  /\ Complete(r, s)'
           /\ UserMessage(r)' = UserMessage(r)
           /\ loaded'[r] = loaded[r]
<1>1. /\ pc'[r] = "done" /\ sid'[r] = sid[r] /\ loaded'[r] = loaded[r]
      /\ seq'[r] = seq[r] /\ messages \subseteq messages'
  BY EndedCallsRest DEF Complete
<1>2. UserMessage(r)' = UserMessage(r)
  BY <1>1 DEF UserMessage
<1> QED
  BY <1>1, <1>2 DEF Complete, Asked

\* The messages of a page hold every counted exchange of its generation.
LEMMA PageHoldsCounted ==
    ASSUME TypeOK, IInv, NEW s \in SessionId, NEW g,
           NEW r \in Request, Complete(r, s), loaded[r].generation = g
    PROVE  /\ UserMessage(r) \in PageMessages(s, g)
           /\ \E m \in PageMessages(s, g) : m.of = r /\ m.role = "assistant"
<1>1. UserMessage(r) \in PageMessages(s, g)
  BY DEF Complete, Asked, UserMessage, PageMessages, Dialogue
<1>2. PICK m \in messages : m.of = r /\ m.role = "assistant"
  BY DEF Complete
<1>3. m.session = s /\ m.generation = g
  BY <1>2 DEF IInv, Origins, Complete
<1> QED
  BY <1>1, <1>2, <1>3 DEF PageMessages, Dialogue

\* Every statement of a read, and every step of the service, keeps the page
\* consistent with what it counts.
LEMMA PageStep ==
    ASSUME TypeOK, IInv, ReadsTypeOK, PageInv, [ReadsNext]_readsVars
    PROVE  PageInv'
<1>1. CASE [Next]_vars /\ UNCHANGED <<at, seen>>
  <2>1. ASSUME at \in {"session_read", "page_done"},
               NEW r \in seen.row.total
        PROVE  /\ Complete(r, seen.session)'
               /\ UserMessage(r)' = UserMessage(r)
               /\ loaded'[r] = loaded[r]
    <3>1. r \in Request /\ Complete(r, seen.session)
      BY <2>1 DEF PageInv, CountedIsComplete, ReadsTypeOK, Seen, Row
    <3>2. PICK s : s = seen.session
      OBVIOUS
    <3>3. Complete(r, s)' /\ UserMessage(r)' = UserMessage(r)
          /\ loaded'[r] = loaded[r]
      BY <1>1, <3>1, <3>2, CompleteStays
    <3> QED
      BY <1>1, <3>2, <3>3 DEF Complete
  <2>2. CountedIsComplete'
    BY <1>1, <2>1 DEF CountedIsComplete
  <2>3. PageShowsWhatItCounts'
    BY <1>1, <2>1 DEF PageShowsWhatItCounts, PageInv
  <2> QED
    BY <2>2, <2>3 DEF PageInv
<1>2. ASSUME NEW s \in SessionId, ReadSession(s)
      PROVE  PageInv'
  <2>1. at' = "session_read" /\ UNCHANGED vars
    BY <1>2 DEF ReadSession, Read
  <2>2. seen'.session = s /\ seen'.row = row[s]
    BY <1>2 DEF ReadSession, ReadsTypeOK, Seen
  <2>3. \A r \in row[s].total : Complete(r, s)
    BY TotalsAreComplete
  <2>4. \A r \in row[s].total : Complete(r, s)'
    BY <2>1, <2>3 DEF Complete, Asked, UserMessage, vars, dbVars, callVars,
                      localVars
  <2>5. CountedIsComplete'
    BY <2>1, <2>2, <2>4 DEF CountedIsComplete, Complete, vars, dbVars
  <2> QED
    BY <2>1, <2>5 DEF PageInv, PageShowsWhatItCounts
<1>3. CASE ReadMessages
  <2>1. at = "session_read" /\ at' = "page_done" /\ UNCHANGED vars
    BY <1>3 DEF ReadMessages, Read
  <2>2. /\ seen'.session = seen.session /\ seen'.row = seen.row
        /\ seen'.page = PageMessages(seen.session, seen.row.generation)
    BY <1>3 DEF ReadMessages, ReadsTypeOK, Seen
  <2>3. ASSUME NEW r \in seen.row.total
        PROVE  r \in Request /\ Complete(r, seen.session)
    BY <2>1 DEF PageInv, CountedIsComplete, ReadsTypeOK, Seen, Row
  <2>4. CountedIsComplete'
    BY <2>1, <2>2, <2>3
    DEF CountedIsComplete, Complete, Asked, UserMessage, vars, dbVars,
        callVars, localVars
  <2>5. ASSUME NEW r \in seen.row.total,
               loaded[r].generation = seen.row.generation
        PROVE  /\ UserMessage(r) \in seen'.page
               /\ \E m \in seen'.page : m.of = r /\ m.role = "assistant"
    BY <2>2, <2>3, <2>5, PageHoldsCounted DEF ReadsTypeOK, Seen
  <2>6. PageShowsWhatItCounts'
    BY <2>1, <2>2, <2>5
    DEF PageShowsWhatItCounts, UserMessage, vars, dbVars, callVars, localVars
  <2> QED
    BY <2>4, <2>6 DEF PageInv
<1>4. CASE CountSessions \/ ReadOverall \/ ReadByModel \/ ReadByDay \/ ReadFailed
  <2>1. at' \notin {"session_read", "page_done"}
    BY <1>4 DEF CountSessions, ReadOverall, ReadByModel, ReadByDay, ReadFailed,
                Read
  <2> QED
    BY <2>1 DEF PageInv, CountedIsComplete, PageShowsWhatItCounts
<1> QED
  BY <1>1, <1>2, <1>3, <1>4
  DEF ReadsNext, Serve, DayPasses, readsVars

\* Pages show what they count, whatever is committed between their two
\* statements.
THEOREM PagesShowWhatTheyCount == ReadsSpec => []PageShowsWhatItCounts
<1>1. ReadsInit => PageInv
  BY DEF ReadsInit, PageInv, CountedIsComplete, PageShowsWhatItCounts
<1>2. PageInv => PageShowsWhatItCounts
  BY DEF PageInv
<1> QED
  BY <1>1, <1>2, PageStep, ReadersAreInvisible, ReadsTypeCorrect, TypeCorrect,
     Invariance, PTL
  DEF ReadsSpec
-----------------------------------------------------------------------------
(* The parts of one spending report, for any number of calls, models and   *)
(* days: no part loses a reply that an earlier part has.                   *)

\* Replies that are billed are stored, and their calls have ended.
Recorded == \A r \in usage : pc[r] = "done" /\ AssistantMessage(r) \in messages

\* Every usage row is recorded with its message, and both rest.
LEMMA RecordedStep ==
    ASSUME TypeOK, Recorded, [Next]_vars
    PROVE  /\ Recorded'
           /\ usage \subseteq usage'
           /\ \A r \in usage : reply'[r] = reply[r]
<1>1. ASSUME NEW r \in usage
      PROVE  /\ r \in usage'
             /\ reply'[r] = reply[r]
             /\ pc'[r] = "done"
             /\ AssistantMessage(r)' \in messages'
  <2>1. r \in Request /\ pc[r] = "done" /\ AssistantMessage(r) \in messages
    BY DEF Recorded, TypeOK
  <2>2. /\ pc'[r] = "done" /\ sid'[r] = sid[r] /\ loaded'[r] = loaded[r]
        /\ seq'[r] = seq[r] /\ reply'[r] = reply[r]
        /\ messages \subseteq messages' /\ usage \subseteq usage'
    BY <2>1, EndedCallsRest
  <2>3. AssistantMessage(r)' = AssistantMessage(r)
    BY <2>2 DEF AssistantMessage
  <2> QED
    BY <2>1, <2>2, <2>3
<1>2. ASSUME NEW r \in Request, CommitExchange(r)
      PROVE  Recorded'
  <2>1. AssistantMessage(r)' = AssistantMessage(r)
    BY <1>2 DEF CommitExchange, AssistantMessage, callVars, localVars
  <2>2. /\ usage' = usage \cup {r}
        /\ AssistantMessage(r) \in messages'
        /\ pc'[r] = "done"
    BY <1>2 DEF CommitExchange, Finish, TypeOK
  <2> QED
    BY <1>1, <2>1, <2>2 DEF Recorded
<1>3. CASE UNCHANGED usage
  BY <1>1, <1>3 DEF Recorded
<1> QED
  BY <1>1, <1>2, <1>3, Writers
  DEF Recorded, dbVars, CreateSession, StoreUserMessage, StartNewGeneration

-----------------------------------------------------------------------------
(* The days of the curve.                                                  *)

\* Days up to MaxDay that have usage, and those after day d.
UsedDays == {d \in 0 .. MaxDay : OnDay(d) # {}}
UsedAfter(d) == {e \in d + 1 .. MaxDay : OnDay(e) # {}}

\* Days in an interval are finitely many.
LEMMA FiniteDays ==
    ASSUME NEW a \in Int, NEW b \in Int, NEW D \in SUBSET (a .. b)
    PROVE  IsFiniteSet(D) /\ Cardinality(D) \in Nat
<1>1. IsFiniteSet(a .. b)
  BY FS_Interval
<1> DEFINE Days == a .. b
<1> HIDE DEF Days
<1>2. IsFiniteSet(D)
  <2>1. IsFiniteSet(Days) /\ D \in SUBSET Days
    BY <1>1 DEF Days
  <2> QED
    BY <2>1, FS_Subset
<1> QED
  BY <1>2, FS_CardinalityType

\* A set of days that is not empty has a first and a last one.
LEMMA FirstAndLast ==
    ASSUME NEW D, D \subseteq 0 .. MaxDay, D # {}
    PROVE  /\ \E a \in D : \A d \in D : a <= d
           /\ \E z \in D : \A d \in D : d <= z
<1>1. IsFiniteSet(D)
  <2>1. 0 \in Int /\ MaxDay \in Int /\ D \in SUBSET (0 .. MaxDay)
    BY ReadsAssumption
  <2> QED
    BY <2>1, FiniteDays
<1>2. /\ [d \in D |-> -d] \in [D -> Int]
      /\ [d \in D |-> d] \in [D -> Int]
  BY ReadsAssumption
<1>3. PICK a \in D : \A d \in D : [e \in D |-> -e][d] <= [e \in D |-> -e][a]
  <2> DEFINE rank == [e \in D |-> -e]
  <2> HIDE DEF rank
  <2> SUFFICES \E a \in D : \A d \in D : rank[d] <= rank[a]
    BY DEF rank
  <2> QED
    <3>1. rank \in [D -> Int]
      BY <1>2 DEF rank
    <3> QED
      BY <1>1, <3>1, GreatestRank
<1>4. PICK z \in D : \A d \in D : [e \in D |-> e][d] <= [e \in D |-> e][z]
  <2> DEFINE rank == [e \in D |-> e]
  <2> HIDE DEF rank
  <2> SUFFICES \E z \in D : \A d \in D : rank[d] <= rank[z]
    BY DEF rank
  <2> QED
    <3>1. rank \in [D -> Int]
      BY <1>2 DEF rank
    <3> QED
      BY <1>1, <3>1, GreatestRank
<1>5. \A d \in D : a <= d /\ d <= z
  BY <1>3, <1>4, ReadsAssumption
<1> QED
  BY <1>5

\* The curve at one moment: at most DayLimit days, and a day with usage that
\* is not listed is older than every listed one, of which there are then
\* DayLimit.
LEMMA CurveIsTheLatest ==
    ASSUME NEW listed, listed = {d \in 0 .. MaxDay : ListedDay(d)}
    PROVE  /\ Cardinality(listed) <= DayLimit
           /\ \A e \in UsedDays \ listed :
                 /\ Cardinality(listed) = DayLimit
                 /\ \A d \in listed : e < d
<1>1. /\ IsFiniteSet(listed) /\ Cardinality(listed) \in Nat
      /\ \A d \in Int : IsFiniteSet(UsedAfter(d)) /\ Cardinality(UsedAfter(d)) \in Nat
  <2>1. listed \subseteq 0 .. MaxDay
    OBVIOUS
  <2>2. \A d \in Int : UsedAfter(d) \subseteq d + 1 .. MaxDay
    BY DEF UsedAfter
  <2> QED
    <3>1. 0 \in Int /\ MaxDay \in Int
      BY ReadsAssumption
    <3>2. IsFiniteSet(listed) /\ Cardinality(listed) \in Nat
      <4>1. listed \in SUBSET (0 .. MaxDay)
        BY <2>1
      <4> QED
        BY <3>1, <4>1, FiniteDays
    <3>3. ASSUME NEW d \in Int
          PROVE  IsFiniteSet(UsedAfter(d)) /\ Cardinality(UsedAfter(d)) \in Nat
      <4>1. UsedAfter(d) \in SUBSET (d + 1 .. MaxDay) /\ d + 1 \in Int
        BY <2>2
      <4> QED
        BY <3>1, <4>1, FiniteDays
    <3> QED
      BY <3>2, <3>3
<1>2. \A d \in 0 .. MaxDay :
          d \in listed <=> d \in UsedDays /\ Cardinality(UsedAfter(d)) < DayLimit
  BY DEF ListedDay, UsedDays, UsedAfter
<1>3. Cardinality(listed) <= DayLimit
  <2>1. CASE listed = {}
    BY <2>1, FS_EmptySet, ReadsAssumption
  <2>2. CASE listed # {}
    <3>1. PICK a \in listed : \A d \in listed : a <= d
      BY <2>2, FirstAndLast
    <3>2. listed \subseteq UsedAfter(a) \cup {a}
      <4> SUFFICES ASSUME NEW d \in listed, d # a PROVE d \in UsedAfter(a)
        OBVIOUS
      <4>1. d \in 0 .. MaxDay /\ a \in 0 .. MaxDay /\ a <= d
        BY <3>1
      <4>2. d \in a + 1 .. MaxDay
        BY <4>1, ReadsAssumption
      <4>3. OnDay(d) # {}
        BY <1>2, <4>1 DEF UsedDays
      <4> QED
        BY <4>2, <4>3 DEF UsedAfter
    <3>3. IsFiniteSet(UsedAfter(a))
      BY <1>1
    <3>4. /\ IsFiniteSet(UsedAfter(a) \cup {a})
          /\ Cardinality(UsedAfter(a) \cup {a}) \in Nat
          /\ Cardinality(UsedAfter(a) \cup {a}) <= Cardinality(UsedAfter(a)) + 1
      BY <3>3, AddOne
    <3>5. Cardinality(listed) <= Cardinality(UsedAfter(a) \cup {a})
      <4> DEFINE U == UsedAfter(a) \cup {a}
      <4>1. listed \in SUBSET U /\ IsFiniteSet(U)
        BY <3>2, <3>4
      <4> HIDE DEF U
      <4>2. Cardinality(listed) <= Cardinality(U)
        BY <4>1, FS_Subset
      <4> QED
        BY <4>2 DEF U
    <3>6. Cardinality(UsedAfter(a)) < DayLimit
      BY <1>2, <3>1
    <3> QED
      BY <1>1, <3>4, <3>5, <3>6, ReadsAssumption
  <2> QED
    BY <2>1, <2>2
<1>4. ASSUME NEW e \in UsedDays \ listed
      PROVE  /\ Cardinality(listed) = DayLimit
             /\ \A d \in listed : e < d
  <2>1. Cardinality(UsedAfter(e)) >= DayLimit
    BY <1>1, <1>2, <1>4, ReadsAssumption DEF UsedDays
  <2>2. ASSUME NEW d \in listed PROVE e < d
    <3>1. ASSUME d <= e PROVE FALSE
      <4>1. d # e /\ UsedAfter(e) \subseteq UsedAfter(d)
        BY <1>4, <3>1, ReadsAssumption DEF UsedAfter, UsedDays
      <4>2. Cardinality(UsedAfter(e)) <= Cardinality(UsedAfter(d))
        BY <1>1, <4>1, FS_Subset, ReadsAssumption
      <4> QED
        BY <1>1, <1>2, <1>4, <2>1, <4>2, ReadsAssumption DEF UsedDays
    <3> QED
      BY <1>4, <3>1, ReadsAssumption DEF UsedDays
  <2>3. PICK f \in UsedDays \ listed : \A d \in UsedDays \ listed : d <= f
    BY <1>4, FirstAndLast DEF UsedDays
  <2>4. UsedAfter(f) \subseteq listed
    BY <2>3, ReadsAssumption DEF UsedAfter, UsedDays
  <2>5. Cardinality(UsedAfter(f)) <= Cardinality(listed)
    BY <1>1, <2>4, FS_Subset
  <2>6. Cardinality(UsedAfter(f)) >= DayLimit
    BY <1>1, <1>2, <2>3, ReadsAssumption DEF UsedDays
  <2> QED
    BY <1>1, <1>3, <2>2, <2>3, <2>5, <2>6, ReadsAssumption DEF UsedDays
<1> QED
  BY <1>3, <1>4

-----------------------------------------------------------------------------
(* The report.                                                             *)

AfterOverall == {"overall_read", "models_read", "days_read", "report_done"}
AfterModels == {"models_read", "days_read", "report_done"}

\* What the parts read so far say of each reply that an earlier part counted.
PartsInv ==
    /\ Recorded
    /\ at \in AfterOverall => seen.overall \subseteq usage
    /\ at \in AfterModels =>
          /\ \A m \in Model : seen.models[m] \subseteq usage
          /\ \A r \in seen.overall : \E m \in Model :
                {n \in Model : r \in seen.models[n]} = {m}
    /\ at = "report_done" =>
          \A r \in seen.overall : reply[r] = "empty" => r \in seen.failed
    /\ DaysAreTheLatest

\* A reply on record is in exactly one line of by_model.
LEMMA OneLineEach ==
    ASSUME TypeOK, Recorded, NEW r \in usage
    PROVE  /\ Chosen(r) \in Model
           /\ {n \in Model : r \in ByModel[n]} = {Chosen(r)}
           /\ reply[r] = "empty" => r \in BilledAs({"failed"})
<1>1. r \in Request /\ AssistantMessage(r) \in messages
  BY DEF Recorded, TypeOK
<1>2. /\ AssistantMessage(r).of = r
      /\ AssistantMessage(r).role = "assistant"
      /\ AssistantMessage(r).status \in {"complete", "failed"}
      /\ reply[r] = "empty" => AssistantMessage(r).status = "failed"
  BY DEF AssistantMessage
<1>3. r \in BilledAs({"complete", "failed"})
  BY <1>1, <1>2 DEF BilledAs
<1>4. reply[r] = "empty" => r \in BilledAs({"failed"})
  BY <1>1, <1>2 DEF BilledAs
<1>5. Chosen(r) \in Model
  BY <1>1 DEF Chosen, TypeOK, Row
<1> QED
  BY <1>3, <1>4, <1>5 DEF ByModel

\* The service, and the change of the date, leave what was read as it was.
LEMMA ServingKeepsParts ==
    ASSUME TypeOK, ReadsTypeOK, PartsInv, [Next]_vars, UNCHANGED <<at, seen>>,
           \A r \in usage : dated'[r] = dated[r]
    PROVE  PartsInv'
<1>1. /\ Recorded'
      /\ usage \subseteq usage'
      /\ \A r \in usage : reply'[r] = reply[r]
  BY RecordedStep DEF PartsInv
<1>2. DaysAreTheLatest'
  <2>1. at \in {"days_read", "report_done"} =>
           \A m \in Model : seen.models[m] \subseteq usage
    BY DEF PartsInv, AfterModels
  <2> QED
    BY <2>1 DEF PartsInv, DaysAreTheLatest
<1> QED
  BY <1>1, <1>2 DEF PartsInv, AfterOverall, AfterModels

LEMMA PartsStep ==
    ASSUME TypeOK, IInv, ReadsTypeOK, PartsInv, [ReadsNext]_readsVars
    PROVE  PartsInv'
<1>1. CASE Serve
  <2>1. \A r \in usage : r \in Request /\ pc[r] = "done"
    BY DEF PartsInv, Recorded, TypeOK
  <2>2. \A r \in usage : dated'[r] = dated[r]
    BY <1>1, <2>1 DEF Serve
  <2> QED
    BY <1>1, <2>2, ServingKeepsParts DEF Serve
<1>2. CASE DayPasses \/ UNCHANGED readsVars
  BY <1>2, ServingKeepsParts DEF DayPasses, readsVars
<1>3. ASSUME ReadOverall \/ ReadByModel \/ ReadByDay \/ ReadFailed
             \/ CountSessions \/ ReadMessages
             \/ \E s \in SessionId : ReadSession(s)
      PROVE  /\ Recorded'
             /\ UNCHANGED <<usage, reply, dated>>
             /\ at' # at
  <2>1. UNCHANGED <<vars, dated>> /\ at' # at
    BY <1>3 DEF ReadOverall, ReadByModel, ReadByDay, ReadFailed, CountSessions,
                ReadMessages, ReadSession, Read
  <2> QED
    BY <2>1 DEF PartsInv, Recorded, AssistantMessage, vars, dbVars, callVars,
                localVars
<1>4. CASE CountSessions \/ ReadMessages \/ \E s \in SessionId : ReadSession(s)
  <2>1. at' \notin AfterOverall
    BY <1>4 DEF CountSessions, ReadMessages, ReadSession, Read, AfterOverall
  <2> QED
    BY <1>3, <1>4, <2>1
    DEF PartsInv, AfterOverall, AfterModels, DaysAreTheLatest
<1>5. CASE ReadOverall
  <2>1. at' = "overall_read" /\ seen'.overall = usage
    BY <1>5 DEF ReadOverall, Read, ReadsTypeOK, Seen
  <2> QED
    BY <1>3, <1>5, <2>1
    DEF PartsInv, AfterOverall, AfterModels, DaysAreTheLatest
<1>6. CASE ReadByModel
  <2>1. /\ at = "overall_read" /\ at' = "models_read"
        /\ seen'.overall = seen.overall
        /\ seen'.models = ByModel
    BY <1>6 DEF ReadByModel, Read, ReadsTypeOK, Seen
  <2>2. \A m \in Model : ByModel[m] \subseteq usage
    BY DEF ByModel, BilledAs
  <2>3. \A r \in seen.overall : \E m \in Model :
           {n \in Model : r \in ByModel[n]} = {m}
    BY <2>1, OneLineEach DEF PartsInv, AfterOverall
  <2> QED
    BY <1>3, <1>6, <2>1, <2>2, <2>3
    DEF PartsInv, AfterOverall, AfterModels, DaysAreTheLatest
<1>7. CASE ReadByDay
  <2>1. /\ at = "models_read" /\ at' = "days_read"
        /\ seen'.overall = seen.overall
        /\ seen'.models = seen.models
        /\ seen'.days = ByDay
    BY <1>7 DEF ReadByDay, Read, ReadsTypeOK, Seen
  <2> DEFINE listed == {d \in 0 .. MaxDay : ListedDay(d)}
  <2>2. {d \in 0 .. MaxDay : ByDay[d] # {}} = listed
    BY DEF ByDay, ListedDay
  <2>3. ASSUME NEW m \in Model, NEW r \in seen.models[m],
               dated[r] \notin listed
        PROVE  dated[r] \in UsedDays \ listed
    <3>1. r \in usage /\ r \in Request /\ dated[r] \in 0 .. MaxDay
      BY <2>1, <2>3 DEF PartsInv, AfterModels, TypeOK, ReadsTypeOK
    <3>2. r \in OnDay(dated[r])
      BY <3>1 DEF OnDay
    <3> QED
      BY <2>3, <3>1, <3>2 DEF UsedDays
  <2>4. /\ Cardinality(listed) <= DayLimit
        /\ \A e \in UsedDays \ listed :
              /\ Cardinality(listed) = DayLimit
              /\ \A d \in listed : e < d
    BY CurveIsTheLatest
  <2>5. {d \in 0 .. MaxDay : seen'.days[d] # {}} = listed
    BY <2>1, <2>2
  <2>6. DaysAreTheLatest'
    <3> HIDE DEF listed
    <3> QED
      BY <1>3, <1>7, <2>1, <2>3, <2>4, <2>5 DEF DaysAreTheLatest
  <2> QED
    BY <1>3, <1>7, <2>1, <2>6 DEF PartsInv, AfterOverall, AfterModels
<1>8. CASE ReadFailed
  <2>1. /\ at = "days_read" /\ at' = "report_done"
        /\ seen'.overall = seen.overall
        /\ seen'.models = seen.models
        /\ seen'.days = seen.days
        /\ seen'.failed = BilledAs({"failed"})
    BY <1>8 DEF ReadFailed, Read, ReadsTypeOK, Seen
  <2>2. \A r \in seen.overall :
           reply[r] = "empty" => r \in BilledAs({"failed"})
    BY <2>1, OneLineEach DEF PartsInv, AfterOverall
  <2>3. DaysAreTheLatest'
    BY <1>3, <1>8, <2>1 DEF DaysAreTheLatest, PartsInv
  <2> QED
    BY <1>3, <1>8, <2>1, <2>2, <2>3 DEF PartsInv, AfterOverall, AfterModels
<1> QED
  BY <1>1, <1>2, <1>4, <1>5, <1>6, <1>7, <1>8 DEF ReadsNext

LEMMA PartsInvariance == ReadsSpec => []PartsInv
<1>1. ReadsInit => PartsInv
  BY DEF ReadsInit, Init, PartsInv, Recorded, AfterOverall, AfterModels,
         DaysAreTheLatest
<1> QED
  BY <1>1, PartsStep, ReadersAreInvisible, ReadsTypeCorrect, TypeCorrect,
     Invariance, PTL
  DEF ReadsSpec

\* What overall counts is in exactly one line of by_model, and again among
\* the failed replies if it was empty.
THEOREM ReportPartsNeverShrink == ReadsSpec => []ReportPartsGrow
<1>1. PartsInv => ReportPartsGrow
  BY FS_Singleton DEF PartsInv, ReportPartsGrow, AfterModels
<1> QED
  BY <1>1, PartsInvariance, PTL

\* The curve is cut at its old end only, and only when it is full.
THEOREM CurveStaysTheLatest == ReadsSpec => []DaysAreTheLatest
<1>1. PartsInv => DaysAreTheLatest
  BY DEF PartsInv
<1> QED
  BY <1>1, PartsInvariance, PTL
=============================================================================
