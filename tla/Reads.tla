-------------------------------- MODULE Reads --------------------------------
(***************************************************************************)
(* What a client reads while exchanges and resets go on: the page of a     *)
(* session (two statements) and the spending report (five statements).     *)
(* Under READ COMMITTED every statement sees what is committed when it     *)
(* runs, so one response mixes several moments.                            *)
(*                                                                         *)
(* A sum is kept as the set of the exchanges it adds up, as in ChatService.*)
(* One response is read in each behaviour.                                 *)
(***************************************************************************)
EXTENDS ChatService

CONSTANTS
    DayLimit,  \* the query parameter "days"
    MaxDay     \* bound on the days that pass

ASSUME ReadsAssumption ==
    /\ SessionId # {}
    /\ DayLimit \in Nat \ {0}
    /\ MaxDay \in Nat

VARIABLES
    today,  \* the date in the database's time zone
    dated,  \* the date of message_usage.created_at, for each exchange
    at,     \* where the handler of the read is
    seen    \* what its statements returned

readsVars == <<vars, today, dated, at, seen>>

ReadStep == {"idle", "session_read", "page_done", "sessions_counted",
             "overall_read", "models_read", "days_read", "report_done"}

Seen == [session: SessionId, row: Row, page: SUBSET Message,
         sessions: SUBSET SessionId, overall: SUBSET Request,
         models: [Model -> SUBSET Request],
         days: [0 .. MaxDay -> SUBSET Request], failed: SUBSET Request]

-----------------------------------------------------------------------------
(* Queries.                                                                *)

\* Mutant: the messages of the generation active now, not of the one that
\* the session row named.
PageMessagesActive(s, g) == Dialogue(s, row[s].generation)

PageMessages(s, g) == Dialogue(s, g)

\* The join of message_usage and messages, for replies in one of the states.
BilledAs(states) ==
    {r \in usage : \E m \in messages : /\ m.of = r
                                       /\ m.role = "assistant"
                                       /\ m.status \in states}

\* Mutant: the join drops replies that failed.
ByModelOfText ==
    [m \in Model |-> {r \in BilledAs({"complete"}) : Chosen(r) = m}]

\* One line for each model, over all its usage rows.
ByModel ==
    [m \in Model |-> {r \in BilledAs({"complete", "failed"}) : Chosen(r) = m}]

OnDay(d) == {r \in usage : dated[r] = d}

\* Mutant: the first days instead of the last.
ListedOldest(d) ==
    /\ OnDay(d) # {}
    /\ Cardinality({e \in 0 .. d - 1 : OnDay(e) # {}}) < DayLimit

\* Day d has usage and is among the DayLimit latest days that have any.
ListedDay(d) ==
    /\ OnDay(d) # {}
    /\ Cardinality({e \in d + 1 .. MaxDay : OnDay(e) # {}}) < DayLimit

ByDay == [d \in 0 .. MaxDay |-> IF ListedDay(d) THEN OnDay(d) ELSE {}]

-----------------------------------------------------------------------------
ReadsInit ==
    /\ Init
    /\ today = 0
    /\ dated = [r \in Request |-> 0]
    /\ at = "idle"
    /\ seen = [session |-> CHOOSE s \in SessionId : TRUE,
               row |-> NewRow(DefaultModel), page |-> {}, sessions |-> {},
               overall |-> {}, models |-> [m \in Model |-> {}],
               days |-> [d \in 0 .. MaxDay |-> {}], failed |-> {}]

\* created_at is the time at which the transaction that stores the reply
\* began, not the time at which it commits.
Serve ==
    /\ Next
    /\ dated' = [r \in Request |->
                    IF pc[r] = "answered" /\ pc'[r] = "inserted"
                    THEN today ELSE dated[r]]
    /\ UNCHANGED <<today, at, seen>>

DayPasses == /\ today < MaxDay
             /\ today' = today + 1
             /\ UNCHANGED <<vars, dated, at, seen>>

\* One statement of a read, moving its handler along.
Read(from, to) == /\ at = from
                  /\ at' = to
                  /\ UNCHANGED <<vars, today, dated>>

\* GET /sessions/{id}: the session row without a lock, then its messages.
ReadSession(s) ==
    /\ Read("idle", "session_read")
    /\ s \in created
    /\ seen' = [seen EXCEPT !.session = s, !.row = row[s]]

ReadMessages ==
    /\ Read("session_read", "page_done")
    /\ seen' = [seen EXCEPT !.page = PageMessages(seen.session,
                                                  seen.row.generation)]

\* GET /stats: overall (two statements), by_model, by_day, failed.
CountSessions == /\ Read("idle", "sessions_counted")
                 /\ seen' = [seen EXCEPT !.sessions = created]

ReadOverall == /\ Read("sessions_counted", "overall_read")
               /\ seen' = [seen EXCEPT !.overall = usage]

ReadByModel == /\ Read("overall_read", "models_read")
               /\ seen' = [seen EXCEPT !.models = ByModel]

ReadByDay == /\ Read("models_read", "days_read")
             /\ seen' = [seen EXCEPT !.days = ByDay]

ReadFailed == /\ Read("days_read", "report_done")
              /\ seen' = [seen EXCEPT !.failed = BilledAs({"failed"})]

ReadsNext ==
    \/ Serve
    \/ DayPasses
    \/ \E s \in SessionId : ReadSession(s)
    \/ ReadMessages
    \/ CountSessions \/ ReadOverall \/ ReadByModel \/ ReadByDay \/ ReadFailed

ReadsSpec == ReadsInit /\ [][ReadsNext]_readsVars

-----------------------------------------------------------------------------
ReadsTypeOK ==
    /\ today \in 0 .. MaxDay
    /\ dated \in [Request -> 0 .. MaxDay]
    /\ at \in ReadStep
    /\ seen \in Seen

\* A page never counts an exchange of its generation that it does not show,
\* question and reply: the row is read before the messages, nothing is ever
\* deleted, and a reset in between does not empty the page.
PageShowsWhatItCounts ==
    at = "page_done" =>
        \A r \in seen.row.total :
            loaded[r].generation = seen.row.generation =>
                /\ UserMessage(r) \in seen.page
                /\ \E m \in seen.page : m.of = r /\ m.role = "assistant"

\* Within one report the parts never lose a reply that an earlier part has:
\* what overall counts is again in exactly one line of by_model, and if it
\* failed also in the line for billed replies without text.
ReportPartsGrow ==
    at = "report_done" =>
        \A r \in seen.overall :
            /\ Cardinality({m \in Model : r \in seen.models[m]}) = 1
            /\ reply[r] = "empty" => r \in seen.failed

\* A reply that by_model counted is again in by_day, or older than everything
\* that by_day lists; the curve is cut at its old end only, and only when it
\* is full, also for replies that commit on a later day than they began.
DaysAreTheLatest ==
    at \in {"days_read", "report_done"} =>
        LET listed == {d \in 0 .. MaxDay : seen.days[d] # {}}
        IN /\ Cardinality(listed) <= DayLimit
           /\ \A m \in Model : \A r \in seen.models[m] :
                 dated[r] \notin listed =>
                     /\ Cardinality(listed) = DayLimit
                     /\ \A d \in listed : dated[r] < d
=============================================================================
