----------------------------- MODULE TaskValues -----------------------------
(***************************************************************************)
(* The values of a task: its period, its estimate and the frequency of its *)
(* recurrence, on their way from a request to the row and back, as the     *)
(* task is completed, and in what get_tasks counts as pending              *)
(* (src/server/src/service/v1.rs, src/server/src/db/task.rs).              *)
(*                                                                         *)
(* A row that recurs is the current task of its recurrence, and past are   *)
(* the occurrences completed before it, which share its frequency.  An     *)
(* estimate is stored as days and minutes; the i64 of microseconds that    *)
(* they are does not overflow.  It is never midnight sharp: a date has     *)
(* been reached when it is today or before.                                *)
(***************************************************************************)
EXTENDS Calendar, FiniteSets, Sequences

CONSTANTS
    MaxInt,           \* the largest i32, for hours and minutes
    MinutesPerHour,
    Requests,         \* [start, end, estimate, frequency, isEvery]
    RECURRENCE_MAX,
    FirstDay, LastDay,       \* the dates that both Postgres and time::Date hold
    FirstToday, LastToday,   \* bound on the days that pass
    MaxPast                  \* bound on the completed occurrences

ASSUME ValuesAssumption == {MaxInt, MinutesPerHour, RECURRENCE_MAX} \subseteq Nat \ {0}

\* Timestamps reach much further than dates (the years 294276 and 9999): an
\* interval that moved one date to another can be added once more.  Adding
\* months changes the length of a task by up to nine days.
ASSUME RangeAssumption ==
    /\ {FirstDay, LastDay, FirstToday, LastToday, LastTimestamp} \subseteq Int
    /\ FirstDay <= FirstToday /\ FirstToday <= LastToday /\ LastToday <= LastDay
    /\ LastDay + (LastDay - FirstDay) + 9 * (RECURRENCE_MAX + 1) <= LastTimestamp

\* The fields of a request on these values; those it does not have are NULL.
Asked == [start : Int \cup {NULL}, end : Int \cup {NULL},
          estimate  : [days : Int, hours : Int, minutes : Int] \cup {NULL},
          frequency : [months : Int, days : Int] \cup {NULL},
          isEvery   : BOOLEAN]

ASSUME RequestAssumption ==
    /\ Requests \subseteq Asked
    /\ NULL \notin Int \cup Asked
    /\ NULL \notin [days : Int, hours : Int, minutes : Int]
    /\ NULL \notin [days : Int, time : Int] \cup [months : Int, days : Int]

VARIABLES
    row,        \* NULL until the task is created
    past,       \* the occurrences completed before row, the last one first
    answered,   \* the request that the last step has answered, or NULL
    today

vars == <<row, past, answered, today>>

-----------------------------------------------------------------------------
(* Conversions of a request                                                *)

\* from_calendar_date, the column's type, and the row's decoding
IsDate(date) == date # NULL => date \in FirstDay .. LastDay

\* TaskPeriod::try_from
ValidPeriod(p) ==
    /\ ~ (p.start = NULL /\ p.end = NULL)
    /\ p.start # NULL /\ p.end # NULL => p.end >= p.start

\* TaskEstimate::try_from(Duration)
ValidEstimate(e) == e.days >= 0 /\ e.hours >= 0 /\ e.minutes >= 0

\* TaskRecurrenceFrequency::try_from, for both kinds of recurrence.
ValidFrequency(f) ==
    /\ f.days >= 0 /\ f.months >= 0
    /\ ~ (f.days = 0 /\ f.months = 0)

Accepted(request) ==
    /\ IsDate(request.start) /\ IsDate(request.end)
    /\ ValidPeriod(request)
    /\ request.estimate # NULL => ValidEstimate(request.estimate)
    /\ request.frequency # NULL => ValidFrequency(request.frequency)

-----------------------------------------------------------------------------
(* Columns                                                                 *)

\* Mutant: the minutes are lost.
StoreHours(e) == [days |-> e.days, time |-> e.hours * MinutesPerHour]

\* PgInterval::from(&TaskEstimate)
StoredEstimate(e) == [days |-> e.days, time |-> e.hours * MinutesPerHour + e.minutes]

\* TaskEstimate::try_from(PgInterval): the hours must fit.
FitsEstimate(column) == column.time \div MinutesPerHour <= MaxInt

LoadedEstimate(column) ==
    [days |-> column.days,
     hours |-> column.time \div MinutesPerHour,
     minutes |-> column.time % MinutesPerHour]

Stored(request) ==
    [request EXCEPT !.estimate = IF @ = NULL THEN NULL ELSE StoredEstimate(@)]

Loaded(r) == [r EXCEPT !.estimate = IF @ = NULL THEN NULL ELSE LoadedEstimate(@)]

-----------------------------------------------------------------------------
(* The next occurrence                                                     *)

\* COALESCE(start_date, end_date)
Anchor(p) == IF p.start # NULL THEN p.start ELSE p.end

Moved(r, interval) ==
    [r EXCEPT !.start = AddInterval(@, interval), !.end = AddInterval(@, interval)]

\* What create_next_recurrence_internal adds to both dates.
IntervalOf(r) ==
    IF r.isEvery THEN r.frequency
    ELSE [r.frequency EXCEPT !.days = @ + today - Anchor(r)]

\* Mutant: a task with both dates counts from the end date.
CountFromEnd(r) ==
    IF r.isEvery THEN Moved(r, r.frequency)
    ELSE Moved(r, [r.frequency EXCEPT !.days = @ + today - (IF r.end # NULL THEN r.end ELSE r.start)])

\* Mutant: each date counts from itself.
EachFromItself(r) ==
    LET late(date) == [r.frequency EXCEPT !.days = @ + today - date]
    IN  IF r.isEvery THEN Moved(r, r.frequency)
        ELSE [r EXCEPT !.start = IF @ = NULL THEN NULL ELSE AddInterval(@, late(@)),
                       !.end   = IF @ = NULL THEN NULL ELSE AddInterval(@, late(@))]

\* create_next_recurrence_internal
NextOccurrence(r) == Moved(r, IntervalOf(r))

-----------------------------------------------------------------------------
(* What get_tasks and get_task_unchecked compute for "every" recurrences.  *)

Reached(date) == date # NULL /\ date <= today

\* every_tasks: the row at every depth.
Occurrences(r) ==
    LET o[n \in 0 .. RECURRENCE_MAX] == IF n = 0 THEN r ELSE Moved(o[n - 1], r.frequency)
    IN  o

\* Mutant: the recursion stops one depth before the flag expects it to.
DepthsTooFew(o) ==
    {n \in 0 .. RECURRENCE_MAX - 2 : \A m \in 1 .. n : Reached(Anchor(o[m]))}

\* The depths it reaches: as long as the next anchor is before now.
Depths(o) == {n \in 0 .. RECURRENCE_MAX : \A m \in 1 .. n : Reached(Anchor(o[m]))}

\* Every sum that the recursion needs exists: at each depth but the last the
\* next anchor, to compare it, and at each further depth both dates.
Computes(r) ==
    LET o == Occurrences(r)
    IN  \A n \in Depths(o) \ {RECURRENCE_MAX} :
            /\ Adds(Anchor(o[n]), r.frequency)
            /\ Reached(Anchor(o[n + 1])) =>
                  Adds(o[n].start, r.frequency) /\ Adds(o[n].end, r.frequency)

Count(date) ==
    LET o == Occurrences(row) IN Cardinality({n \in Depths(o) : Reached(o[n][date])})

NumReadyToStart    == Count("start")
NumReachedDeadline == Count("end")

IsLowerBound(num) == num >= RECURRENCE_MAX

\* get_task_unchecked: the query ends without an error, and its row decodes.
Loads(r) ==
    /\ r.frequency # NULL /\ r.isEvery => Computes(r)
    /\ IsDate(r.start) /\ IsDate(r.end)

\* And it is a task: TaskResult::try_from(TaskRawResult)
Readable(r) ==
    /\ Loads(r)
    /\ ValidPeriod(r)
    /\ r.estimate # NULL => FitsEstimate(r.estimate)

-----------------------------------------------------------------------------
\* The frequency is a column of the recurrence, which past occurrences share
\* as long as there is one.
Joined(request) ==
    IF request.frequency = NULL THEN << >>
    ELSE [i \in DOMAIN past |->
             [past[i] EXCEPT !.frequency = request.frequency, !.isEvery = request.isEvery]]

\* Mutant: the transaction does not read the task it has written.
WriteUnread(request) ==
    /\ Accepted(request)
    /\ row' = Stored(request)
    /\ past' = Joined(request)
    /\ answered' = request
    /\ UNCHANGED today

\* What create_task and update_task have in common: they read the row for the
\* answer before they commit, and roll back if that fails.
Write(request) ==
    /\ Accepted(request)
    /\ Readable(Stored(request))
    /\ row' = Stored(request)
    /\ past' = Joined(request)
    /\ answered' = request
    /\ UNCHANGED today

Create == row = NULL /\ \E request \in Requests : Write(request)

\* Of a current task, which is read first.
Update == row # NULL /\ Loads(row) /\ \E request \in Requests : Write(request)

\* The occurrence before the last one is read for its flags.
PreviousLoads(occurrences) == occurrences # << >> => Loads(Head(occurrences))

\* toggle_task_completed of a current task: the next one has dates, and all
\* that the answer mentions is read.
Completable ==
    /\ Loads(row)
    /\ Adds(row.start, IntervalOf(row)) /\ Adds(row.end, IntervalOf(row))
    /\ Readable(NextOccurrence(row))
    /\ PreviousLoads(past)

Complete ==
    /\ row # NULL /\ row.frequency # NULL
    /\ Len(past) < MaxPast
    /\ Completable
    /\ row' = NextOccurrence(row)
    /\ past' = <<row>> \o past
    /\ answered' = NULL
    /\ UNCHANGED today

\* toggle_task_completed of the previous task, which becomes current again
\* with its own dates and the frequency of now.
Reopen ==
    /\ past # << >>
    /\ Loads(Head(past))
    /\ PreviousLoads(Tail(past))
    /\ row' = Head(past)
    /\ past' = Tail(past)
    /\ answered' = NULL
    /\ UNCHANGED today

Tomorrow ==
    /\ today < LastToday
    /\ today' = today + 1
    /\ answered' = NULL
    /\ UNCHANGED <<row, past>>

Init == row = NULL /\ past = << >> /\ answered = NULL /\ today = FirstToday

Next == Create \/ Update \/ Complete \/ Reopen \/ Tomorrow

Spec == Init /\ [][Next]_vars

-----------------------------------------------------------------------------
(* Properties                                                              *)

InOrder(occurrence) == row.isEvery => Anchor(occurrence) <= Anchor(row)

\* Every row that was committed can be read again, on any later day: neither
\* get_tasks nor a later toggle meets an estimate whose hours do not fit, a
\* date beyond the year 9999, or a frequency too large to be added at some
\* depth, although the conversion of the request lets them pass.  An
\* update changes the frequency of completed occurrences without reading them:
\* for those of an "every" recurrence this needs that they do not come after
\* the current one.
CommittedIsReadable ==
    row # NULL =>
        /\ Readable(row)
        /\ \A i \in DOMAIN past : InOrder(past[i]) => Readable(past[i])

TimeOf(e) == e.hours * MinutesPerHour + e.minutes

\* The answer says what the request said, with its minutes below one hour,
\* also where minutes carry over to the largest hours.
AnswerMeansRequest ==
    answered # NULL =>
        LET asked  == answered.estimate
            answer == Loaded(row).estimate
        IN  /\ [Loaded(row) EXCEPT !.estimate = NULL] = [answered EXCEPT !.estimate = NULL]
            /\ asked = NULL <=> answer = NULL
            /\ asked # NULL =>
                  /\ answer.days = asked.days
                  /\ TimeOf(answer) = TimeOf(asked)
                  /\ answer.minutes < MinutesPerHour
                  /\ answer.hours <= MaxInt

Recurs == row # NULL /\ row.frequency # NULL

\* Completing fails only where the next dates would be beyond the year 9999,
\* or the previous occurrence comes after an "every" one.  Otherwise every sum
\* exists, and start and end move by the same interval, each cut off at the end
\* of its own month, without the end ever coming before the start.
CanComplete ==
    /\ Recurs
    /\ IsDate(NextOccurrence(row).start) /\ IsDate(NextOccurrence(row).end)
    /\ past # << >> => InOrder(Head(past))
    => Completable

\* The number of completions after which the dates are no longer reached;
\* Horizon ends the count (a frequency is at least one day).
Horizon == RECURRENCE_MAX + 2

Completions(date) ==
    LET r[n \in 0 .. Horizon] == IF n = 0 THEN row ELSE NextOccurrence(r[n - 1])
    IN  Cardinality({n \in 0 .. Horizon : \A m \in 0 .. n : Reached(r[m][date])})

\* What get_tasks reports is what completing the task again and again would
\* show, as long as its dates exist: the number itself, or a lower bound where
\* the flag says so.
Reports(num, true) == IF IsLowerBound(num) THEN num <= true ELSE num = true

PendingIsTrue ==
    Recurs /\ row.isEvery =>
        /\ Reports(NumReadyToStart, Completions("start"))
        /\ Reports(NumReachedDeadline, Completions("end"))

Completed == Len(past') > Len(past)

\* An occurrence of an "every" recurrence comes after the one before it, and
\* completing a "checked" one puts the next after today: it is never ready
\* again on the day it was checked, whatever the lengths of the months.
MovesOn ==
    [][Completed => Anchor(row') > IF row.isEvery THEN Anchor(row) ELSE today]_vars

\* Without months in the frequency an occurrence keeps its length; with
\* months it changes by the days that spans of so many months differ by: at
\* most three up to a year, and less than ten however long they are.
Length(p) == IF p.start = NULL \/ p.end = NULL THEN 0 ELSE p.end - p.start

KeepsLength ==
    [][Completed =>
          LET change == Length(row') - Length(row)
          IN  /\ change \in -9 .. 9
              /\ row.frequency.months <= 12 => change \in -3 .. 3
              /\ row.frequency.months = 0 => change = 0]_vars
=============================================================================
