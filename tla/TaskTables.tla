----------------------------- MODULE TaskTables -----------------------------
(***************************************************************************)
(* The tables of the server's database (src/server/migrations) and the SQL *)
(* statements that read and write them (src/server/src/db), as operators   *)
(* on the tables.  A table is a partial function from the ids of its live  *)
(* rows to the rows; users_groups is a set of pairs.  Titles, periods,     *)
(* estimates and frequencies are left out: no decision the statements take *)
(* depends on them.  The modules that give the tables a history are        *)
(* SurvivalDb (one transaction at a time) and those that interleave them.  *)
(***************************************************************************)
EXTENDS Functions

CONSTANTS
    Users,      \* rows of users; get_user_id inserts one before any handler
    GroupIds,
    TaskIds,
    RecIds,     \* ids of recurrences
    NULL        \* SQL's NULL, Rust's None

ASSUME NullAssumption == NULL \notin Users \cup GroupIds \cup TaskIds \cup RecIds

\* The columns of tasks that the server decides on.
Task == [responsible : Users,
         group       : GroupIds \cup {NULL},
         completed   : BOOLEAN,
         previous    : TaskIds \cup {NULL},
         recurrence  : RecIds \cup {NULL}]

IsTaskTable(f) ==
    /\ DOMAIN f \subseteq TaskIds
    /\ f \in [DOMAIN f -> Task]

\* recurrences: id -> current_task_id.
IsRecurrenceTable(f) ==
    /\ DOMAIN f \subseteq RecIds
    /\ f \in [DOMAIN f -> TaskIds]

\* The table f after INSERT (k, row) or UPDATE of row k.
Put(f, k, row) == [x \in DOMAIN f \cup {k} |-> IF x = k THEN row ELSE f[x]]

-----------------------------------------------------------------------------
(* What get_task_unchecked joins to a task row, for a viewer u.            *)

\* r.current_task_id and c.previous_task_id of the task's recurrence.
CurrentOf(tasks, recs, t) ==
    IF tasks[t].recurrence = NULL THEN NULL ELSE recs[tasks[t].recurrence]

PreviousOf(tasks, recs, t) ==
    IF CurrentOf(tasks, recs, t) = NULL
    THEN NULL ELSE tasks[CurrentOf(tasks, recs, t)].previous

\* is_responsible or is_in_group; also the "Permission check" in the WHERE
\* clause of every UPDATE and DELETE of a task.
Permitted(tasks, members, u, t) ==
    \/ tasks[t].responsible = u
    \/ <<u, tasks[t].group>> \in members

IsFriendTask(tasks, members, u, t) == ~Permitted(tasks, members, u, t)

\* Mutant: any occurrence may be updated and deleted, not only the current.
CanUpdateAnyOccurrence(tasks, members, recs, u, t) ==
    ~IsFriendTask(tasks, members, u, t)

CanUpdate(tasks, members, recs, u, t) ==
    /\ ~IsFriendTask(tasks, members, u, t)
    /\ CurrentOf(tasks, recs, t) \in {NULL, t}

\* Mutant: the current task is left out once there is a previous one.
CanToggleOnlyPrevious(tasks, members, recs, u, t) ==
    /\ ~IsFriendTask(tasks, members, u, t)
    /\ PreviousOf(tasks, recs, t) \in {NULL, t}

CanToggle(tasks, members, recs, u, t) ==
    /\ ~IsFriendTask(tasks, members, u, t)
    /\ \/ PreviousOf(tasks, recs, t) = NULL
       \/ t \in {PreviousOf(tasks, recs, t), CurrentOf(tasks, recs, t)}

CanDelete(tasks, members, recs, u, t) == CanUpdate(tasks, members, recs, u, t)

\* Mutant: only the viewer's membership is checked.
ValidViewer(members, u, responsible, g) ==
    IF g = NULL THEN responsible = u ELSE <<u, g>> \in members

\* validate_responsible_and_group
ValidAssignment(members, u, responsible, g) ==
    IF g = NULL THEN responsible = u
                ELSE <<u, g>> \in members /\ <<responsible, g>> \in members

-----------------------------------------------------------------------------
(* Statements on tasks and recurrences.                                    *)

\* create_task_internal: the row it inserts.
NewTask(responsible, g) ==
    [responsible |-> responsible, group |-> g, completed |-> FALSE,
     previous |-> NULL, recurrence |-> NULL]

\* update_task_internal
Reassign(tasks, t, responsible, g) ==
    [tasks EXCEPT ![t].responsible = responsible, ![t].group = g]

\* toggle_task_completed_internal
SetCompleted(tasks, t, completed) == [tasks EXCEPT ![t].completed = completed]

\* create_recurrence_internal: the row of recurrences is its current task.
StartRecurrence(tasks, t, r) == [tasks EXCEPT ![t].recurrence = r]

\* recurrence_id is ON DELETE SET NULL.
ClearRecurrence(tasks, r) ==
    [s \in DOMAIN tasks |->
        IF tasks[s].recurrence = r THEN [tasks[s] EXCEPT !.recurrence = NULL] ELSE tasks[s]]

\* Mutant: recurrence_id is not reset.
UnsetOnlyPrevious(tasks, r) ==
    [s \in DOMAIN tasks |->
        IF tasks[s].recurrence = r THEN [tasks[s] EXCEPT !.previous = NULL] ELSE tasks[s]]

\* unset_recurrence_internal
UnsetRecurrence(tasks, r) ==
    [s \in DOMAIN tasks |->
        IF tasks[s].recurrence = r
        THEN [tasks[s] EXCEPT !.previous = NULL, !.recurrence = NULL]
        ELSE tasks[s]]

\* Mutant: previous_task_id is copied with the rest of the row.
CopiedOccurrence(tasks, t) == [tasks[t] EXCEPT !.completed = FALSE]

\* create_next_recurrence_internal: the copy of task t it inserts.
NextOccurrence(tasks, t) ==
    [tasks[t] EXCEPT !.completed = FALSE, !.previous = t]

\* revert_recurrence_internal
Revert(recs, previous, current) ==
    [r \in DOMAIN recs |-> IF recs[r] = current THEN previous ELSE recs[r]]

\* Mutant: the row of recurrences stays.
KeepRecurrence(recs, r) == recs

\* delete_recurrence_internal, once no task row refers to r any more.
DropRecurrence(recs, r) == Restrict(recs, DOMAIN recs \ {r})

\* Mutant: previous_task_id is not checked.
NeverPrevious(tasks, t) == FALSE

\* delete_task_internal: previous_task_id is ON DELETE RESTRICT, and
\* current_task_id ON DELETE CASCADE, which sets recurrence_id to NULL.
IsPrevious(tasks, t) == \E s \in DOMAIN tasks \ {t} : tasks[s].previous = t

DeleteRow(tasks, recs, t) ==
    [s \in DOMAIN tasks \ {t} |->
        IF CurrentOf(tasks, recs, s) = t
        THEN [tasks[s] EXCEPT !.recurrence = NULL] ELSE tasks[s]]

\* Mutant: current_task_id is not ON DELETE CASCADE.
KeepRow(recs, t) == recs

CascadeRow(recs, t) == Restrict(recs, {r \in DOMAIN recs : recs[r] # t})

-----------------------------------------------------------------------------
(* Statements on groups.                                                   *)

\* unset_task_group_for_responsible
UnsetGroup(tasks, u, g) ==
    [t \in DOMAIN tasks |->
        IF tasks[t].responsible = u /\ tasks[t].group = g
        THEN [tasks[t] EXCEPT !.group = NULL] ELSE tasks[t]]

\* delete_group_if_empty: tasks.group_id is ON DELETE SET NULL.
IsEmptyGroup(members, g) == \A u \in Users : <<u, g>> \notin members

ClearGroup(tasks, g) ==
    [t \in DOMAIN tasks |->
        IF tasks[t].group = g THEN [tasks[t] EXCEPT !.group = NULL] ELSE tasks[t]]
=============================================================================
