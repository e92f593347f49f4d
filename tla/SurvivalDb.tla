----------------------------- MODULE SurvivalDb -----------------------------
(***************************************************************************)
(* The server's RPCs on tasks and groups, one action per transaction that  *)
(* commits (src/server/src/db/task.rs, group.rs).  A transaction that      *)
(* returns an error is rolled back (transaction.rs, end) and is a          *)
(* stuttering step.  Transactions run one at a time here; what happens     *)
(* when they overlap is the subject of other modules.                      *)
(*                                                                         *)
(* An id is any one that no row has: the serial columns never repeat one,  *)
(* but nothing here outlives a row, so a bounded set of ids that may be    *)
(* used again stands for the unbounded sequence.                           *)
(***************************************************************************)
EXTENDS TaskTables

VARIABLES
    groups,       \* ids of the rows of groups
    members,      \* users_groups, pairs <<user, group>>
    tasks,
    recurrences   \* recurrence id -> current_task_id

vars == <<groups, members, tasks, recurrences>>

Current(t)  == CurrentOf(tasks, recurrences, t)
Previous(t) == PreviousOf(tasks, recurrences, t)
MayAct(u, t)    == Permitted(tasks, members, u, t)
MayUpdate(u, t) == CanUpdate(tasks, members, recurrences, u, t)
MayToggle(u, t) == CanToggle(tasks, members, recurrences, u, t)
MayDelete(u, t) == CanDelete(tasks, members, recurrences, u, t)

TypeOK ==
    /\ groups \subseteq GroupIds
    /\ members \subseteq Users \X GroupIds
    /\ IsTaskTable(tasks)
    /\ IsRecurrenceTable(recurrences)

Init ==
    /\ groups = {}
    /\ members = {}
    /\ tasks = << >>
    /\ recurrences = << >>

-----------------------------------------------------------------------------
(* Groups                                                                  *)

CreateGroup(u, g) ==
    /\ g \notin groups
    /\ groups' = groups \cup {g}
    /\ members' = members \cup {<<u, g>>}
    /\ UNCHANGED <<tasks, recurrences>>

\* A second join of the same group breaks the primary key and is an error.
JoinGroup(u, g) ==
    /\ g \in groups
    /\ <<u, g>> \notin members
    /\ members' = members \cup {<<u, g>>}
    /\ UNCHANGED <<groups, tasks, recurrences>>

\* Mutant: delete_group_if_empty is not called.
LeaveOnly(u, g) ==
    /\ members' = members \ {<<u, g>>}
    /\ tasks' = UnsetGroup(tasks, u, g)
    /\ UNCHANGED <<groups, recurrences>>

\* There is no check that the viewer is a member of the group.
LeaveGroup(u, g) ==
    LET remaining == members \ {<<u, g>>}
        released  == UnsetGroup(tasks, u, g)
    IN  /\ members' = remaining
        /\ IF IsEmptyGroup(remaining, g)
           THEN /\ groups' = groups \ {g}
                /\ tasks' = ClearGroup(released, g)
           ELSE /\ groups' = groups
                /\ tasks' = released
        /\ UNCHANGED recurrences

-----------------------------------------------------------------------------
(* Tasks.  r is NULL when the request has no recurrence; otherwise it is   *)
(* the id the new row of recurrences would get.                            *)

\* INSERT INTO recurrences for task t in the table rows.
AttachRecurrence(rows, t, r) ==
    /\ r \notin DOMAIN recurrences
    /\ tasks' = StartRecurrence(rows, t, r)
    /\ recurrences' = Put(recurrences, r, t)

CreateTask(u, t, responsible, g, r) ==
    LET rows == Put(tasks, t, NewTask(responsible, g))
    IN  /\ ValidAssignment(members, u, responsible, g)
        /\ t \notin DOMAIN tasks
        /\ IF r = NULL
           THEN tasks' = rows /\ UNCHANGED recurrences
           ELSE AttachRecurrence(rows, t, r)
        /\ UNCHANGED <<groups, members>>

\* Every, Checked and their frequencies only differ in columns left out.
UpdateTask(u, t, responsible, g, r) ==
    LET rows == Reassign(tasks, t, responsible, g)
        old  == tasks[t].recurrence
    IN  /\ ValidAssignment(members, u, responsible, g)
        /\ t \in DOMAIN tasks
        /\ MayUpdate(u, t)
        /\ CASE r = NULL /\ old = NULL -> tasks' = rows /\ UNCHANGED recurrences
             [] r = NULL /\ old # NULL -> /\ tasks' = UnsetRecurrence(rows, old)
                                          /\ recurrences' = DropRecurrence(recurrences, old)
             [] r # NULL /\ old # NULL -> tasks' = rows /\ UNCHANGED recurrences
             [] r # NULL /\ old = NULL -> AttachRecurrence(rows, t, r)
        /\ UNCHANGED <<groups, members>>

DeleteTask(u, t) ==
    LET old  == tasks[t].recurrence
        rows == IF old = NULL THEN tasks ELSE UnsetRecurrence(tasks, old)
        recs == IF old = NULL THEN recurrences ELSE DropRecurrence(recurrences, old)
    IN  /\ t \in DOMAIN tasks
        /\ MayDelete(u, t)
        /\ ~IsPrevious(rows, t)
        /\ tasks' = DeleteRow(rows, recs, t)
        /\ recurrences' = CascadeRow(recs, t)
        /\ UNCHANGED <<groups, members>>

-----------------------------------------------------------------------------
(* toggle_task_completed: the three arms of the match that succeed.        *)

PlainArm(t)    == Current(t) = NULL
CompleteArm(t) == Current(t) = t /\ ~tasks[t].completed
ReopenArm(t)   == /\ Current(t) # NULL
                  /\ Previous(t) = t
                  /\ tasks[t].completed
\* The last arm: Err(InternalState("Unexpected task state")).
UnexpectedArm(t) == ~PlainArm(t) /\ ~CompleteArm(t) /\ ~ReopenArm(t)

\* The DELETE of the current task that ReopenPrevious ends with affects a row.
CanDropCurrent(u, t) ==
    /\ MayAct(u, Current(t))
    /\ ~IsPrevious(tasks, Current(t))

\* "Non-recurring task - just set completed"
TogglePlain(u, t) ==
    /\ t \in DOMAIN tasks
    /\ MayToggle(u, t)
    /\ PlainArm(t)
    /\ tasks' = SetCompleted(tasks, t, ~tasks[t].completed)
    /\ UNCHANGED <<groups, members, recurrences>>

\* "Set current task completed and create new task", whose id is n.
CompleteCurrent(u, t, n) ==
    /\ t \in DOMAIN tasks
    /\ n \notin DOMAIN tasks
    /\ MayToggle(u, t)
    /\ CompleteArm(t)
    /\ tasks' = Put(SetCompleted(tasks, t, TRUE), n, NextOccurrence(tasks, t))
    /\ recurrences' = [recurrences EXCEPT ![tasks[t].recurrence] = n]
    /\ UNCHANGED <<groups, members>>

\* Mutant: the recurrence goes back one occurrence too far.
ReopenTooFar(u, t) ==
    LET opened == SetCompleted(tasks, t, FALSE)
        recs   == Revert(recurrences, tasks[t].previous, Current(t))
    IN  /\ t \in DOMAIN tasks
        /\ MayToggle(u, t)
        /\ ReopenArm(t)
        /\ CanDropCurrent(u, t)
        /\ tasks' = DeleteRow(opened, recs, Current(t))
        /\ recurrences' = CascadeRow(recs, Current(t))
        /\ UNCHANGED <<groups, members>>

\* Mutant: the current task and the recurrence stay as they are.
ReopenOnly(u, t) ==
    /\ t \in DOMAIN tasks
    /\ MayToggle(u, t)
    /\ ReopenArm(t)
    /\ tasks' = SetCompleted(tasks, t, FALSE)
    /\ UNCHANGED <<groups, members, recurrences>>

\* "Set previous task not completed and delete current task"
ReopenPrevious(u, t) ==
    LET opened == SetCompleted(tasks, t, FALSE)
        recs   == Revert(recurrences, t, Current(t))
    IN  /\ t \in DOMAIN tasks
        /\ MayToggle(u, t)
        /\ ReopenArm(t)
        /\ CanDropCurrent(u, t)
        /\ tasks' = DeleteRow(opened, recs, Current(t))
        /\ recurrences' = CascadeRow(recs, Current(t))
        /\ UNCHANGED <<groups, members>>

-----------------------------------------------------------------------------
GroupStep(u) == \E g \in GroupIds :
    CreateGroup(u, g) \/ JoinGroup(u, g) \/ LeaveGroup(u, g)

WriteStep(u) == \E t \in TaskIds :
    \/ \E responsible \in Users, g \in GroupIds \cup {NULL}, r \in RecIds \cup {NULL} :
          CreateTask(u, t, responsible, g, r) \/ UpdateTask(u, t, responsible, g, r)
    \/ DeleteTask(u, t)

ToggleStep(u) == \E t \in TaskIds :
    \/ TogglePlain(u, t)
    \/ \E n \in TaskIds : CompleteCurrent(u, t, n)
    \/ ReopenPrevious(u, t)

Next == \E u \in Users : GroupStep(u) \/ WriteStep(u) \/ ToggleStep(u)

Spec == Init /\ [][Next]_vars

-----------------------------------------------------------------------------
(* Properties                                                              *)

\* Every reference column names a live row.
References ==
    /\ members \subseteq Users \X groups
    /\ \A t \in DOMAIN tasks :
          /\ tasks[t].group \in groups \cup {NULL}
          /\ tasks[t].previous \in DOMAIN tasks \cup {NULL}
          /\ tasks[t].recurrence \in DOMAIN recurrences \cup {NULL}
    /\ \A r \in DOMAIN recurrences : recurrences[r] \in DOMAIN tasks

\* Whoever is responsible for a group's task is a member of that group:
\* validate_responsible_and_group checks it once, when the task is written,
\* and every later change of the membership has to keep it (leave_group,
\* and the copy of the row that completing a recurring task makes).
ResponsibleInGroup ==
    \A t \in DOMAIN tasks :
        tasks[t].group # NULL => <<tasks[t].responsible, tasks[t].group>> \in members

\* No group is left without members: delete_group_if_empty runs on every
\* path that removes one.
GroupsInhabited == \A g \in groups : ~IsEmptyGroup(members, g)

\* The current task of a recurrence belongs to it, and no task comes after it.
CurrentIsLast ==
    \A r \in DOMAIN recurrences :
        /\ tasks[recurrences[r]].recurrence = r
        /\ \A s \in DOMAIN tasks : tasks[s].previous # recurrences[r]

\* previous_task_id never leaves the recurrence and never branches, and
\* every task of a recurrence but the current one has a successor.
OneSuccessor ==
    \A t \in DOMAIN tasks :
        /\ tasks[t].previous # NULL =>
              /\ tasks[t].recurrence # NULL
              /\ tasks[tasks[t].previous].recurrence = tasks[t].recurrence
        /\ \A s \in DOMAIN tasks :
              tasks[s].previous = tasks[t].previous /\ s # t => tasks[s].previous = NULL
        /\ tasks[t].recurrence # NULL /\ Current(t) # t =>
              \E s \in DOMAIN tasks : tasks[s].previous = t

\* No cycle of previous_task_id: every set of tasks has one whose
\* predecessor is outside the set.
NoCycle ==
    \A S \in SUBSET DOMAIN tasks :
        S # {} => \E t \in S : tasks[t].previous \notin S

\* The tasks of a recurrence form one chain that ends in the current task.
\* Completing, reopening, updating and deleting each rewrite a part of it.
RecurrenceIsChain == CurrentIsLast /\ OneSuccessor /\ NoCycle

IsPast(t) == tasks[t].recurrence # NULL /\ Current(t) # t

\* Only the current task of a recurrence can be open.
PastIsCompleted == \A t \in DOMAIN tasks : IsPast(t) => tasks[t].completed

\* can_delete and the foreign keys agree: a task that can_delete lets the
\* viewer delete is not the previous task of another one (once its own
\* recurrence is unset), so delete_task never fails on a constraint.
DeletableIsUnreferenced ==
    \A u \in Users, t \in DOMAIN tasks :
        MayDelete(u, t) =>
            ~IsPrevious(IF tasks[t].recurrence = NULL THEN tasks
                        ELSE UnsetRecurrence(tasks, tasks[t].recurrence), t)

\* An open task can be completed by somebody: it is never stranded behind
\* the current task of its recurrence, nor with nobody permitted to act.
OpenCanBeCompleted ==
    \A t \in DOMAIN tasks : ~tasks[t].completed =>
        \E u \in Users : MayToggle(u, t) /\ (PlainArm(t) \/ CompleteArm(t))

\* History is kept: no step deletes an occurrence that is not the current
\* one or gives it to someone else, and one that is reopened is the current
\* one from then on.
KeepsPast ==
    \A t \in DOMAIN tasks : IsPast(t) =>
        /\ t \in DOMAIN tasks'
        /\ tasks'[t].responsible = tasks[t].responsible
        /\ tasks'[t].completed \/ (Current(t))' = t

PastIsKept == [][KeepsPast]_vars

\* A recurrence moves one occurrence at a time, forward to a new task or
\* back to the previous one.
MovesOne ==
    \A r \in DOMAIN recurrences \cap DOMAIN recurrences' :
        LET before == recurrences[r]
            after  == recurrences'[r]
        IN  \/ after = before
            \/ after \notin DOMAIN tasks /\ tasks'[after].previous = before
            \/ before \notin DOMAIN tasks' /\ tasks[before].previous = after

MovesOneOccurrence == [][MovesOne]_vars

\* The comment on can_toggle allows the toggle of "the current task".
\* A task it allows never ends in the arm for unexpected states.
NoUnexpectedToggle ==
    \A u \in Users, t \in DOMAIN tasks : MayToggle(u, t) => ~UnexpectedArm(t)

\* The comment on can_toggle allows the toggle of "the previous task".
\* A viewer who is allowed to reopen it can do so.
PreviousCanBeReopened ==
    \A u \in Users, t \in DOMAIN tasks :
        MayToggle(u, t) /\ ReopenArm(t) => CanDropCurrent(u, t)
=============================================================================
