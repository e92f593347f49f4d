-------------------------- MODULE SurvivalDbProofs --------------------------
(***************************************************************************)
(* Proofs about SurvivalDb, for any sets of users, groups, tasks and       *)
(* recurrences.                                                            *)
(***************************************************************************)
EXTENDS SurvivalDb, TLAPS

-----------------------------------------------------------------------------
(* What each statement does to the rows of a table.                        *)

LEMMA InsertTask ==
    ASSUME NEW rows, IsTaskTable(rows), NEW t \in TaskIds, NEW row \in Task
    PROVE  IsTaskTable(Put(rows, t, row))
  BY DEF IsTaskTable, Put

LEMMA NewTaskType ==
    ASSUME NEW v \in Users, NEW g \in GroupIds \cup {NULL}
    PROVE  NewTask(v, g) \in Task
  BY DEF NewTask, Task

LEMMA ReassignType ==
    ASSUME NEW rows, IsTaskTable(rows), NEW t \in DOMAIN rows,
           NEW v \in Users, NEW g \in GroupIds \cup {NULL}
    PROVE  /\ IsTaskTable(Reassign(rows, t, v, g))
           /\ DOMAIN Reassign(rows, t, v, g) = DOMAIN rows
  BY DEF IsTaskTable, Reassign, Task

LEMMA SetCompletedType ==
    ASSUME NEW rows, IsTaskTable(rows), NEW t \in DOMAIN rows, NEW b \in BOOLEAN
    PROVE  /\ IsTaskTable(SetCompleted(rows, t, b))
           /\ DOMAIN SetCompleted(rows, t, b) = DOMAIN rows
  BY DEF IsTaskTable, SetCompleted, Task

LEMMA StartRecurrenceType ==
    ASSUME NEW rows, IsTaskTable(rows), NEW t \in DOMAIN rows, NEW r \in RecIds
    PROVE  IsTaskTable(StartRecurrence(rows, t, r))
  BY DEF IsTaskTable, StartRecurrence, Task

LEMMA UnsetRecurrenceType ==
    ASSUME NEW rows, IsTaskTable(rows), NEW r
    PROVE  /\ IsTaskTable(UnsetRecurrence(rows, r))
           /\ DOMAIN UnsetRecurrence(rows, r) = DOMAIN rows
  BY DEF IsTaskTable, UnsetRecurrence, Task

LEMMA UnsetRecurrenceEffect ==
    ASSUME NEW rows, IsTaskTable(rows), NEW r
    PROVE  \A s \in DOMAIN rows :
              /\ UnsetRecurrence(rows, r)[s].responsible = rows[s].responsible
              /\ UnsetRecurrence(rows, r)[s].group = rows[s].group
              /\ UnsetRecurrence(rows, r)[s].completed = rows[s].completed
              /\ IF rows[s].recurrence = r
                 THEN /\ UnsetRecurrence(rows, r)[s].previous = NULL
                      /\ UnsetRecurrence(rows, r)[s].recurrence = NULL
                 ELSE UnsetRecurrence(rows, r)[s] = rows[s]
  BY DEF IsTaskTable, UnsetRecurrence, Task

LEMMA NextOccurrenceType ==
    ASSUME NEW rows, IsTaskTable(rows), NEW t \in DOMAIN rows
    PROVE  NextOccurrence(rows, t) \in Task
  BY DEF IsTaskTable, NextOccurrence, Task

LEMMA DeleteRowType ==
    ASSUME NEW rows, IsTaskTable(rows), NEW recs, NEW t
    PROVE  IsTaskTable(DeleteRow(rows, recs, t))
  BY DEF IsTaskTable, DeleteRow, Task

LEMMA UnsetGroupType ==
    ASSUME NEW rows, IsTaskTable(rows), NEW u, NEW g
    PROVE  IsTaskTable(UnsetGroup(rows, u, g))
  BY DEF IsTaskTable, UnsetGroup, Task

LEMMA ClearGroupType ==
    ASSUME NEW rows, IsTaskTable(rows), NEW g
    PROVE  IsTaskTable(ClearGroup(rows, g))
  BY DEF IsTaskTable, ClearGroup, Task

LEMMA InsertRecurrence ==
    ASSUME NEW recs, IsRecurrenceTable(recs), NEW r \in RecIds, NEW t \in TaskIds
    PROVE  IsRecurrenceTable(Put(recs, r, t))
  BY DEF IsRecurrenceTable, Put

LEMMA RevertType ==
    ASSUME NEW recs, IsRecurrenceTable(recs), NEW p \in TaskIds, NEW c
    PROVE  IsRecurrenceTable(Revert(recs, p, c))
  BY DEF IsRecurrenceTable, Revert

LEMMA DropRecurrenceType ==
    ASSUME NEW recs, IsRecurrenceTable(recs), NEW r
    PROVE  IsRecurrenceTable(DropRecurrence(recs, r))
  BY DEF IsRecurrenceTable, DropRecurrence, Restrict

LEMMA CascadeRowType ==
    ASSUME NEW recs, IsRecurrenceTable(recs), NEW t
    PROVE  IsRecurrenceTable(CascadeRow(recs, t))
  BY DEF IsRecurrenceTable, CascadeRow, Restrict

-----------------------------------------------------------------------------
(* Type correctness.                                                       *)

LEMMA CreateTaskType ==
    ASSUME TypeOK, NEW u, NEW t \in TaskIds, NEW v \in Users,
           NEW g \in GroupIds \cup {NULL}, NEW r \in RecIds \cup {NULL},
           CreateTask(u, t, v, g, r)
    PROVE  TypeOK'
  <1> DEFINE rows == Put(tasks, t, NewTask(v, g))
  <1>1. IsTaskTable(rows) /\ t \in DOMAIN rows
    BY InsertTask, NewTaskType DEF TypeOK, Put
  <1>2. CASE r = NULL
    BY <1>1, <1>2 DEF TypeOK, CreateTask
  <1>3. CASE r # NULL
    BY <1>1, <1>3, StartRecurrenceType, InsertRecurrence
       DEF TypeOK, CreateTask, AttachRecurrence
  <1> QED BY <1>2, <1>3

LEMMA UpdateTaskType ==
    ASSUME TypeOK, NEW u, NEW t \in TaskIds, NEW v \in Users,
           NEW g \in GroupIds \cup {NULL}, NEW r \in RecIds \cup {NULL},
           UpdateTask(u, t, v, g, r)
    PROVE  TypeOK'
  <1> DEFINE rows == Reassign(tasks, t, v, g)
             old  == tasks[t].recurrence
  <1>1. /\ IsTaskTable(rows)
        /\ t \in DOMAIN rows
        /\ UNCHANGED <<groups, members>>
    BY ReassignType DEF TypeOK, UpdateTask
  <1>2. CASE r = NULL /\ old = NULL
    BY <1>1, <1>2 DEF TypeOK, UpdateTask
  <1>3. CASE r = NULL /\ old # NULL
    BY <1>1, <1>3, UnsetRecurrenceType, DropRecurrenceType DEF TypeOK, UpdateTask
  <1>4. CASE r # NULL /\ old # NULL
    BY <1>1, <1>4 DEF TypeOK, UpdateTask
  <1>5. CASE r # NULL /\ old = NULL
    BY <1>1, <1>5, StartRecurrenceType, InsertRecurrence
       DEF TypeOK, UpdateTask, AttachRecurrence
  <1> QED BY <1>2, <1>3, <1>4, <1>5

LEMMA DeleteTaskType ==
    ASSUME TypeOK, NEW u, NEW t, DeleteTask(u, t)
    PROVE  TypeOK'
  <1> DEFINE old  == tasks[t].recurrence
             rows == IF old = NULL THEN tasks ELSE UnsetRecurrence(tasks, old)
             recs == IF old = NULL THEN recurrences ELSE DropRecurrence(recurrences, old)
  <1>1. IsTaskTable(rows) /\ IsRecurrenceTable(recs)
    BY UnsetRecurrenceType, DropRecurrenceType DEF TypeOK
  <1>2. /\ tasks' = DeleteRow(rows, recs, t)
        /\ recurrences' = CascadeRow(recs, t)
        /\ UNCHANGED <<groups, members>>
    BY DEF DeleteTask
  <1> QED BY <1>1, <1>2, DeleteRowType, CascadeRowType DEF TypeOK

LEMMA CompleteCurrentType ==
    ASSUME TypeOK, NEW u, NEW t \in TaskIds, NEW n \in TaskIds,
           CompleteCurrent(u, t, n)
    PROVE  TypeOK'
  <1>1. IsTaskTable(tasks')
    BY SetCompletedType, NextOccurrenceType, InsertTask DEF TypeOK, CompleteCurrent
  <1>2. IsRecurrenceTable(recurrences')
    BY DEF TypeOK, CompleteCurrent, IsRecurrenceTable
  <1> QED BY <1>1, <1>2 DEF TypeOK, CompleteCurrent

LEMMA ReopenPreviousType ==
    ASSUME TypeOK, NEW u, NEW t \in TaskIds, ReopenPrevious(u, t)
    PROVE  TypeOK'
  BY SetCompletedType, RevertType, DeleteRowType, CascadeRowType
     DEF TypeOK, ReopenPrevious

LEMMA GroupStepType ==
    ASSUME TypeOK, NEW u \in Users, NEW g \in GroupIds,
           CreateGroup(u, g) \/ JoinGroup(u, g) \/ LeaveGroup(u, g)
    PROVE  TypeOK'
  <1>1. CASE CreateGroup(u, g)
    BY <1>1 DEF TypeOK, CreateGroup
  <1>2. CASE JoinGroup(u, g)
    BY <1>2 DEF TypeOK, JoinGroup
  <1>3. CASE LeaveGroup(u, g)
    BY <1>3, UnsetGroupType, ClearGroupType DEF TypeOK, LeaveGroup
  <1> QED BY <1>1, <1>2, <1>3

LEMMA NextTypeOK == TypeOK /\ [Next]_vars => TypeOK'
  <1> SUFFICES ASSUME TypeOK, [Next]_vars PROVE TypeOK'
    OBVIOUS
  <1>1. CASE UNCHANGED vars
    BY <1>1 DEF TypeOK, vars
  <1>2. ASSUME NEW u \in Users, GroupStep(u) PROVE TypeOK'
    BY <1>2, GroupStepType DEF GroupStep
  <1>3. ASSUME NEW u \in Users, WriteStep(u) PROVE TypeOK'
    BY <1>3, CreateTaskType, UpdateTaskType, DeleteTaskType DEF WriteStep
  <1>4. ASSUME NEW u \in Users, ToggleStep(u) PROVE TypeOK'
    <2>1. ASSUME NEW t \in TaskIds, TogglePlain(u, t) PROVE TypeOK'
      BY <2>1, SetCompletedType DEF TypeOK, TogglePlain
    <2> QED BY <1>4, <2>1, CompleteCurrentType, ReopenPreviousType DEF ToggleStep
  <1> QED BY <1>1, <1>2, <1>3, <1>4 DEF Next

(* Every reachable state of the tables is well typed.                      *)
THEOREM TypeCorrect == Spec => []TypeOK
  <1>1. Init => TypeOK
    BY DEF Init, TypeOK, IsTaskTable, IsRecurrenceTable
  <1> QED BY <1>1, NextTypeOK, PTL DEF Spec

-----------------------------------------------------------------------------
(* The effect of each action, column by column.                            *)

(* The conjunction that the chain of a recurrence needs to be preserved.   *)
ChainInv ==
    /\ TypeOK
    /\ References
    /\ CurrentIsLast
    /\ OneSuccessor
    /\ NoCycle
    /\ PastIsCompleted

\* What a step leaves alone in the rows of S.
SameChain(S) == \A s \in S : /\ tasks'[s].previous = tasks[s].previous
                             /\ tasks'[s].recurrence = tasks[s].recurrence
SameOwner(S) == \A s \in S : /\ tasks'[s].responsible = tasks[s].responsible
                             /\ tasks'[s].group = tasks[s].group
SameStatus(S) == \A s \in S : tasks'[s].completed = tasks[s].completed

\* Recurrence r is dissolved: its remaining rows become tasks of their own.
Dissolves(r) ==
    /\ \A s \in DOMAIN tasks' :
          IF tasks[s].recurrence = r
          THEN tasks'[s].previous = NULL /\ tasks'[s].recurrence = NULL
          ELSE /\ tasks'[s].previous = tasks[s].previous
               /\ tasks'[s].recurrence = tasks[s].recurrence
    /\ recurrences' = DropRecurrence(recurrences, r)

\* Row t has these columns after the step.
Assigns(t, v, g) == tasks'[t].responsible = v /\ tasks'[t].group = g
Alone(t) == tasks'[t].previous = NULL /\ tasks'[t].recurrence = NULL

\* Recurrence r starts on the task t, which is in no other.
Starts(t, r) ==
    /\ tasks'[t].previous = NULL
    /\ tasks'[t].recurrence = r
    /\ r \notin DOMAIN recurrences
    /\ recurrences' = Put(recurrences, r, t)

\* The row n that completing t adds, and the move of the recurrence to it.
NewOccurrence(t, n) ==
    /\ tasks'[n].responsible = tasks[t].responsible
    /\ tasks'[n].group = tasks[t].group
    /\ tasks'[n].previous = t
    /\ tasks'[n].recurrence = tasks[t].recurrence
    /\ tasks'[n].completed = FALSE
    /\ tasks'[t].completed = TRUE

MovesTo(r, n) ==
    /\ DOMAIN recurrences' = DOMAIN recurrences
    /\ recurrences'[r] = n
    /\ \A q \in DOMAIN recurrences \ {r} : recurrences'[q] = recurrences[q]

(* A new task is open, and alone or the first of a new recurrence.         *)
LEMMA CreateTaskEffect ==
    ASSUME TypeOK, NEW u, NEW t \in TaskIds, NEW v \in Users,
           NEW g \in GroupIds \cup {NULL}, NEW r \in RecIds \cup {NULL},
           CreateTask(u, t, v, g, r)
    PROVE  /\ t \notin DOMAIN tasks
           /\ DOMAIN tasks' = DOMAIN tasks \cup {t}
           /\ Assigns(t, v, g)
           /\ SameChain(DOMAIN tasks) /\ SameOwner(DOMAIN tasks) /\ SameStatus(DOMAIN tasks)
           /\ \/ Alone(t) /\ recurrences' = recurrences
              \/ r # NULL /\ Starts(t, r)
           /\ ValidAssignment(members, u, v, g)
           /\ UNCHANGED <<groups, members>>
  <1> DEFINE rows == Put(tasks, t, NewTask(v, g))
  <1>1. /\ DOMAIN rows = DOMAIN tasks \cup {t}
        /\ rows[t] = [responsible |-> v, group |-> g, completed |-> FALSE,
                      previous |-> NULL, recurrence |-> NULL]
        /\ \A s \in DOMAIN tasks : s # t => rows[s] = tasks[s]
    BY DEF Put, NewTask
  <1>2. IsTaskTable(rows)
    BY InsertTask, NewTaskType DEF TypeOK
  <1>3. /\ t \notin DOMAIN tasks
        /\ ValidAssignment(members, u, v, g)
        /\ UNCHANGED <<groups, members>>
    BY DEF CreateTask
  <1> HIDE DEF rows
  <1>4. CASE r = NULL
    <2>1. tasks' = rows /\ recurrences' = recurrences
      BY <1>4 DEF CreateTask, rows
    <2> QED BY <1>1, <1>3, <2>1 DEF Assigns, Alone, SameChain, SameOwner, SameStatus
  <1>5. CASE r # NULL
    <2>1. /\ tasks' = StartRecurrence(rows, t, r)
          /\ r \notin DOMAIN recurrences
          /\ recurrences' = Put(recurrences, r, t)
      BY <1>5 DEF CreateTask, AttachRecurrence, rows
    <2>2. /\ DOMAIN tasks' = DOMAIN rows
          /\ tasks'[t] = [rows[t] EXCEPT !.recurrence = r]
          /\ \A s \in DOMAIN rows : s # t => tasks'[s] = rows[s]
      BY <1>1, <1>2, <2>1 DEF StartRecurrence, IsTaskTable
    <2>3. Assigns(t, v, g) /\ Starts(t, r)
      BY <1>1, <2>1, <2>2 DEF Assigns, Starts
    <2>4. SameChain(DOMAIN tasks) /\ SameOwner(DOMAIN tasks) /\ SameStatus(DOMAIN tasks)
      BY <1>1, <1>3, <2>2 DEF SameChain, SameOwner, SameStatus
    <2> QED BY <1>1, <1>3, <1>5, <2>2, <2>3, <2>4
  <1> QED BY <1>4, <1>5

(* An update keeps the rows and their completed_at; it gives t away, and   *)
(* leaves the recurrences alone, dissolves t's or starts one on t.         *)
LEMMA UpdateTaskEffect ==
    ASSUME ChainInv, NEW u, NEW t \in TaskIds, NEW v \in Users,
           NEW g \in GroupIds \cup {NULL}, NEW r \in RecIds \cup {NULL},
           UpdateTask(u, t, v, g, r)
    PROVE  /\ t \in DOMAIN tasks
           /\ MayUpdate(u, t)
           /\ ValidAssignment(members, u, v, g)
           /\ DOMAIN tasks' = DOMAIN tasks
           /\ Assigns(t, v, g)
           /\ SameOwner(DOMAIN tasks \ {t}) /\ SameStatus(DOMAIN tasks)
           /\ \/ SameChain(DOMAIN tasks) /\ recurrences' = recurrences
              \/ r = NULL /\ tasks[t].recurrence # NULL /\ Dissolves(tasks[t].recurrence)
              \/ /\ tasks[t].recurrence = NULL /\ r # NULL
                 /\ SameChain(DOMAIN tasks \ {t}) /\ Starts(t, r)
           /\ UNCHANGED <<groups, members>>
  <1> DEFINE rows == Reassign(tasks, t, v, g)
             old  == tasks[t].recurrence
  <1>1. t \in DOMAIN tasks /\ IsTaskTable(rows)
    BY ReassignType DEF ChainInv, TypeOK, UpdateTask
  <1>2. /\ DOMAIN rows = DOMAIN tasks
        /\ rows[t].responsible = v /\ rows[t].group = g
        /\ \A s \in DOMAIN tasks : /\ rows[s].completed = tasks[s].completed
                                   /\ rows[s].previous = tasks[s].previous
                                   /\ rows[s].recurrence = tasks[s].recurrence
        /\ \A s \in DOMAIN tasks \ {t} : /\ rows[s].responsible = tasks[s].responsible
                                         /\ rows[s].group = tasks[s].group
    BY <1>1 DEF ChainInv, TypeOK, Reassign, IsTaskTable, Task
  <1>3. /\ MayUpdate(u, t)
        /\ ValidAssignment(members, u, v, g)
        /\ UNCHANGED <<groups, members>>
    BY DEF UpdateTask
  <1>4. \/ tasks' = rows /\ recurrences' = recurrences
        \/ /\ r = NULL /\ old # NULL
           /\ tasks' = UnsetRecurrence(rows, old)
           /\ recurrences' = DropRecurrence(recurrences, old)
        \/ r # NULL /\ old = NULL /\ AttachRecurrence(rows, t, r)
    <2>1. CASE r = NULL /\ old = NULL
      BY <2>1 DEF UpdateTask
    <2>2. CASE r = NULL /\ old # NULL
      BY <2>2 DEF UpdateTask
    <2>3. CASE r # NULL /\ old # NULL
      BY <2>3 DEF UpdateTask
    <2>4. CASE r # NULL /\ old = NULL
      BY <2>4 DEF UpdateTask
    <2> QED BY <2>1, <2>2, <2>3, <2>4
  <1> HIDE DEF rows
  <1>5. CASE tasks' = rows /\ recurrences' = recurrences
    BY <1>1, <1>2, <1>3, <1>5 DEF Assigns, SameChain, SameOwner, SameStatus
  <1>6. CASE /\ r = NULL /\ old # NULL
             /\ tasks' = UnsetRecurrence(rows, old)
             /\ recurrences' = DropRecurrence(recurrences, old)
    <2>1. /\ DOMAIN tasks' = DOMAIN tasks
          /\ \A s \in DOMAIN tasks :
                /\ tasks'[s].responsible = rows[s].responsible
                /\ tasks'[s].group = rows[s].group
                /\ tasks'[s].completed = rows[s].completed
                /\ IF tasks[s].recurrence = old
                   THEN tasks'[s].previous = NULL /\ tasks'[s].recurrence = NULL
                   ELSE tasks'[s] = rows[s]
      BY <1>1, <1>2, <1>6 DEF UnsetRecurrence, IsTaskTable, Task
    <2>2. Assigns(t, v, g) /\ SameOwner(DOMAIN tasks \ {t}) /\ SameStatus(DOMAIN tasks)
      BY <1>1, <1>2, <2>1 DEF Assigns, SameOwner, SameStatus
    <2>3. Dissolves(old)
      BY <1>2, <1>6, <2>1 DEF Dissolves
    <2> QED BY <1>1, <1>3, <1>6, <2>1, <2>2, <2>3
  <1>7. CASE r # NULL /\ old = NULL /\ AttachRecurrence(rows, t, r)
    <2>1. /\ DOMAIN tasks' = DOMAIN tasks
          /\ \A s \in DOMAIN tasks :
                /\ tasks'[s].responsible = rows[s].responsible
                /\ tasks'[s].group = rows[s].group
                /\ tasks'[s].completed = rows[s].completed
                /\ tasks'[s].previous = rows[s].previous
                /\ tasks'[s].recurrence = IF s = t THEN r ELSE rows[s].recurrence
      BY <1>1, <1>2, <1>7 DEF AttachRecurrence, StartRecurrence, IsTaskTable, Task
    <2>2. /\ Assigns(t, v, g) /\ SameOwner(DOMAIN tasks \ {t}) /\ SameStatus(DOMAIN tasks)
          /\ SameChain(DOMAIN tasks \ {t})
      BY <1>1, <1>2, <2>1 DEF Assigns, SameOwner, SameStatus, SameChain
    <2>3. tasks[t].previous = NULL
      BY <1>1, <1>7 DEF ChainInv, OneSuccessor
    <2>4. Starts(t, r)
      BY <1>1, <1>2, <1>7, <2>1, <2>3 DEF Starts, AttachRecurrence
    <2> QED BY <1>1, <1>3, <1>7, <2>1, <2>2, <2>4
  <1> QED BY <1>4, <1>5, <1>6, <1>7

(* A delete takes one row away, which no foreign key cascades from.        *)
LEMMA DeleteTaskEffect ==
    ASSUME ChainInv, NEW u, NEW t \in TaskIds, DeleteTask(u, t)
    PROVE  /\ t \in DOMAIN tasks
           /\ MayDelete(u, t)
           /\ DOMAIN tasks' = DOMAIN tasks \ {t}
           /\ SameOwner(DOMAIN tasks') /\ SameStatus(DOMAIN tasks')
           /\ \/ /\ tasks[t].recurrence = NULL
                 /\ \A s \in DOMAIN tasks' : tasks[s].previous # t
                 /\ SameChain(DOMAIN tasks')
                 /\ recurrences' = recurrences
              \/ tasks[t].recurrence # NULL /\ Dissolves(tasks[t].recurrence)
           /\ UNCHANGED <<groups, members>>
  <1> DEFINE old  == tasks[t].recurrence
             rows == IF old = NULL THEN tasks ELSE UnsetRecurrence(tasks, old)
             recs == IF old = NULL THEN recurrences ELSE DropRecurrence(recurrences, old)
  <1>1. /\ t \in DOMAIN tasks
        /\ MayDelete(u, t)
        /\ ~IsPrevious(rows, t)
        /\ tasks' = DeleteRow(rows, recs, t)
        /\ recurrences' = CascadeRow(recs, t)
        /\ UNCHANGED <<groups, members>>
    BY DEF DeleteTask
  <1>2. /\ IsTaskTable(rows)
        /\ DOMAIN rows = DOMAIN tasks
        /\ \A s \in DOMAIN tasks :
              /\ rows[s].responsible = tasks[s].responsible
              /\ rows[s].group = tasks[s].group
              /\ rows[s].completed = tasks[s].completed
              /\ IF old # NULL /\ tasks[s].recurrence = old
                 THEN rows[s].previous = NULL /\ rows[s].recurrence = NULL
                 ELSE /\ rows[s].previous = tasks[s].previous
                      /\ rows[s].recurrence = tasks[s].recurrence
    <2>1. CASE old = NULL
      BY <2>1 DEF ChainInv, TypeOK
    <2>2. CASE old # NULL
      BY <2>2, UnsetRecurrenceType, UnsetRecurrenceEffect DEF ChainInv, TypeOK
    <2> QED BY <2>1, <2>2
  <1>3. \A r \in DOMAIN recs : r \in DOMAIN recurrences /\ recs[r] = recurrences[r] /\ recs[r] # t
    <2>1. \A r \in DOMAIN recurrences : recurrences[r] = t => r = old /\ r # NULL
      BY NullAssumption DEF ChainInv, TypeOK, CurrentIsLast, IsRecurrenceTable
    <2> QED BY <2>1 DEF DropRecurrence, Restrict
  <1>4. recurrences' = recs
    <2>1. recs \in [DOMAIN recs -> TaskIds]
      BY DropRecurrenceType DEF ChainInv, TypeOK, IsRecurrenceTable
    <2> QED BY <1>1, <1>3, <2>1 DEF CascadeRow, Restrict
  <1>5. \A s \in DOMAIN tasks \ {t} : CurrentOf(rows, recs, s) # t
    <2> SUFFICES ASSUME NEW s \in DOMAIN tasks \ {t} PROVE CurrentOf(rows, recs, s) # t
      OBVIOUS
    <2>1. CASE rows[s].recurrence = NULL
      BY <1>1, <2>1, NullAssumption DEF CurrentOf, ChainInv, TypeOK, IsTaskTable
    <2>2. CASE rows[s].recurrence # NULL
      <3>1. rows[s].recurrence \in DOMAIN recs
        BY <1>2, <2>2 DEF ChainInv, References, DropRecurrence, Restrict
      <3> QED BY <1>3, <2>2, <3>1 DEF CurrentOf
    <2> QED BY <2>1, <2>2
  <1>6. /\ DOMAIN tasks' = DOMAIN tasks \ {t}
        /\ \A s \in DOMAIN tasks \ {t} : tasks'[s] = rows[s]
    BY <1>1, <1>2, <1>5 DEF DeleteRow
  <1>7. SameOwner(DOMAIN tasks') /\ SameStatus(DOMAIN tasks')
    BY <1>2, <1>6 DEF SameOwner, SameStatus
  <1> HIDE DEF rows
  <1>8. CASE old = NULL
    BY <1>1, <1>2, <1>4, <1>6, <1>7, <1>8 DEF SameChain, IsPrevious
  <1>9. CASE old # NULL
    BY <1>1, <1>2, <1>4, <1>6, <1>7, <1>9 DEF Dissolves
  <1> QED BY <1>8, <1>9

(* Completing the current task t adds the task n after it.                 *)
LEMMA CompleteCurrentEffect ==
    ASSUME ChainInv, NEW u, NEW t \in TaskIds, NEW n \in TaskIds,
           CompleteCurrent(u, t, n)
    PROVE  /\ t \in DOMAIN tasks /\ n \notin DOMAIN tasks
           /\ tasks[t].recurrence \in DOMAIN recurrences
           /\ recurrences[tasks[t].recurrence] = t
           /\ DOMAIN tasks' = DOMAIN tasks \cup {n}
           /\ NewOccurrence(t, n)
           /\ SameChain(DOMAIN tasks) /\ SameOwner(DOMAIN tasks)
           /\ SameStatus(DOMAIN tasks \ {t})
           /\ MovesTo(tasks[t].recurrence, n)
           /\ UNCHANGED <<groups, members>>
  <1> DEFINE rows == SetCompleted(tasks, t, TRUE)
             next == NextOccurrence(tasks, t)
  <1>1. /\ t \in DOMAIN tasks /\ n \notin DOMAIN tasks
        /\ Current(t) = t
        /\ tasks' = Put(rows, n, next)
        /\ recurrences' = [recurrences EXCEPT ![tasks[t].recurrence] = n]
        /\ UNCHANGED <<groups, members>>
    BY DEF CompleteCurrent, CompleteArm
  <1>2. /\ tasks[t].recurrence \in DOMAIN recurrences
        /\ recurrences[tasks[t].recurrence] = t
    BY <1>1, NullAssumption DEF ChainInv, References, Current, CurrentOf
  <1>3. /\ DOMAIN rows = DOMAIN tasks
        /\ \A s \in DOMAIN tasks :
              /\ rows[s].responsible = tasks[s].responsible
              /\ rows[s].group = tasks[s].group
              /\ rows[s].previous = tasks[s].previous
              /\ rows[s].recurrence = tasks[s].recurrence
              /\ rows[s].completed = IF s = t THEN TRUE ELSE tasks[s].completed
    BY <1>1 DEF SetCompleted, ChainInv, TypeOK, IsTaskTable, Task
  <1>4. /\ next.responsible = tasks[t].responsible
        /\ next.group = tasks[t].group
        /\ next.previous = t
        /\ next.recurrence = tasks[t].recurrence
        /\ next.completed = FALSE
    BY <1>1 DEF NextOccurrence, ChainInv, TypeOK, IsTaskTable, Task
  <1> HIDE DEF rows, next
  <1>5. /\ DOMAIN tasks' = DOMAIN tasks \cup {n}
        /\ tasks'[n] = next
        /\ \A s \in DOMAIN tasks : tasks'[s] = rows[s]
    BY <1>1, <1>3 DEF Put
  <1>6. SameChain(DOMAIN tasks) /\ SameOwner(DOMAIN tasks)
    BY <1>3, <1>5 DEF SameChain, SameOwner
  <1>7. SameStatus(DOMAIN tasks \ {t}) /\ tasks'[t].completed = TRUE
    BY <1>1, <1>3, <1>5 DEF SameStatus
  <1>8. NewOccurrence(t, n)
    BY <1>4, <1>5, <1>7 DEF NewOccurrence
  <1>9. MovesTo(tasks[t].recurrence, n)
    BY <1>1, <1>2 DEF MovesTo, ChainInv, TypeOK, IsRecurrenceTable
  <1> QED BY <1>1, <1>2, <1>5, <1>6, <1>7, <1>8, <1>9

LEMMA ReopenPreviousEffect ==
    ASSUME ChainInv, NEW u, NEW t \in TaskIds, ReopenPrevious(u, t)
    PROVE  /\ t \in DOMAIN tasks
           /\ tasks[t].recurrence \in DOMAIN recurrences
           /\ Current(t) = recurrences[tasks[t].recurrence]
           /\ Current(t) \in DOMAIN tasks
           /\ Current(t) # t
           /\ tasks[Current(t)].previous = t
           /\ DOMAIN tasks' = DOMAIN tasks \ {Current(t)}
           /\ SameChain(DOMAIN tasks') /\ SameOwner(DOMAIN tasks')
           /\ SameStatus(DOMAIN tasks' \ {t})
           /\ recurrences' = [recurrences EXCEPT ![tasks[t].recurrence] = t]
           /\ UNCHANGED <<groups, members>>
  <1> DEFINE c    == Current(t)
             r    == tasks[t].recurrence
             rows == SetCompleted(tasks, t, FALSE)
             recs == Revert(recurrences, t, c)
  <1>1. /\ t \in DOMAIN tasks
        /\ c # NULL /\ Previous(t) = t
        /\ tasks' = DeleteRow(rows, recs, c)
        /\ recurrences' = CascadeRow(recs, c)
        /\ UNCHANGED <<groups, members>>
    BY DEF ReopenPrevious, ReopenArm
  <1>2. r \in DOMAIN recurrences /\ c = recurrences[r] /\ c \in DOMAIN tasks
    BY <1>1 DEF ChainInv, References, Current, CurrentOf
  <1>3. tasks[c].previous = t
    BY <1>1, <1>2 DEF Previous, PreviousOf, Current
  <1>4. c # t
    BY <1>2, <1>3 DEF ChainInv, CurrentIsLast
  <1>5. \A q \in DOMAIN recurrences : recurrences[q] = c => q = r
    BY <1>2 DEF ChainInv, CurrentIsLast
  <1>6. recs = [recurrences EXCEPT ![r] = t]
    BY <1>2, <1>5 DEF Revert, ChainInv, TypeOK, IsRecurrenceTable
  <1>7. \A q \in DOMAIN recs : recs[q] # c
    BY <1>2, <1>4, <1>5 DEF Revert
  <1>8. recurrences' = recs
    BY <1>1, <1>6, <1>7 DEF CascadeRow, Restrict, ChainInv, TypeOK, IsRecurrenceTable
  <1>9. /\ DOMAIN rows = DOMAIN tasks
        /\ \A s \in DOMAIN tasks :
              /\ rows[s].responsible = tasks[s].responsible
              /\ rows[s].group = tasks[s].group
              /\ rows[s].previous = tasks[s].previous
              /\ rows[s].recurrence = tasks[s].recurrence
              /\ s # t => rows[s].completed = tasks[s].completed
    BY <1>1 DEF SetCompleted, ChainInv, TypeOK, IsTaskTable, Task
  <1>10. \A s \in DOMAIN tasks \ {c} : CurrentOf(rows, recs, s) # c
    <2>1. DOMAIN recs = DOMAIN recurrences
      BY DEF Revert
    <2>2. \A s \in DOMAIN tasks : rows[s].recurrence # NULL => rows[s].recurrence \in DOMAIN recs
      BY <1>9, <2>1 DEF ChainInv, References
    <2> QED BY <1>1, <1>7, <2>2 DEF CurrentOf
  <1> HIDE DEF rows, recs
  <1>11. /\ DOMAIN tasks' = DOMAIN tasks \ {c}
         /\ \A s \in DOMAIN tasks \ {c} : tasks'[s] = rows[s]
    BY <1>1, <1>9, <1>10 DEF DeleteRow
  <1> HIDE DEF c
  <1>12. SameChain(DOMAIN tasks') /\ SameOwner(DOMAIN tasks') /\ SameStatus(DOMAIN tasks' \ {t})
    BY <1>9, <1>11 DEF SameChain, SameOwner, SameStatus
  <1> QED BY <1>1, <1>2, <1>3, <1>4, <1>6, <1>8, <1>11, <1>12 DEF c

(* Leaving a group changes no column of a task but its group.              *)
LEMMA LeaveGroupEffect ==
    ASSUME TypeOK, NEW u \in Users, NEW g \in GroupIds, LeaveGroup(u, g)
    PROVE  /\ members' = members \ {<<u, g>>}
           /\ groups' = IF IsEmptyGroup(members', g) THEN groups \ {g} ELSE groups
           /\ DOMAIN tasks' = DOMAIN tasks
           /\ SameChain(DOMAIN tasks) /\ SameStatus(DOMAIN tasks)
           /\ \A s \in DOMAIN tasks :
                 /\ tasks'[s].responsible = tasks[s].responsible
                 /\ tasks'[s].group =
                       IF tasks[s].group = g
                          /\ (tasks[s].responsible = u \/ IsEmptyGroup(members', g))
                       THEN NULL ELSE tasks[s].group
           /\ recurrences' = recurrences
  <1> DEFINE rows == UnsetGroup(tasks, u, g)
  <1>1. /\ IsTaskTable(rows)
        /\ DOMAIN rows = DOMAIN tasks
        /\ \A s \in DOMAIN tasks :
              /\ rows[s].responsible = tasks[s].responsible
              /\ rows[s].completed = tasks[s].completed
              /\ rows[s].previous = tasks[s].previous
              /\ rows[s].recurrence = tasks[s].recurrence
              /\ rows[s].group = IF tasks[s].group = g /\ tasks[s].responsible = u
                                 THEN NULL ELSE tasks[s].group
    BY UnsetGroupType DEF TypeOK, UnsetGroup, IsTaskTable, Task
  <1>2. /\ members' = members \ {<<u, g>>}
        /\ recurrences' = recurrences
        /\ IF IsEmptyGroup(members', g)
           THEN groups' = groups \ {g} /\ tasks' = ClearGroup(rows, g)
           ELSE groups' = groups /\ tasks' = rows
    BY DEF LeaveGroup
  <1> HIDE DEF rows
  <1>3. /\ DOMAIN ClearGroup(rows, g) = DOMAIN tasks
        /\ \A s \in DOMAIN tasks :
              /\ ClearGroup(rows, g)[s].responsible = rows[s].responsible
              /\ ClearGroup(rows, g)[s].completed = rows[s].completed
              /\ ClearGroup(rows, g)[s].previous = rows[s].previous
              /\ ClearGroup(rows, g)[s].recurrence = rows[s].recurrence
              /\ ClearGroup(rows, g)[s].group = IF rows[s].group = g THEN NULL ELSE rows[s].group
    BY <1>1 DEF ClearGroup, IsTaskTable, Task
  <1>4. CASE IsEmptyGroup(members', g)
    BY <1>1, <1>2, <1>3, <1>4 DEF SameChain, SameStatus
  <1>5. CASE ~IsEmptyGroup(members', g)
    BY <1>1, <1>2, <1>5 DEF SameChain, SameStatus
  <1> QED BY <1>4, <1>5

(* Completing or reopening a task without a recurrence.                    *)
LEMMA TogglePlainEffect ==
    ASSUME ChainInv, NEW u, NEW t \in TaskIds, TogglePlain(u, t)
    PROVE  /\ t \in DOMAIN tasks
           /\ tasks[t].recurrence = NULL
           /\ DOMAIN tasks' = DOMAIN tasks
           /\ SameChain(DOMAIN tasks) /\ SameOwner(DOMAIN tasks)
           /\ SameStatus(DOMAIN tasks \ {t})
           /\ UNCHANGED <<groups, members, recurrences>>
  <1>1. /\ t \in DOMAIN tasks
        /\ Current(t) = NULL
        /\ tasks' = SetCompleted(tasks, t, ~tasks[t].completed)
        /\ UNCHANGED <<groups, members, recurrences>>
    BY DEF TogglePlain, PlainArm
  <1>2. tasks[t].recurrence = NULL
    BY <1>1, NullAssumption
       DEF ChainInv, TypeOK, References, IsRecurrenceTable, Current, CurrentOf
  <1>3. /\ DOMAIN tasks' = DOMAIN tasks
        /\ \A s \in DOMAIN tasks :
              /\ tasks'[s].responsible = tasks[s].responsible
              /\ tasks'[s].group = tasks[s].group
              /\ tasks'[s].previous = tasks[s].previous
              /\ tasks'[s].recurrence = tasks[s].recurrence
              /\ s # t => tasks'[s].completed = tasks[s].completed
    BY <1>1 DEF SetCompleted, ChainInv, TypeOK, IsTaskTable, Task
  <1> QED BY <1>1, <1>2, <1>3 DEF SameChain, SameOwner, SameStatus

-----------------------------------------------------------------------------
(* Chains: steps that leave every chain alone.                             *)

LEMMA SameChainKeeps ==
    ASSUME ChainInv, DOMAIN tasks' = DOMAIN tasks, SameChain(DOMAIN tasks),
           recurrences' = recurrences,
           \A s \in DOMAIN tasks :
              tasks[s].recurrence # NULL => tasks'[s].completed = tasks[s].completed
    PROVE  CurrentIsLast' /\ OneSuccessor' /\ NoCycle' /\ PastIsCompleted'
  <1> USE DEF ChainInv, SameChain
  <1>1. CurrentIsLast'
    BY DEF CurrentIsLast, References
  <1>2. OneSuccessor'
    BY DEF OneSuccessor, References, Current, CurrentOf
  <1>3. NoCycle'
    BY DEF NoCycle
  <1>4. PastIsCompleted'
    BY DEF PastIsCompleted, IsPast, Current, CurrentOf
  <1> QED BY <1>1, <1>2, <1>3, <1>4

(* NoCycle survives a step that only cuts links, and adds rows without one. *)
LEMMA CutKeepsNoCycle ==
    ASSUME NoCycle, TypeOK',
           \A s \in DOMAIN tasks' :
              \/ tasks'[s].previous = NULL
              \/ s \in DOMAIN tasks /\ tasks'[s].previous = tasks[s].previous
    PROVE  NoCycle'
  <1> SUFFICES ASSUME NEW S \in SUBSET DOMAIN tasks', S # {}
               PROVE  \E t \in S : tasks'[t].previous \notin S
    BY DEF NoCycle
  <1>1. NULL \notin S
    BY NullAssumption DEF TypeOK, IsTaskTable
  <1>2. CASE \E t \in S : tasks'[t].previous = NULL
    BY <1>1, <1>2
  <1>3. CASE \A t \in S : tasks'[t].previous # NULL
    <2>1. /\ S \in SUBSET DOMAIN tasks
          /\ \A t \in S : tasks'[t].previous = tasks[t].previous
      BY <1>3
    <2>2. PICK t \in S : tasks[t].previous \notin S
      BY <2>1 DEF NoCycle
    <2> QED BY <2>1, <2>2
  <1> QED BY <1>2, <1>3

(* A new recurrence on a task that has none.                               *)
LEMMA StartKeepsChains ==
    ASSUME ChainInv, TypeOK', References', NEW t, NEW r,
           t \in DOMAIN tasks', r \in RecIds, r \notin DOMAIN recurrences,
           DOMAIN tasks \subseteq DOMAIN tasks', DOMAIN tasks' \subseteq DOMAIN tasks \cup {t},
           t \in DOMAIN tasks => tasks[t].recurrence = NULL,
           tasks'[t].previous = NULL, tasks'[t].recurrence = r,
           SameChain(DOMAIN tasks \ {t}), SameStatus(DOMAIN tasks \ {t}),
           recurrences' = Put(recurrences, r, t)
    PROVE  CurrentIsLast' /\ OneSuccessor' /\ NoCycle' /\ PastIsCompleted'
  <1> USE DEF ChainInv
  <1>1. /\ DOMAIN recurrences' = DOMAIN recurrences \cup {r}
        /\ recurrences'[r] = t
        /\ \A q \in DOMAIN recurrences : recurrences'[q] = recurrences[q] /\ q # r
    BY DEF Put
  <1>2. \A s \in DOMAIN tasks \ {t} :
           /\ tasks'[s].previous = tasks[s].previous
           /\ tasks'[s].recurrence = tasks[s].recurrence
           /\ tasks'[s].completed = tasks[s].completed
    BY DEF SameChain, SameStatus
  <1>3. \A s \in DOMAIN tasks : tasks[s].previous # t
    <2> SUFFICES ASSUME NEW s \in DOMAIN tasks, tasks[s].previous = t PROVE FALSE
      OBVIOUS
    <2>1. t # NULL
      BY NullAssumption DEF TypeOK, IsTaskTable
    <2>2. t \in DOMAIN tasks
      BY <2>1 DEF References
    <2> QED BY <2>1, <2>2 DEF OneSuccessor
  <1>4. t # NULL
    BY NullAssumption DEF TypeOK, IsTaskTable
  <1>5. \A q \in DOMAIN recurrences : recurrences[q] # t
    BY NullAssumption DEF CurrentIsLast, References, TypeOK, IsRecurrenceTable
  <1>6. CurrentIsLast'
    <2>1. \A q \in DOMAIN recurrences : recurrences[q] \in DOMAIN tasks \ {t, NULL}
      BY <1>5, NullAssumption DEF References, TypeOK, IsTaskTable
    <2>2. \A q \in DOMAIN recurrences :
             /\ tasks'[recurrences[q]].recurrence = q
             /\ \A s \in DOMAIN tasks' : tasks'[s].previous # recurrences[q]
      BY <1>2, <2>1 DEF CurrentIsLast
    <2>3. \A s \in DOMAIN tasks' : tasks'[s].previous # t
      BY <1>2, <1>3, <1>4
    <2> QED BY <1>1, <2>2, <2>3 DEF CurrentIsLast
  <1>7. OneSuccessor'
    <2> SUFFICES ASSUME NEW s \in DOMAIN tasks'
                 PROVE  /\ tasks'[s].previous # NULL =>
                              /\ tasks'[s].recurrence # NULL
                              /\ tasks'[tasks'[s].previous].recurrence = tasks'[s].recurrence
                        /\ \A x \in DOMAIN tasks' :
                              tasks'[x].previous = tasks'[s].previous /\ x # s
                              => tasks'[x].previous = NULL
                        /\ tasks'[s].recurrence # NULL /\ (Current(s))' # s =>
                              \E x \in DOMAIN tasks' : tasks'[x].previous = s
      BY DEF OneSuccessor
    <2>1. CASE s = t
      BY <1>1, <2>1 DEF Current, CurrentOf
    <2>2. CASE s # t
      <3>1. s \in DOMAIN tasks
        BY <2>2
      <3>2. /\ tasks[s].previous # NULL =>
                  /\ tasks[s].recurrence # NULL
                  /\ tasks[tasks[s].previous].recurrence = tasks[s].recurrence
            /\ \A x \in DOMAIN tasks :
                  tasks[x].previous = tasks[s].previous /\ x # s => tasks[x].previous = NULL
            /\ tasks[s].recurrence # NULL /\ Current(s) # s =>
                  \E x \in DOMAIN tasks : tasks[x].previous = s
        BY <3>1 DEF OneSuccessor
      <3>3. tasks[s].recurrence # NULL => (Current(s))' = Current(s)
        BY <1>1, <1>2, <2>2, <3>1 DEF Current, CurrentOf, References
      <3>4. tasks[s].previous \in DOMAIN tasks \cup {NULL} /\ tasks[s].previous # t
        BY <1>3, <3>1 DEF References
      <3>5. \A x \in DOMAIN tasks \ {t} :
                tasks[x].previous = s => tasks'[x].previous = s
        BY <1>2
      <3>6. t \in DOMAIN tasks => tasks[t].previous = NULL
        BY DEF OneSuccessor
      <3> QED BY <1>2, <1>4, <2>2, <3>1, <3>2, <3>3, <3>4, <3>5, <3>6
    <2> QED BY <2>1, <2>2
  <1>8. NoCycle'
    BY <1>2, CutKeepsNoCycle
  <1>9. PastIsCompleted'
    BY <1>1, <1>2 DEF PastIsCompleted, IsPast, Current, CurrentOf, References
  <1> QED BY <1>6, <1>7, <1>8, <1>9

(* A new task without a recurrence.                                        *)
LEMMA LoneTaskKeepsChains ==
    ASSUME ChainInv, TypeOK', NEW t, t \notin DOMAIN tasks,
           DOMAIN tasks' = DOMAIN tasks \cup {t},
           tasks'[t].previous = NULL, tasks'[t].recurrence = NULL,
           SameChain(DOMAIN tasks), SameStatus(DOMAIN tasks),
           recurrences' = recurrences
    PROVE  CurrentIsLast' /\ OneSuccessor' /\ NoCycle' /\ PastIsCompleted'
  <1> USE DEF ChainInv
  <1>1. \A s \in DOMAIN tasks : /\ tasks'[s].previous = tasks[s].previous
                                /\ tasks'[s].recurrence = tasks[s].recurrence
                                /\ tasks'[s].completed = tasks[s].completed
    BY DEF SameChain, SameStatus
  <1>2. NULL \notin DOMAIN tasks
    BY NullAssumption DEF TypeOK, IsTaskTable
  <1>3. CurrentIsLast'
    BY <1>1, <1>2 DEF CurrentIsLast, References
  <1>4. OneSuccessor'
    <2> SUFFICES ASSUME NEW s \in DOMAIN tasks
                 PROVE  /\ tasks'[s].previous # NULL =>
                              /\ tasks'[s].recurrence # NULL
                              /\ tasks'[tasks'[s].previous].recurrence = tasks'[s].recurrence
                        /\ \A x \in DOMAIN tasks :
                              tasks'[x].previous = tasks'[s].previous /\ x # s
                              => tasks'[x].previous = NULL
                        /\ tasks'[s].recurrence # NULL /\ (Current(s))' # s =>
                              \E x \in DOMAIN tasks : tasks'[x].previous = s
      BY DEF OneSuccessor
    <2>1. (Current(s))' = Current(s)
      BY <1>1 DEF Current, CurrentOf
    <2> QED BY <1>1, <2>1 DEF OneSuccessor, References
  <1>5. NoCycle'
    BY <1>1, CutKeepsNoCycle
  <1>6. PastIsCompleted'
    BY <1>1 DEF PastIsCompleted, IsPast, Current, CurrentOf
  <1> QED BY <1>3, <1>4, <1>5, <1>6

(* A recurrence is dissolved, and t, its current task, may be deleted.     *)
LEMMA DissolveKeepsChains ==
    ASSUME ChainInv, TypeOK', NEW t \in DOMAIN tasks,
           DOMAIN tasks' \subseteq DOMAIN tasks, DOMAIN tasks \ {t} \subseteq DOMAIN tasks',
           tasks[t].recurrence # NULL,
           Dissolves(tasks[t].recurrence), SameStatus(DOMAIN tasks')
    PROVE  CurrentIsLast' /\ OneSuccessor' /\ NoCycle' /\ PastIsCompleted'
  <1> USE DEF ChainInv
  <1> DEFINE r == tasks[t].recurrence
  <1>1. /\ r \in DOMAIN recurrences
        /\ DOMAIN recurrences' = DOMAIN recurrences \ {r}
        /\ \A q \in DOMAIN recurrences \ {r} : recurrences'[q] = recurrences[q]
    BY DEF Dissolves, DropRecurrence, Restrict, References
  <1>2. \A s \in DOMAIN tasks' :
           /\ tasks[s].recurrence = r =>
                 tasks'[s].previous = NULL /\ tasks'[s].recurrence = NULL
           /\ tasks[s].recurrence # r =>
                 /\ tasks'[s].previous = tasks[s].previous
                 /\ tasks'[s].recurrence = tasks[s].recurrence
           /\ tasks'[s].completed = tasks[s].completed
    BY DEF Dissolves, SameStatus
  <1> HIDE DEF r
  <1>3. NULL \notin DOMAIN tasks
    BY NullAssumption DEF TypeOK, IsTaskTable
  <1>4. CurrentIsLast'
    <2>1. \A q \in DOMAIN recurrences \ {r} : /\ recurrences[q] \in DOMAIN tasks'
                                              /\ tasks[recurrences[q]].recurrence = q
      BY DEF References, CurrentIsLast, r
    <2> QED BY <1>1, <1>2, <1>3, <2>1 DEF CurrentIsLast
  <1>5. OneSuccessor'
    <2> SUFFICES ASSUME NEW s \in DOMAIN tasks'
                 PROVE  /\ tasks'[s].previous # NULL =>
                              /\ tasks'[s].recurrence # NULL
                              /\ tasks'[tasks'[s].previous].recurrence = tasks'[s].recurrence
                        /\ \A x \in DOMAIN tasks' :
                              tasks'[x].previous = tasks'[s].previous /\ x # s
                              => tasks'[x].previous = NULL
                        /\ tasks'[s].recurrence # NULL /\ (Current(s))' # s =>
                              \E x \in DOMAIN tasks' : tasks'[x].previous = s
      BY DEF OneSuccessor
    <2>1. CASE tasks[s].recurrence = r
      BY <1>2, <2>1
    <2>2. CASE tasks[s].recurrence # r
      <3>1. tasks'[s].previous = tasks[s].previous /\ tasks'[s].recurrence = tasks[s].recurrence
        BY <1>2, <2>2
      <3>2. tasks[s].previous # NULL =>
               /\ tasks[s].recurrence # NULL
               /\ tasks[s].previous \in DOMAIN tasks'
               /\ tasks'[tasks[s].previous].recurrence = tasks[s].recurrence
        BY <1>2, <2>2 DEF OneSuccessor, References, r
      <3>3. \A x \in DOMAIN tasks' :
               tasks'[x].previous = tasks[s].previous /\ x # s => tasks'[x].previous = NULL
        BY <1>2 DEF OneSuccessor
      <3>4. tasks[s].recurrence # NULL /\ (Current(s))' # s =>
               \E x \in DOMAIN tasks' : tasks'[x].previous = s
        <4> SUFFICES ASSUME tasks[s].recurrence # NULL, (Current(s))' # s
                     PROVE  \E x \in DOMAIN tasks' : tasks'[x].previous = s
          OBVIOUS
        <4>1. (Current(s))' = Current(s)
          BY <1>1, <2>2, <3>1 DEF Current, CurrentOf, References
        <4>2. PICK x \in DOMAIN tasks : tasks[x].previous = s
          BY <4>1 DEF OneSuccessor
        <4>3. tasks[x].recurrence = tasks[s].recurrence
          BY <1>3, <4>2 DEF OneSuccessor
        <4> QED BY <1>2, <2>2, <4>2, <4>3 DEF r
      <3> QED BY <3>1, <3>2, <3>3, <3>4
    <2> QED BY <2>1, <2>2
  <1>6. NoCycle'
    BY <1>2, CutKeepsNoCycle
  <1>7. PastIsCompleted'
    <2> SUFFICES ASSUME NEW s \in DOMAIN tasks', tasks'[s].recurrence # NULL, (Current(s))' # s
                 PROVE  tasks'[s].completed
      BY DEF PastIsCompleted, IsPast
    <2>1. tasks[s].recurrence # r /\ tasks'[s].recurrence = tasks[s].recurrence
      BY <1>2
    <2>2. (Current(s))' = Current(s)
      BY <1>1, <2>1 DEF Current, CurrentOf, References
    <2> QED BY <1>2, <2>1, <2>2 DEF PastIsCompleted, IsPast
  <1> QED BY <1>4, <1>5, <1>6, <1>7

(* A task that is not part of a recurrence is deleted.                     *)
LEMMA DeleteLoneKeepsChains ==
    ASSUME ChainInv, TypeOK', NEW t \in DOMAIN tasks,
           DOMAIN tasks' = DOMAIN tasks \ {t}, tasks[t].recurrence = NULL,
           SameChain(DOMAIN tasks'), SameStatus(DOMAIN tasks'),
           recurrences' = recurrences
    PROVE  CurrentIsLast' /\ OneSuccessor' /\ NoCycle' /\ PastIsCompleted'
  <1> USE DEF ChainInv
  <1>1. \A s \in DOMAIN tasks' : /\ tasks'[s].previous = tasks[s].previous
                                 /\ tasks'[s].recurrence = tasks[s].recurrence
                                 /\ tasks'[s].completed = tasks[s].completed
    BY DEF SameChain, SameStatus
  <1>2. NULL \notin DOMAIN tasks
    BY NullAssumption DEF TypeOK, IsTaskTable
  <1>3. CurrentIsLast'
    <2>1. \A q \in DOMAIN recurrences : recurrences[q] \in DOMAIN tasks'
      BY NullAssumption DEF CurrentIsLast, References, TypeOK, IsRecurrenceTable
    <2> QED BY <1>1, <2>1 DEF CurrentIsLast
  <1>4. tasks[t].previous = NULL /\ \A s \in DOMAIN tasks : tasks[s].previous # t
    BY <1>2 DEF OneSuccessor
  <1>5. \A s \in DOMAIN tasks' : (Current(s))' = Current(s)
    BY <1>1 DEF Current, CurrentOf
  <1>6. OneSuccessor'
    BY <1>1, <1>4, <1>5, <1>2 DEF OneSuccessor, References
  <1>7. NoCycle'
    BY <1>1, CutKeepsNoCycle
  <1>8. PastIsCompleted'
    BY <1>1, <1>5 DEF PastIsCompleted, IsPast
  <1> QED BY <1>3, <1>6, <1>7, <1>8

(* The current task t is completed and n becomes the current task.         *)
LEMMA CompleteKeepsChains ==
    ASSUME ChainInv, TypeOK', NEW u, NEW t \in TaskIds, NEW n \in TaskIds,
           CompleteCurrent(u, t, n)
    PROVE  CurrentIsLast' /\ OneSuccessor' /\ NoCycle' /\ PastIsCompleted'
  <1> DEFINE r == tasks[t].recurrence
  <1>e. /\ t \in DOMAIN tasks /\ n \notin DOMAIN tasks
        /\ r \in DOMAIN recurrences /\ recurrences[r] = t
        /\ DOMAIN tasks' = DOMAIN tasks \cup {n}
        /\ NewOccurrence(t, n) /\ MovesTo(r, n)
        /\ SameChain(DOMAIN tasks) /\ SameStatus(DOMAIN tasks \ {t})
    BY CompleteCurrentEffect
  <1>1. /\ t \in DOMAIN tasks /\ n \notin DOMAIN tasks
        /\ r \in DOMAIN recurrences /\ recurrences[r] = t
        /\ DOMAIN tasks' = DOMAIN tasks \cup {n}
        /\ tasks'[n].previous = t /\ tasks'[n].recurrence = r
        /\ tasks'[t].completed
        /\ DOMAIN recurrences' = DOMAIN recurrences
        /\ recurrences'[r] = n
        /\ \A q \in DOMAIN recurrences \ {r} : recurrences'[q] = recurrences[q]
    BY <1>e DEF NewOccurrence, MovesTo
  <1> USE DEF ChainInv
  <1>2. \A s \in DOMAIN tasks : /\ tasks'[s].previous = tasks[s].previous
                                /\ tasks'[s].recurrence = tasks[s].recurrence
                                /\ s # t => tasks'[s].completed = tasks[s].completed
    BY <1>e DEF SameChain, SameStatus
  <1> HIDE DEF r
  <1>3. NULL \notin DOMAIN tasks' /\ NULL \notin DOMAIN recurrences
    BY NullAssumption DEF TypeOK, IsTaskTable, IsRecurrenceTable
  <1>4. \A s \in DOMAIN tasks : tasks[s].previous # t /\ tasks[s].previous # n
    BY <1>1, <1>3 DEF CurrentIsLast, References
  <1>5. CurrentIsLast'
    <2>1. \A q \in DOMAIN recurrences \ {r} : recurrences[q] # t
      BY <1>1 DEF CurrentIsLast
    <2> QED BY <1>1, <1>2, <1>3, <1>4, <2>1 DEF CurrentIsLast, References
  <1>6. \A s \in DOMAIN tasks : tasks[s].recurrence # NULL =>
            (Current(s))' = IF tasks[s].recurrence = r THEN n ELSE Current(s)
    BY <1>1, <1>2 DEF Current, CurrentOf, References
  <1>7. OneSuccessor'
    <2> SUFFICES ASSUME NEW s \in DOMAIN tasks'
                 PROVE  /\ tasks'[s].previous # NULL =>
                              /\ tasks'[s].recurrence # NULL
                              /\ tasks'[tasks'[s].previous].recurrence = tasks'[s].recurrence
                        /\ \A x \in DOMAIN tasks' :
                              tasks'[x].previous = tasks'[s].previous /\ x # s
                              => tasks'[x].previous = NULL
                        /\ tasks'[s].recurrence # NULL /\ (Current(s))' # s =>
                              \E x \in DOMAIN tasks' : tasks'[x].previous = s
      BY DEF OneSuccessor
    <2>1. CASE s = n
      BY <1>1, <1>2, <1>3, <1>4, <2>1 DEF Current, CurrentOf, r
    <2>2. CASE s # n
      <3>1. s \in DOMAIN tasks
        BY <1>1, <2>2
      <3>2. tasks[s].previous # NULL =>
               /\ tasks[s].recurrence # NULL
               /\ tasks[s].previous \in DOMAIN tasks
               /\ tasks'[tasks[s].previous].recurrence = tasks[s].recurrence
        BY <1>2, <3>1 DEF OneSuccessor, References
      <3>3. \A x \in DOMAIN tasks' :
               tasks'[x].previous = tasks[s].previous /\ x # s => tasks'[x].previous = NULL
        BY <1>1, <1>2, <1>4, <3>1 DEF OneSuccessor
      <3>4. tasks[s].recurrence # NULL /\ (Current(s))' # s =>
               \E x \in DOMAIN tasks' : tasks'[x].previous = s
        <4>1. CASE s = t
          BY <1>1, <4>1
        <4>2. CASE s # t
          <5> SUFFICES ASSUME tasks[s].recurrence # NULL, (Current(s))' # s
                       PROVE  \E x \in DOMAIN tasks : tasks[x].previous = s
            BY <1>1, <1>2
          <5>1. CASE tasks[s].recurrence = r
            BY <1>1, <3>1, <4>2, <5>1 DEF OneSuccessor, Current, CurrentOf
          <5>2. CASE tasks[s].recurrence # r
            BY <1>6, <3>1, <5>2 DEF OneSuccessor
          <5> QED BY <5>1, <5>2
        <4> QED BY <4>1, <4>2
      <3> QED BY <1>2, <3>1, <3>2, <3>3, <3>4
    <2> QED BY <2>1, <2>2
  <1>8. NoCycle'
    <2> SUFFICES ASSUME NEW S \in SUBSET DOMAIN tasks', S # {}
                 PROVE  \E s \in S : tasks'[s].previous \notin S
      BY DEF NoCycle
    <2>1. CASE S \subseteq {n}
      BY <1>1, <2>1
    <2>2. CASE ~(S \subseteq {n})
      <3>1. PICK s \in S \ {n} : tasks[s].previous \notin S \ {n}
        BY <1>1, <2>2 DEF NoCycle
      <3> QED BY <1>1, <1>2, <1>4, <3>1
    <2> QED BY <2>1, <2>2
  <1>9. PastIsCompleted'
    <2> SUFFICES ASSUME NEW s \in DOMAIN tasks', tasks'[s].recurrence # NULL, (Current(s))' # s
                 PROVE  tasks'[s].completed
      BY DEF PastIsCompleted, IsPast
    <2>1. s # n
      BY <1>1, <1>3 DEF Current, CurrentOf
    <2>2. CASE s = t
      BY <1>1, <2>2
    <2>3. CASE s # t
      <3>1. Current(s) # s
        BY <1>1, <1>2, <1>6, <2>1, <2>3 DEF Current, CurrentOf
      <3> QED BY <1>1, <1>2, <2>1, <2>3, <3>1 DEF PastIsCompleted, IsPast
    <2> QED BY <2>2, <2>3
  <1> QED BY <1>5, <1>7, <1>8, <1>9

(* The previous task t is reopened and the current task c deleted.         *)
LEMMA ReopenKeepsChains ==
    ASSUME ChainInv, TypeOK', NEW u, NEW t \in TaskIds, ReopenPrevious(u, t)
    PROVE  CurrentIsLast' /\ OneSuccessor' /\ NoCycle' /\ PastIsCompleted'
  <1> DEFINE r == tasks[t].recurrence
             c == Current(t)
  <1>e. /\ t \in DOMAIN tasks /\ c \in DOMAIN tasks /\ c # t
        /\ r \in DOMAIN recurrences /\ c = recurrences[r]
        /\ tasks[c].previous = t
        /\ DOMAIN tasks' = DOMAIN tasks \ {c}
        /\ recurrences' = [recurrences EXCEPT ![r] = t]
        /\ SameChain(DOMAIN tasks') /\ SameStatus(DOMAIN tasks' \ {t})
    BY ReopenPreviousEffect
  <1> USE DEF ChainInv
  <1>1. /\ t \in DOMAIN tasks /\ c \in DOMAIN tasks /\ c # t
        /\ r \in DOMAIN recurrences /\ recurrences[r] = c
        /\ tasks[c].previous = t
        /\ DOMAIN tasks' = DOMAIN tasks \ {c}
        /\ DOMAIN recurrences' = DOMAIN recurrences
        /\ recurrences'[r] = t
        /\ \A q \in DOMAIN recurrences \ {r} : recurrences'[q] = recurrences[q]
    BY <1>e DEF TypeOK, IsRecurrenceTable
  <1>2. \A s \in DOMAIN tasks' : /\ tasks'[s].previous = tasks[s].previous
                                 /\ tasks'[s].recurrence = tasks[s].recurrence
                                 /\ s # t => tasks'[s].completed = tasks[s].completed
    BY <1>e DEF SameChain, SameStatus
  <1> HIDE DEF r, c
  <1>3. NULL \notin DOMAIN tasks /\ NULL \notin DOMAIN recurrences
    BY NullAssumption DEF TypeOK, IsTaskTable, IsRecurrenceTable
  <1>4. \A s \in DOMAIN tasks : tasks[s].previous # c
    BY <1>1 DEF CurrentIsLast
  <1>5. \A s \in DOMAIN tasks' : tasks[s].previous # t
    BY <1>1, <1>3 DEF OneSuccessor
  <1>6. CurrentIsLast'
    <2>1. \A q \in DOMAIN recurrences \ {r} : recurrences[q] \in DOMAIN tasks'
      BY <1>1 DEF CurrentIsLast, References
    <2>2. tasks'[t].recurrence = r
      BY <1>1, <1>2 DEF r
    <2> QED BY <1>1, <1>2, <1>5, <2>1, <2>2 DEF CurrentIsLast
  <1>7. \A s \in DOMAIN tasks' : tasks[s].recurrence # NULL =>
            (Current(s))' = IF tasks[s].recurrence = r THEN t ELSE Current(s)
    BY <1>1, <1>2 DEF Current, CurrentOf, References
  <1>8. \A s \in DOMAIN tasks' : tasks[s].recurrence = r => Current(s) = c
    BY <1>1, <1>3 DEF Current, CurrentOf
  <1>9. OneSuccessor'
    <2> SUFFICES ASSUME NEW s \in DOMAIN tasks'
                 PROVE  /\ tasks'[s].previous # NULL =>
                              /\ tasks'[s].recurrence # NULL
                              /\ tasks'[tasks'[s].previous].recurrence = tasks'[s].recurrence
                        /\ \A x \in DOMAIN tasks' :
                              tasks'[x].previous = tasks'[s].previous /\ x # s
                              => tasks'[x].previous = NULL
                        /\ tasks'[s].recurrence # NULL /\ (Current(s))' # s =>
                              \E x \in DOMAIN tasks' : tasks'[x].previous = s
      BY DEF OneSuccessor
    <2>1. tasks[s].previous # NULL =>
             /\ tasks[s].recurrence # NULL
             /\ tasks[s].previous \in DOMAIN tasks'
             /\ tasks'[tasks[s].previous].recurrence = tasks[s].recurrence
      BY <1>1, <1>2, <1>4 DEF OneSuccessor, References
    <2>2. \A x \in DOMAIN tasks' :
             tasks'[x].previous = tasks[s].previous /\ x # s => tasks'[x].previous = NULL
      BY <1>1, <1>2 DEF OneSuccessor
    <2>3. tasks[s].recurrence # NULL /\ (Current(s))' # s =>
             \E x \in DOMAIN tasks' : tasks'[x].previous = s
      <3> SUFFICES ASSUME tasks[s].recurrence # NULL, (Current(s))' # s
                   PROVE  \E x \in DOMAIN tasks' : tasks'[x].previous = s
        OBVIOUS
      <3>1. Current(s) # s /\ s # t
        BY <1>1, <1>7, <1>8 DEF r
      <3>2. PICK x \in DOMAIN tasks : tasks[x].previous = s
        BY <1>1, <3>1 DEF OneSuccessor
      <3> QED BY <1>1, <1>2, <3>1, <3>2
    <2> QED BY <1>2, <2>1, <2>2, <2>3
  <1>10. NoCycle'
    BY <1>1, <1>2, CutKeepsNoCycle
  <1>11. PastIsCompleted'
    <2> SUFFICES ASSUME NEW s \in DOMAIN tasks', tasks'[s].recurrence # NULL, (Current(s))' # s
                 PROVE  tasks'[s].completed
      BY DEF PastIsCompleted, IsPast
    <2>1. Current(s) # s /\ s # t
      BY <1>1, <1>2, <1>7, <1>8 DEF r
    <2> QED BY <1>1, <1>2, <2>1 DEF PastIsCompleted, IsPast
  <1> QED BY <1>6, <1>9, <1>10, <1>11

-----------------------------------------------------------------------------
(* References, by the columns they are in.                                 *)

GroupRefs ==
    /\ members \subseteq Users \X groups
    /\ \A t \in DOMAIN tasks : tasks[t].group \in groups \cup {NULL}

TaskRefs ==
    /\ \A t \in DOMAIN tasks :
          /\ tasks[t].previous \in DOMAIN tasks \cup {NULL}
          /\ tasks[t].recurrence \in DOMAIN recurrences \cup {NULL}
    /\ \A r \in DOMAIN recurrences : recurrences[r] \in DOMAIN tasks

LEMMA ReferencesSplit == References <=> GroupRefs /\ TaskRefs
  BY DEF References, GroupRefs, TaskRefs

(* A step that moves no membership and writes at most the group g, which a *)
(* member of it was checked to be in, keeps the group columns valid.       *)
LEMMA AssignKeepsGroupRefs ==
    ASSUME GroupRefs, NEW u, NEW t, NEW v, NEW g, NEW S,
           DOMAIN tasks' \subseteq S \cup {t}, S \subseteq DOMAIN tasks,
           SameOwner(S), Assigns(t, v, g), ValidAssignment(members, u, v, g),
           UNCHANGED <<groups, members>>
    PROVE  GroupRefs'
  BY DEF GroupRefs, SameOwner, Assigns, ValidAssignment

LEMMA KeepGroupRefs ==
    ASSUME GroupRefs, DOMAIN tasks' \subseteq DOMAIN tasks, SameOwner(DOMAIN tasks'),
           UNCHANGED <<groups, members>>
    PROVE  GroupRefs'
  BY DEF GroupRefs, SameOwner

LEMMA StepGroupRefs ==
    ASSUME ChainInv, NEW u \in Users, GroupStep(u) \/ WriteStep(u) \/ ToggleStep(u)
    PROVE  GroupRefs'
  <1>1. GroupRefs
    BY ReferencesSplit DEF ChainInv
  <1>2. ASSUME NEW g \in GroupIds, CreateGroup(u, g) PROVE GroupRefs'
    BY <1>1, <1>2 DEF GroupRefs, CreateGroup
  <1>3. ASSUME NEW g \in GroupIds, JoinGroup(u, g) PROVE GroupRefs'
    BY <1>1, <1>3 DEF GroupRefs, JoinGroup
  <1>4. ASSUME NEW g \in GroupIds, LeaveGroup(u, g) PROVE GroupRefs'
    <2>1. /\ members' = members \ {<<u, g>>}
          /\ groups' = IF IsEmptyGroup(members', g) THEN groups \ {g} ELSE groups
          /\ DOMAIN tasks' = DOMAIN tasks
          /\ \A s \in DOMAIN tasks :
                tasks'[s].group =
                   IF tasks[s].group = g
                      /\ (tasks[s].responsible = u \/ IsEmptyGroup(members', g))
                   THEN NULL ELSE tasks[s].group
      BY <1>4, LeaveGroupEffect DEF ChainInv
    <2>2. CASE IsEmptyGroup(members', g)
      BY <1>1, <2>1, <2>2 DEF GroupRefs, IsEmptyGroup
    <2>3. CASE ~IsEmptyGroup(members', g)
      BY <1>1, <2>1, <2>3 DEF GroupRefs
    <2> QED BY <2>2, <2>3
  <1>5. ASSUME NEW t \in TaskIds, NEW v \in Users, NEW g \in GroupIds \cup {NULL},
               NEW r \in RecIds \cup {NULL}, CreateTask(u, t, v, g, r)
        PROVE  GroupRefs'
    <2>1. /\ DOMAIN tasks' = DOMAIN tasks \cup {t}
          /\ SameOwner(DOMAIN tasks) /\ Assigns(t, v, g)
          /\ ValidAssignment(members, u, v, g)
          /\ UNCHANGED <<groups, members>>
      BY <1>5, CreateTaskEffect DEF ChainInv
    <2> QED BY <1>1, <2>1, AssignKeepsGroupRefs
  <1>6. ASSUME NEW t \in TaskIds, NEW v \in Users, NEW g \in GroupIds \cup {NULL},
               NEW r \in RecIds \cup {NULL}, UpdateTask(u, t, v, g, r)
        PROVE  GroupRefs'
    <2>1. /\ DOMAIN tasks' = DOMAIN tasks
          /\ SameOwner(DOMAIN tasks \ {t}) /\ Assigns(t, v, g)
          /\ ValidAssignment(members, u, v, g)
          /\ UNCHANGED <<groups, members>>
      BY <1>6, UpdateTaskEffect
    <2> QED BY <1>1, <2>1, AssignKeepsGroupRefs
  <1>7. ASSUME NEW t \in TaskIds, DeleteTask(u, t) PROVE GroupRefs'
    <2>1. /\ DOMAIN tasks' = DOMAIN tasks \ {t}
          /\ SameOwner(DOMAIN tasks')
          /\ UNCHANGED <<groups, members>>
      BY <1>7, DeleteTaskEffect
    <2> QED BY <1>1, <2>1, KeepGroupRefs
  <1>8. ASSUME NEW t \in TaskIds, TogglePlain(u, t) PROVE GroupRefs'
    <2>1. /\ DOMAIN tasks' = DOMAIN tasks
          /\ SameOwner(DOMAIN tasks)
          /\ UNCHANGED <<groups, members>>
      BY <1>8, TogglePlainEffect
    <2> QED BY <1>1, <2>1, KeepGroupRefs
  <1>9. ASSUME NEW t \in TaskIds, NEW n \in TaskIds, CompleteCurrent(u, t, n)
        PROVE  GroupRefs'
    <2>1. /\ t \in DOMAIN tasks
          /\ DOMAIN tasks' = DOMAIN tasks \cup {n}
          /\ SameOwner(DOMAIN tasks) /\ NewOccurrence(t, n)
          /\ UNCHANGED <<groups, members>>
      BY <1>9, CompleteCurrentEffect
    <2> QED BY <1>1, <2>1 DEF GroupRefs, SameOwner, NewOccurrence
  <1>10. ASSUME NEW t \in TaskIds, ReopenPrevious(u, t) PROVE GroupRefs'
    <2>1. /\ DOMAIN tasks' \subseteq DOMAIN tasks
          /\ SameOwner(DOMAIN tasks')
          /\ UNCHANGED <<groups, members>>
      BY <1>10, ReopenPreviousEffect
    <2> QED BY <1>1, <2>1, KeepGroupRefs
  <1> QED BY <1>2, <1>3, <1>4, <1>5, <1>6, <1>7, <1>8, <1>9, <1>10
          DEF GroupStep, WriteStep, ToggleStep

-----------------------------------------------------------------------------
(* The rest of the chain invariant, action by action.                      *)

ChainPart == TaskRefs /\ CurrentIsLast /\ OneSuccessor /\ NoCycle /\ PastIsCompleted

LEMMA LeaveChainsAlone ==
    ASSUME ChainInv, DOMAIN tasks' = DOMAIN tasks, SameChain(DOMAIN tasks),
           recurrences' = recurrences,
           \A s \in DOMAIN tasks :
              tasks[s].recurrence # NULL => tasks'[s].completed = tasks[s].completed
    PROVE  ChainPart'
  <1>1. TaskRefs'
    BY DEF ChainInv, References, TaskRefs, SameChain
  <1> QED BY <1>1, SameChainKeeps DEF ChainPart

LEMMA GroupStepChain ==
    ASSUME ChainInv, NEW u \in Users, GroupStep(u)
    PROVE  ChainPart'
  <1>1. ASSUME NEW g \in GroupIds, CreateGroup(u, g) \/ JoinGroup(u, g) PROVE ChainPart'
    <2>1. tasks' = tasks /\ recurrences' = recurrences
      BY <1>1 DEF CreateGroup, JoinGroup
    <2> QED BY <2>1, LeaveChainsAlone DEF SameChain
  <1>2. ASSUME NEW g \in GroupIds, LeaveGroup(u, g) PROVE ChainPart'
    <2>1. /\ DOMAIN tasks' = DOMAIN tasks
          /\ SameChain(DOMAIN tasks) /\ SameStatus(DOMAIN tasks)
          /\ recurrences' = recurrences
      BY <1>2, LeaveGroupEffect DEF ChainInv
    <2> QED BY <2>1, LeaveChainsAlone DEF SameStatus
  <1> QED BY <1>1, <1>2 DEF GroupStep

LEMMA CreateTaskChain ==
    ASSUME ChainInv, TypeOK', GroupRefs', NEW u, NEW t \in TaskIds, NEW v \in Users,
           NEW g \in GroupIds \cup {NULL}, NEW r \in RecIds \cup {NULL},
           CreateTask(u, t, v, g, r)
    PROVE  ChainPart'
  <1>1. /\ t \notin DOMAIN tasks
        /\ DOMAIN tasks' = DOMAIN tasks \cup {t}
        /\ SameChain(DOMAIN tasks) /\ SameStatus(DOMAIN tasks)
        /\ \/ Alone(t) /\ recurrences' = recurrences
           \/ r # NULL /\ Starts(t, r)
    BY CreateTaskEffect DEF ChainInv
  <1>2. CASE Alone(t) /\ recurrences' = recurrences
    <2>1. TaskRefs'
      BY <1>1, <1>2 DEF ChainInv, References, TaskRefs, SameChain, Alone
    <2>2. tasks'[t].previous = NULL /\ tasks'[t].recurrence = NULL
      BY <1>2 DEF Alone
    <2> QED BY <1>1, <1>2, <2>1, <2>2, LoneTaskKeepsChains DEF ChainPart
  <1>3. CASE r # NULL /\ Starts(t, r)
    <2>1. /\ tasks'[t].previous = NULL /\ tasks'[t].recurrence = r
          /\ r \in RecIds /\ r \notin DOMAIN recurrences
          /\ recurrences' = Put(recurrences, r, t)
      BY <1>3 DEF Starts
    <2>2. TaskRefs'
      BY <1>1, <2>1 DEF ChainInv, References, TaskRefs, SameChain, Put
    <2>3. References'
      BY <2>2 DEF References, GroupRefs, TaskRefs
    <2>4. SameChain(DOMAIN tasks \ {t}) /\ SameStatus(DOMAIN tasks \ {t})
      BY <1>1 DEF SameChain, SameStatus
    <2> QED BY <1>1, <2>1, <2>2, <2>3, <2>4, StartKeepsChains DEF ChainPart
  <1> QED BY <1>1, <1>2, <1>3

LEMMA UpdateTaskChain ==
    ASSUME ChainInv, TypeOK', GroupRefs', NEW u, NEW t \in TaskIds, NEW v \in Users,
           NEW g \in GroupIds \cup {NULL}, NEW r \in RecIds \cup {NULL},
           UpdateTask(u, t, v, g, r)
    PROVE  ChainPart'
  <1>1. /\ t \in DOMAIN tasks
        /\ DOMAIN tasks' = DOMAIN tasks
        /\ SameStatus(DOMAIN tasks)
        /\ \/ SameChain(DOMAIN tasks) /\ recurrences' = recurrences
           \/ tasks[t].recurrence # NULL /\ Dissolves(tasks[t].recurrence)
           \/ /\ tasks[t].recurrence = NULL /\ r # NULL
              /\ SameChain(DOMAIN tasks \ {t}) /\ Starts(t, r)
    BY UpdateTaskEffect
  <1>2. CASE SameChain(DOMAIN tasks) /\ recurrences' = recurrences
    BY <1>1, <1>2, LeaveChainsAlone DEF SameStatus
  <1>3. CASE tasks[t].recurrence # NULL /\ Dissolves(tasks[t].recurrence)
    <2>1. TaskRefs'
      BY <1>1, <1>3 DEF ChainInv, References, TaskRefs, Dissolves, DropRecurrence, Restrict
    <2>2. SameStatus(DOMAIN tasks')
      BY <1>1
    <2> QED BY <1>1, <1>3, <2>1, <2>2, DissolveKeepsChains DEF ChainPart
  <1>4. CASE /\ tasks[t].recurrence = NULL /\ r # NULL
             /\ SameChain(DOMAIN tasks \ {t}) /\ Starts(t, r)
    <2>1. /\ tasks'[t].previous = NULL /\ tasks'[t].recurrence = r
          /\ r \in RecIds /\ r \notin DOMAIN recurrences
          /\ recurrences' = Put(recurrences, r, t)
      BY <1>4 DEF Starts
    <2>2. TaskRefs'
      BY <1>1, <1>4, <2>1 DEF ChainInv, References, TaskRefs, SameChain, Put
    <2>3. References'
      BY <2>2 DEF References, GroupRefs, TaskRefs
    <2>4. SameStatus(DOMAIN tasks \ {t})
      BY <1>1 DEF SameStatus
    <2> QED BY <1>1, <1>4, <2>1, <2>2, <2>3, <2>4, StartKeepsChains DEF ChainPart
  <1> QED BY <1>1, <1>2, <1>3, <1>4

LEMMA DeleteTaskChain ==
    ASSUME ChainInv, TypeOK', NEW u, NEW t \in TaskIds, DeleteTask(u, t)
    PROVE  ChainPart'
  <1>1. /\ t \in DOMAIN tasks
        /\ MayDelete(u, t)
        /\ DOMAIN tasks' = DOMAIN tasks \ {t}
        /\ SameStatus(DOMAIN tasks')
        /\ \/ /\ tasks[t].recurrence = NULL
              /\ \A s \in DOMAIN tasks' : tasks[s].previous # t
              /\ SameChain(DOMAIN tasks')
              /\ recurrences' = recurrences
           \/ tasks[t].recurrence # NULL /\ Dissolves(tasks[t].recurrence)
    BY DeleteTaskEffect
  <1>2. CASE /\ tasks[t].recurrence = NULL
             /\ \A s \in DOMAIN tasks' : tasks[s].previous # t
             /\ SameChain(DOMAIN tasks')
             /\ recurrences' = recurrences
    <2>1. \A r \in DOMAIN recurrences : recurrences[r] # t
      BY <1>2, NullAssumption DEF ChainInv, CurrentIsLast, TypeOK, IsRecurrenceTable
    <2>2. TaskRefs'
      BY <1>1, <1>2, <2>1 DEF ChainInv, References, TaskRefs, SameChain
    <2> QED BY <1>1, <1>2, <2>2, DeleteLoneKeepsChains DEF ChainPart
  <1>3. CASE tasks[t].recurrence # NULL /\ Dissolves(tasks[t].recurrence)
    <2> DEFINE r == tasks[t].recurrence
    <2>1. r \in DOMAIN recurrences /\ recurrences[r] = t
      BY <1>1, <1>3, NullAssumption
         DEF ChainInv, References, TypeOK, IsTaskTable, MayDelete, CanDelete, CanUpdate, CurrentOf
    <2>2. \A q \in DOMAIN recurrences \ {r} : recurrences[q] # t
      BY DEF ChainInv, CurrentIsLast
    <2>3. /\ DOMAIN recurrences' = DOMAIN recurrences \ {r}
          /\ \A q \in DOMAIN recurrences \ {r} : recurrences'[q] = recurrences[q]
      BY <1>3 DEF Dissolves, DropRecurrence, Restrict
    <2>4. \A s \in DOMAIN tasks' : tasks[s].previous = t => FALSE
      BY <1>1, <2>1 DEF ChainInv, CurrentIsLast
    <2>5. \A s \in DOMAIN tasks' :
             IF tasks[s].recurrence = r
             THEN tasks'[s].previous = NULL /\ tasks'[s].recurrence = NULL
             ELSE /\ tasks'[s].previous = tasks[s].previous
                  /\ tasks'[s].recurrence = tasks[s].recurrence
      BY <1>3 DEF Dissolves
    <2>6. TaskRefs'
      BY <1>1, <2>2, <2>3, <2>4, <2>5 DEF ChainInv, References, TaskRefs
    <2> QED BY <1>1, <1>3, <2>6, DissolveKeepsChains DEF ChainPart
  <1> QED BY <1>1, <1>2, <1>3

LEMMA ToggleStepChain ==
    ASSUME ChainInv, TypeOK', NEW u, ToggleStep(u)
    PROVE  ChainPart'
  <1>1. ASSUME NEW t \in TaskIds, TogglePlain(u, t) PROVE ChainPart'
    <2>1. /\ tasks[t].recurrence = NULL
          /\ DOMAIN tasks' = DOMAIN tasks
          /\ SameChain(DOMAIN tasks) /\ SameStatus(DOMAIN tasks \ {t})
          /\ recurrences' = recurrences
      BY <1>1, TogglePlainEffect
    <2> QED BY <2>1, LeaveChainsAlone DEF SameStatus
  <1>2. ASSUME NEW t \in TaskIds, NEW n \in TaskIds, CompleteCurrent(u, t, n)
        PROVE  ChainPart'
    <2>1. /\ t \in DOMAIN tasks
          /\ tasks[t].recurrence \in DOMAIN recurrences
          /\ DOMAIN tasks' = DOMAIN tasks \cup {n}
          /\ SameChain(DOMAIN tasks)
          /\ NewOccurrence(t, n) /\ MovesTo(tasks[t].recurrence, n)
      BY <1>2, CompleteCurrentEffect
    <2>2. TaskRefs'
      BY <2>1 DEF ChainInv, References, TaskRefs, SameChain, NewOccurrence, MovesTo
    <2> QED BY <1>2, <2>2, CompleteKeepsChains DEF ChainPart
  <1>3. ASSUME NEW t \in TaskIds, ReopenPrevious(u, t) PROVE ChainPart'
    <2>1. /\ t \in DOMAIN tasks
          /\ tasks[t].recurrence \in DOMAIN recurrences
          /\ Current(t) = recurrences[tasks[t].recurrence]
          /\ Current(t) # t
          /\ DOMAIN tasks' = DOMAIN tasks \ {Current(t)}
          /\ SameChain(DOMAIN tasks')
          /\ recurrences' = [recurrences EXCEPT ![tasks[t].recurrence] = t]
      BY <1>3, ReopenPreviousEffect
    <2>2. \A q \in DOMAIN recurrences : q = tasks[t].recurrence \/ recurrences[q] # Current(t)
      BY <2>1 DEF ChainInv, CurrentIsLast
    <2>3. \A s \in DOMAIN tasks : tasks[s].previous # Current(t)
      BY <2>1 DEF ChainInv, CurrentIsLast
    <2>4. /\ DOMAIN recurrences' = DOMAIN recurrences
          /\ \A q \in DOMAIN recurrences :
                recurrences'[q] = IF q = tasks[t].recurrence THEN t ELSE recurrences[q]
      BY <2>1 DEF ChainInv, TypeOK, IsRecurrenceTable
    <2>5. TaskRefs'
      BY <2>1, <2>2, <2>3, <2>4 DEF ChainInv, References, TaskRefs, SameChain
    <2> QED BY <1>3, <2>5, ReopenKeepsChains DEF ChainPart
  <1> QED BY <1>1, <1>2, <1>3 DEF ToggleStep

-----------------------------------------------------------------------------
(* The inductive invariant and what follows from it.                       *)

LEMMA InitChainInv == Init => ChainInv
  BY DEF Init, ChainInv, TypeOK, IsTaskTable, IsRecurrenceTable, References,
         CurrentIsLast, OneSuccessor, NoCycle, PastIsCompleted

LEMMA NextChainInv == ChainInv /\ [Next]_vars => ChainInv'
  <1> SUFFICES ASSUME ChainInv, [Next]_vars PROVE ChainInv'
    OBVIOUS
  <1>1. CASE UNCHANGED vars
    BY <1>1 DEF vars, ChainInv, TypeOK, References, CurrentIsLast, OneSuccessor,
                NoCycle, PastIsCompleted, IsPast, Current
  <1>2. ASSUME NEW u \in Users, GroupStep(u) \/ WriteStep(u) \/ ToggleStep(u)
        PROVE  ChainInv'
    <2>1. TypeOK'
      BY NextTypeOK DEF ChainInv
    <2>2. GroupRefs'
      BY <1>2, StepGroupRefs
    <2>3. ChainPart'
      <3>1. CASE GroupStep(u)
        BY <3>1, GroupStepChain
      <3>2. CASE WriteStep(u)
        BY <2>1, <2>2, <3>2, CreateTaskChain, UpdateTaskChain, DeleteTaskChain DEF WriteStep
      <3>3. CASE ToggleStep(u)
        BY <2>1, <3>3, ToggleStepChain
      <3> QED BY <1>2, <3>1, <3>2, <3>3
    <2>4. References'
      BY <2>2, <2>3 DEF ChainPart, GroupRefs, TaskRefs, References
    <2> QED BY <2>1, <2>3, <2>4 DEF ChainInv, ChainPart
  <1> QED BY <1>1, <1>2 DEF Next

(* Every column that refers to a row of another table refers to a live one, *)
(* in every reachable state: create_next, revert, unset, delete and leave  *)
(* never leave a reference behind.                                         *)
THEOREM ReferencesAreLive == Spec => []References
  <1>1. ChainInv => References
    BY DEF ChainInv
  <1> QED BY <1>1, InitChainInv, NextChainInv, PTL DEF Spec

(* Whatever sequence of transactions ran, the tasks of a recurrence form   *)
(* one chain of previous_task_id that ends in its current task.            *)
THEOREM RecurrencesAreChains == Spec => []RecurrenceIsChain
  <1>1. ChainInv => RecurrenceIsChain
    BY DEF ChainInv, RecurrenceIsChain
  <1> QED BY <1>1, InitChainInv, NextChainInv, PTL DEF Spec

(* All the occurrences of a recurrence before the current one are          *)
(* completed: no task is open that can no longer be toggled.               *)
THEOREM PastOccurrencesCompleted == Spec => []PastIsCompleted
  <1>1. ChainInv => PastIsCompleted
    BY DEF ChainInv
  <1> QED BY <1>1, InitChainInv, NextChainInv, PTL DEF Spec

-----------------------------------------------------------------------------
(* Consequences of the invariant in a single state.                        *)

LEMMA DeletableLemma == ChainInv => DeletableIsUnreferenced
  <1> SUFFICES ASSUME ChainInv, NEW u \in Users, NEW t \in DOMAIN tasks, MayDelete(u, t)
               PROVE  ~IsPrevious(IF tasks[t].recurrence = NULL THEN tasks
                                  ELSE UnsetRecurrence(tasks, tasks[t].recurrence), t)
    BY DEF DeletableIsUnreferenced
  <1>1. t # NULL /\ IsTaskTable(tasks)
    BY NullAssumption DEF ChainInv, TypeOK, IsTaskTable
  <1>2. CASE tasks[t].recurrence = NULL
    <2>1. \A s \in DOMAIN tasks : tasks[s].previous # t
      BY <1>1, <1>2 DEF ChainInv, OneSuccessor
    <2> QED BY <1>2, <2>1 DEF IsPrevious
  <1>3. CASE tasks[t].recurrence # NULL
    <2> DEFINE rows == UnsetRecurrence(tasks, tasks[t].recurrence)
    <2>1. \A s \in DOMAIN tasks : tasks[s].previous # t
      <3>1. /\ tasks[t].recurrence \in DOMAIN recurrences
            /\ recurrences[tasks[t].recurrence] \in {NULL, t}
        BY <1>3 DEF ChainInv, References, MayDelete, CanDelete, CanUpdate, CurrentOf
      <3>2. recurrences[tasks[t].recurrence] = t
        BY <3>1, NullAssumption DEF ChainInv, TypeOK, IsRecurrenceTable
      <3> QED BY <3>1, <3>2 DEF ChainInv, CurrentIsLast
    <2>2. /\ DOMAIN rows = DOMAIN tasks
          /\ \A s \in DOMAIN tasks : rows[s].previous \in {NULL, tasks[s].previous}
      BY <1>1, UnsetRecurrenceEffect, UnsetRecurrenceType
    <2> HIDE DEF rows
    <2>3. ~IsPrevious(rows, t)
      BY <1>1, <2>1, <2>2 DEF IsPrevious
    <2> QED BY <1>3, <2>3 DEF rows
  <1> QED BY <1>2, <1>3

LEMMA OpenLemma == ChainInv => OpenCanBeCompleted
  <1> SUFFICES ASSUME ChainInv, NEW t \in DOMAIN tasks, ~tasks[t].completed
               PROVE  \E u \in Users : MayToggle(u, t) /\ (PlainArm(t) \/ CompleteArm(t))
    BY DEF OpenCanBeCompleted
  <1>1. /\ tasks[t].responsible \in Users
        /\ ~IsFriendTask(tasks, members, tasks[t].responsible, t)
    BY DEF ChainInv, TypeOK, IsTaskTable, Task, IsFriendTask, Permitted
  <1>2. CASE tasks[t].recurrence = NULL
    <2>1. Current(t) = NULL /\ Previous(t) = NULL
      BY <1>2 DEF Current, CurrentOf, Previous, PreviousOf
    <2> QED BY <1>1, <2>1 DEF MayToggle, CanToggle, PlainArm, Previous
  <1>3. CASE tasks[t].recurrence # NULL
    <2>1. Current(t) = t
      BY <1>3 DEF ChainInv, PastIsCompleted, IsPast
    <2> QED BY <1>1, <2>1 DEF MayToggle, CanToggle, CompleteArm, Current
  <1> QED BY <1>2, <1>3

(* Whenever can_delete allows a viewer to delete a task, the delete does   *)
(* not fail on the RESTRICT of previous_task_id.                           *)
THEOREM DeletableTasksUnreferenced == Spec => []DeletableIsUnreferenced
  BY InitChainInv, NextChainInv, DeletableLemma, PTL DEF Spec

(* Every open task can be completed by somebody, in every reachable state. *)
THEOREM OpenTasksCompletable == Spec => []OpenCanBeCompleted
  BY InitChainInv, NextChainInv, OpenLemma, PTL DEF Spec

-----------------------------------------------------------------------------
(* Groups.                                                                 *)

GroupInv == ChainInv /\ ResponsibleInGroup /\ GroupsInhabited

LEMMA AssignKeepsResponsible ==
    ASSUME ResponsibleInGroup, NEW u, NEW t, NEW v, NEW g, NEW S,
           DOMAIN tasks' \subseteq S \cup {t}, S \subseteq DOMAIN tasks,
           SameOwner(S), Assigns(t, v, g), ValidAssignment(members, u, v, g),
           members' = members
    PROVE  ResponsibleInGroup'
  BY DEF ResponsibleInGroup, SameOwner, Assigns, ValidAssignment

LEMMA KeepResponsible ==
    ASSUME ResponsibleInGroup, DOMAIN tasks' \subseteq DOMAIN tasks,
           SameOwner(DOMAIN tasks'), members' = members
    PROVE  ResponsibleInGroup'
  BY DEF ResponsibleInGroup, SameOwner

LEMMA GroupStepKeeps ==
    ASSUME GroupInv, NEW u \in Users, GroupStep(u)
    PROVE  ResponsibleInGroup' /\ GroupsInhabited'
  <1> USE DEF GroupInv
  <1>1. ASSUME NEW g \in GroupIds, CreateGroup(u, g)
        PROVE  ResponsibleInGroup' /\ GroupsInhabited'
    BY <1>1 DEF CreateGroup, ResponsibleInGroup, GroupsInhabited, IsEmptyGroup
  <1>2. ASSUME NEW g \in GroupIds, JoinGroup(u, g)
        PROVE  ResponsibleInGroup' /\ GroupsInhabited'
    BY <1>2 DEF JoinGroup, ResponsibleInGroup, GroupsInhabited, IsEmptyGroup
  <1>3. ASSUME NEW g \in GroupIds, LeaveGroup(u, g)
        PROVE  ResponsibleInGroup' /\ GroupsInhabited'
    <2>1. /\ members' = members \ {<<u, g>>}
          /\ groups' = IF IsEmptyGroup(members', g) THEN groups \ {g} ELSE groups
          /\ DOMAIN tasks' = DOMAIN tasks
          /\ \A s \in DOMAIN tasks :
                /\ tasks'[s].responsible = tasks[s].responsible
                /\ tasks'[s].group =
                      IF tasks[s].group = g
                         /\ (tasks[s].responsible = u \/ IsEmptyGroup(members', g))
                      THEN NULL ELSE tasks[s].group
      BY <1>3, LeaveGroupEffect DEF ChainInv
    <2>2. ResponsibleInGroup'
      BY <2>1 DEF ResponsibleInGroup
    <2>3. \A h \in groups \ {g} : ~IsEmptyGroup(members', h)
      BY <2>1 DEF GroupsInhabited, IsEmptyGroup
    <2> QED BY <2>1, <2>2, <2>3 DEF GroupsInhabited
  <1> QED BY <1>1, <1>2, <1>3 DEF GroupStep

LEMMA TaskStepKeeps ==
    ASSUME GroupInv, NEW u \in Users, WriteStep(u) \/ ToggleStep(u)
    PROVE  ResponsibleInGroup' /\ UNCHANGED <<groups, members>>
  <1> USE DEF GroupInv
  <1>1. ASSUME NEW t \in TaskIds, NEW v \in Users, NEW g \in GroupIds \cup {NULL},
               NEW r \in RecIds \cup {NULL}, CreateTask(u, t, v, g, r)
        PROVE  ResponsibleInGroup' /\ UNCHANGED <<groups, members>>
    <2>1. /\ DOMAIN tasks' = DOMAIN tasks \cup {t}
          /\ SameOwner(DOMAIN tasks) /\ Assigns(t, v, g)
          /\ ValidAssignment(members, u, v, g)
          /\ UNCHANGED <<groups, members>>
      BY <1>1, CreateTaskEffect DEF ChainInv
    <2> QED BY <2>1, AssignKeepsResponsible
  <1>2. ASSUME NEW t \in TaskIds, NEW v \in Users, NEW g \in GroupIds \cup {NULL},
               NEW r \in RecIds \cup {NULL}, UpdateTask(u, t, v, g, r)
        PROVE  ResponsibleInGroup' /\ UNCHANGED <<groups, members>>
    <2>1. /\ DOMAIN tasks' = DOMAIN tasks
          /\ SameOwner(DOMAIN tasks \ {t}) /\ Assigns(t, v, g)
          /\ ValidAssignment(members, u, v, g)
          /\ UNCHANGED <<groups, members>>
      BY <1>2, UpdateTaskEffect
    <2> QED BY <2>1, AssignKeepsResponsible
  <1>3. ASSUME NEW t \in TaskIds, DeleteTask(u, t)
        PROVE  ResponsibleInGroup' /\ UNCHANGED <<groups, members>>
    <2>1. /\ DOMAIN tasks' = DOMAIN tasks \ {t}
          /\ SameOwner(DOMAIN tasks')
          /\ UNCHANGED <<groups, members>>
      BY <1>3, DeleteTaskEffect
    <2> QED BY <2>1, KeepResponsible
  <1>4. ASSUME NEW t \in TaskIds, TogglePlain(u, t)
        PROVE  ResponsibleInGroup' /\ UNCHANGED <<groups, members>>
    <2>1. /\ DOMAIN tasks' = DOMAIN tasks
          /\ SameOwner(DOMAIN tasks)
          /\ UNCHANGED <<groups, members>>
      BY <1>4, TogglePlainEffect
    <2> QED BY <2>1, KeepResponsible
  <1>5. ASSUME NEW t \in TaskIds, NEW n \in TaskIds, CompleteCurrent(u, t, n)
        PROVE  ResponsibleInGroup' /\ UNCHANGED <<groups, members>>
    <2>1. /\ t \in DOMAIN tasks
          /\ DOMAIN tasks' = DOMAIN tasks \cup {n}
          /\ SameOwner(DOMAIN tasks) /\ NewOccurrence(t, n)
          /\ UNCHANGED <<groups, members>>
      BY <1>5, CompleteCurrentEffect
    <2> QED BY <2>1 DEF ResponsibleInGroup, SameOwner, NewOccurrence
  <1>6. ASSUME NEW t \in TaskIds, ReopenPrevious(u, t)
        PROVE  ResponsibleInGroup' /\ UNCHANGED <<groups, members>>
    <2>1. /\ DOMAIN tasks' \subseteq DOMAIN tasks
          /\ SameOwner(DOMAIN tasks')
          /\ UNCHANGED <<groups, members>>
      BY <1>6, ReopenPreviousEffect
    <2> QED BY <2>1, KeepResponsible
  <1> QED BY <1>1, <1>2, <1>3, <1>4, <1>5, <1>6 DEF WriteStep, ToggleStep

LEMMA NextGroupInv == GroupInv /\ [Next]_vars => GroupInv'
  <1> SUFFICES ASSUME GroupInv, [Next]_vars PROVE GroupInv'
    OBVIOUS
  <1>1. ChainInv'
    BY NextChainInv DEF GroupInv
  <1>2. CASE UNCHANGED vars
    BY <1>1, <1>2 DEF vars, GroupInv, ResponsibleInGroup, GroupsInhabited
  <1>3. ASSUME NEW u \in Users, GroupStep(u) PROVE GroupInv'
    BY <1>1, <1>3, GroupStepKeeps DEF GroupInv
  <1>4. ASSUME NEW u \in Users, WriteStep(u) \/ ToggleStep(u) PROVE GroupInv'
    <2>1. ResponsibleInGroup' /\ UNCHANGED <<groups, members>>
      BY <1>4, TaskStepKeeps
    <2> QED BY <1>1, <2>1 DEF GroupInv, GroupsInhabited
  <1> QED BY <1>2, <1>3, <1>4 DEF Next

LEMMA InitGroupInv == Init => GroupInv
  BY InitChainInv DEF GroupInv, Init, ResponsibleInGroup, GroupsInhabited

(* Whoever is responsible for a group's task is a member of the group, as  *)
(* long as transactions do not overlap.                                    *)
THEOREM ResponsibleIsMember == Spec => []ResponsibleInGroup
  <1>1. GroupInv => ResponsibleInGroup
    BY DEF GroupInv
  <1> QED BY <1>1, InitGroupInv, NextGroupInv, PTL DEF Spec

(* No group outlives its last member, as long as transactions do not       *)
(* overlap.                                                                *)
THEOREM NoEmptyGroups == Spec => []GroupsInhabited
  <1>1. GroupInv => GroupsInhabited
    BY DEF GroupInv
  <1> QED BY <1>1, InitGroupInv, NextGroupInv, PTL DEF Spec

-----------------------------------------------------------------------------
(* What a step may never do.                                               *)

LEMMA GroupStepMoves ==
    ASSUME ChainInv, NEW u \in Users, GroupStep(u)
    PROVE  KeepsPast /\ MovesOne
  <1>1. ASSUME NEW g \in GroupIds, CreateGroup(u, g) \/ JoinGroup(u, g)
        PROVE  KeepsPast /\ MovesOne
    <2>1. tasks' = tasks /\ recurrences' = recurrences
      BY <1>1 DEF CreateGroup, JoinGroup
    <2> QED BY <2>1 DEF ChainInv, PastIsCompleted, KeepsPast, MovesOne
  <1>2. ASSUME NEW g \in GroupIds, LeaveGroup(u, g) PROVE KeepsPast /\ MovesOne
    <2>1. /\ DOMAIN tasks' = DOMAIN tasks
          /\ SameStatus(DOMAIN tasks)
          /\ \A s \in DOMAIN tasks : tasks'[s].responsible = tasks[s].responsible
          /\ recurrences' = recurrences
      BY <1>2, LeaveGroupEffect DEF ChainInv
    <2> QED BY <2>1 DEF ChainInv, PastIsCompleted, KeepsPast, MovesOne, SameStatus
  <1> QED BY <1>1, <1>2 DEF GroupStep

\* A task that may be updated or deleted is not a past occurrence.
LEMMA UpdatableIsNotPast ==
    ASSUME ChainInv, NEW u, NEW t \in DOMAIN tasks, MayUpdate(u, t)
    PROVE  ~IsPast(t)
  BY NullAssumption DEF ChainInv, TypeOK, References, IsRecurrenceTable, MayUpdate,
                        CanUpdate, IsPast, Current, CurrentOf

LEMMA WriteStepMoves ==
    ASSUME ChainInv, NEW u, WriteStep(u)
    PROVE  KeepsPast /\ MovesOne
  <1>1. ASSUME NEW t \in TaskIds, NEW v \in Users, NEW g \in GroupIds \cup {NULL},
               NEW r \in RecIds \cup {NULL}, CreateTask(u, t, v, g, r)
        PROVE  KeepsPast /\ MovesOne
    <2>1. /\ DOMAIN tasks' = DOMAIN tasks \cup {t}
          /\ SameOwner(DOMAIN tasks) /\ SameStatus(DOMAIN tasks)
          /\ recurrences' = recurrences \/ Starts(t, r)
      BY <1>1, CreateTaskEffect DEF ChainInv
    <2>2. \A q \in DOMAIN recurrences : recurrences'[q] = recurrences[q]
      BY <2>1 DEF Starts, Put
    <2> QED BY <2>1, <2>2
            DEF ChainInv, PastIsCompleted, KeepsPast, MovesOne, SameOwner, SameStatus
  <1>2. ASSUME NEW t \in TaskIds, NEW v \in Users, NEW g \in GroupIds \cup {NULL},
               NEW r \in RecIds \cup {NULL}, UpdateTask(u, t, v, g, r)
        PROVE  KeepsPast /\ MovesOne
    <2>1. /\ t \in DOMAIN tasks
          /\ MayUpdate(u, t)
          /\ DOMAIN tasks' = DOMAIN tasks
          /\ SameOwner(DOMAIN tasks \ {t}) /\ SameStatus(DOMAIN tasks)
          /\ \/ SameChain(DOMAIN tasks) /\ recurrences' = recurrences
             \/ tasks[t].recurrence # NULL /\ Dissolves(tasks[t].recurrence)
             \/ /\ tasks[t].recurrence = NULL /\ r # NULL
                /\ SameChain(DOMAIN tasks \ {t}) /\ Starts(t, r)
      BY <1>2, UpdateTaskEffect
    <2>2. \A q \in DOMAIN recurrences \cap DOMAIN recurrences' :
             recurrences'[q] = recurrences[q]
      BY <2>1 DEF Starts, Put, Dissolves, DropRecurrence, Restrict
    <2>3. ~IsPast(t)
      BY <2>1, UpdatableIsNotPast
    <2> QED BY <2>1, <2>2, <2>3
            DEF ChainInv, PastIsCompleted, KeepsPast, MovesOne, SameOwner, SameStatus
  <1>3. ASSUME NEW t \in TaskIds, DeleteTask(u, t) PROVE KeepsPast /\ MovesOne
    <2>1. /\ t \in DOMAIN tasks
          /\ MayDelete(u, t)
          /\ DOMAIN tasks' = DOMAIN tasks \ {t}
          /\ SameOwner(DOMAIN tasks') /\ SameStatus(DOMAIN tasks')
          /\ \/ /\ tasks[t].recurrence = NULL
                /\ SameChain(DOMAIN tasks')
                /\ recurrences' = recurrences
             \/ tasks[t].recurrence # NULL /\ Dissolves(tasks[t].recurrence)
      BY <1>3, DeleteTaskEffect
    <2>2. \A q \in DOMAIN recurrences \cap DOMAIN recurrences' :
             recurrences'[q] = recurrences[q]
      BY <2>1 DEF Dissolves, DropRecurrence, Restrict
    <2>3. ~IsPast(t)
      BY <2>1, UpdatableIsNotPast DEF MayDelete, CanDelete, MayUpdate
    <2> QED BY <2>1, <2>2, <2>3
            DEF ChainInv, PastIsCompleted, KeepsPast, MovesOne, SameOwner, SameStatus
  <1> QED BY <1>1, <1>2, <1>3 DEF WriteStep

LEMMA ToggleStepMoves ==
    ASSUME ChainInv, NEW u, ToggleStep(u)
    PROVE  KeepsPast /\ MovesOne
  <1>1. ASSUME NEW t \in TaskIds, TogglePlain(u, t) PROVE KeepsPast /\ MovesOne
    <2>1. /\ tasks[t].recurrence = NULL
          /\ DOMAIN tasks' = DOMAIN tasks
          /\ SameOwner(DOMAIN tasks) /\ SameStatus(DOMAIN tasks \ {t})
          /\ recurrences' = recurrences
      BY <1>1, TogglePlainEffect
    <2> QED BY <2>1
            DEF ChainInv, PastIsCompleted, IsPast, KeepsPast, MovesOne, SameOwner, SameStatus
  <1>2. ASSUME NEW t \in TaskIds, NEW n \in TaskIds, CompleteCurrent(u, t, n)
        PROVE  KeepsPast /\ MovesOne
    <2>1. /\ t \in DOMAIN tasks /\ n \notin DOMAIN tasks
          /\ recurrences[tasks[t].recurrence] = t
          /\ DOMAIN tasks' = DOMAIN tasks \cup {n}
          /\ SameOwner(DOMAIN tasks) /\ SameStatus(DOMAIN tasks \ {t})
          /\ NewOccurrence(t, n) /\ MovesTo(tasks[t].recurrence, n)
      BY <1>2, CompleteCurrentEffect
    <2>2. KeepsPast
      BY <2>1 DEF ChainInv, PastIsCompleted, KeepsPast, SameOwner, SameStatus, NewOccurrence
    <2>3. MovesOne
      BY <2>1 DEF MovesOne, MovesTo, NewOccurrence
    <2> QED BY <2>2, <2>3
  <1>3. ASSUME NEW t \in TaskIds, ReopenPrevious(u, t) PROVE KeepsPast /\ MovesOne
    <2> DEFINE c == Current(t)
               r == tasks[t].recurrence
    <2>e. /\ t \in DOMAIN tasks
          /\ r \in DOMAIN recurrences
          /\ c = recurrences[r]
          /\ c \in DOMAIN tasks /\ c # t
          /\ tasks[c].previous = t
          /\ DOMAIN tasks' = DOMAIN tasks \ {c}
          /\ SameChain(DOMAIN tasks') /\ SameOwner(DOMAIN tasks')
          /\ SameStatus(DOMAIN tasks' \ {t})
          /\ recurrences' = [recurrences EXCEPT ![r] = t]
      BY <1>3, ReopenPreviousEffect
    <2>1. /\ DOMAIN recurrences' = DOMAIN recurrences
          /\ recurrences'[r] = t
          /\ \A q \in DOMAIN recurrences \ {r} : recurrences'[q] = recurrences[q]
      BY <2>e DEF ChainInv, TypeOK, IsRecurrenceTable
    <2>2. MovesOne
      BY <2>e, <2>1 DEF MovesOne
    <2>3. ~IsPast(c)
      BY <2>e DEF ChainInv, CurrentIsLast, IsPast, Current, CurrentOf
    <2>4. tasks'[t].recurrence = r /\ r # NULL
      BY <2>e, NullAssumption DEF SameChain, ChainInv, TypeOK, IsRecurrenceTable
    <2>5. (Current(t))' = t
      BY <2>1, <2>4 DEF Current, CurrentOf
    <2> HIDE DEF c
    <2>6. KeepsPast
      BY <2>e, <2>3, <2>5 DEF ChainInv, PastIsCompleted, KeepsPast, SameOwner, SameStatus
    <2> QED BY <2>2, <2>6
  <1> QED BY <1>1, <1>2, <1>3 DEF ToggleStep

LEMMA NextMoves == ChainInv /\ [Next]_vars => [KeepsPast /\ MovesOne]_vars
  <1> SUFFICES ASSUME ChainInv, Next PROVE KeepsPast /\ MovesOne
    OBVIOUS
  <1> QED BY GroupStepMoves, WriteStepMoves, ToggleStepMoves DEF Next

(* No transaction deletes, gives away or reopens an occurrence that is not *)
(* the current one, unless that occurrence becomes the current one.        *)
THEOREM HistoryIsKept == Spec => PastIsKept
  <1>1. ChainInv /\ [Next]_vars => [KeepsPast]_vars
    BY NextMoves
  <1>2. Spec => [][KeepsPast]_vars
    BY <1>1, InitChainInv, NextChainInv, PTL DEF Spec
  <1> QED BY <1>2 DEF PastIsKept

(* A recurrence moves to a new task after its current one, or back to the  *)
(* previous one of a current task that is deleted, and no other way.       *)
THEOREM RecurrenceMovesOneOccurrence == Spec => MovesOneOccurrence
  <1>1. ChainInv /\ [Next]_vars => [MovesOne]_vars
    BY NextMoves
  <1>2. Spec => [][MovesOne]_vars
    BY <1>1, InitChainInv, NextChainInv, PTL DEF Spec
  <1> QED BY <1>2 DEF MovesOneOccurrence
=============================================================================
