------------------------- MODULE SurvivalDbHistory -------------------------
(***************************************************************************)
(* The tables of SurvivalDb implement the histories of RecurrenceHistory:  *)
(* the rows of a recurrence, read backwards from its current task.         *)
(***************************************************************************)
EXTENDS SurvivalDb, Sequences, Naturals

\* The occurrences that led to task t, the first one first.
Occurrences[t \in DOMAIN tasks] ==
    IF tasks[t].previous = NULL THEN <<t>>
    ELSE Append(Occurrences[tasks[t].previous], t)

Histories == [r \in DOMAIN recurrences |-> Occurrences[recurrences[r]]]

History == INSTANCE RecurrenceHistory WITH history <- Histories

\* Every step of the tables is a step of the abstract histories: occurrences
\* are only added and taken away at the end (toggle_task_completed), and a
\* recurrence ends as a whole (update_task, delete_task).
ImplementsHistory == History!Spec
=============================================================================
