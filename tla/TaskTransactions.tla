-------------------------- MODULE TaskTransactions --------------------------
(***************************************************************************)
(* The transactions of src/server/src/db/task.rs as they overlap: every    *)
(* SQL statement is a step of its own.  Postgres runs them at its default  *)
(* isolation level, READ COMMITTED: a statement sees the rows committed    *)
(* when it starts and those its own transaction wrote, a row that one      *)
(* transaction wrote is locked for the others until it ends, and a         *)
(* statement that had to wait looks at the new version of the row.         *)
(*                                                                         *)
(* own[c] holds the rows the transaction on connection c wrote; they are   *)
(* its locks.  A statement takes the locks it needs at once, when all are  *)
(* free.  (One by one, it might meet a deadlock instead, which ends it as  *)
(* Drop may.)  Memberships do not change here: a viewer is responsible for *)
(* the task or may not act on it.                                          *)
(***************************************************************************)
EXTENDS TaskTables, Naturals, FiniteSets, Relation

CONSTANTS
    Connections,   \* of the database pool: one transaction each
    Overlaps       \* the sets {op1, op2} of requests that may run at once

Toggles == {"complete", "reopen"}   \* toggle_task_completed(is_completed)
Updates == {"repeat", "single"}     \* update_task with and without recurrence
Ops     == Toggles \cup Updates \cup {"delete"}
Job     == [user : Users, op : Ops, task : TaskIds]

\* What a transaction keeps of the task that get_task_unchecked returned.
SeenTask == [recurrence : RecIds \cup {NULL}, current : TaskIds \cup {NULL},
             previous : TaskIds \cup {NULL}]

ASSUME RowAssumption == NULL \notin Task /\ NULL \notin Job /\ NULL \notin SeenTask

VARIABLES
    tasks, recurrences,   \* as committed
    job,                  \* connection -> Job, or NULL
    pc,                   \* connection -> its next statement
    seen,                 \* connection -> what get_task_unchecked returned
    rows,                 \* connection -> the rows its UPDATE has found
    own

vars == <<tasks, recurrences, job, pc, seen, rows, own>>

Nothing == [tasks |-> << >>, recs |-> << >>]
NoMembers == {}

-----------------------------------------------------------------------------
(* What a transaction sees and what it waits for.                          *)

\* Table f with the rows of w in place of its own; NULL is a deleted row.
Overlay(f, w) ==
    [k \in {x \in DOMAIN f \cup DOMAIN w : x \in DOMAIN w => w[x] # NULL} |->
        IF k \in DOMAIN w THEN w[k] ELSE f[k]]

Tasks(c) == Overlay(tasks, own[c].tasks)
Recs(c)  == Overlay(recurrences, own[c].recs)

\* The task that delete_task_internal deletes.
Doomed(c) == IF job[c].op = "reopen" THEN seen[c].current ELSE job[c].task

\* The rows the next statement of c writes, and so waits for.
NeededTasks(c) ==
    LET T == Tasks(c) IN
    CASE pc[c] \in {"set", "assign"} -> {job[c].task}
      [] pc[c] = "unset"  -> rows[c]
      [] pc[c] = "unlink" -> {s \in DOMAIN T : T[s].recurrence = seen[c].recurrence}
      [] pc[c] = "remove" -> {Doomed(c)} \cup
                             {s \in DOMAIN T : CurrentOf(T, Recs(c), s) = Doomed(c)}
      [] OTHER -> {}

NeededRecs(c) ==
    LET R == Recs(c) IN
    CASE pc[c] = "next"   -> {r \in DOMAIN R : r = Tasks(c)[job[c].task].recurrence}
      [] pc[c] = "revert" -> {r \in DOMAIN R : R[r] = seen[c].current}
      [] pc[c] \in {"touch", "unlink"} -> {seen[c].recurrence}
      [] pc[c] = "remove" -> {r \in DOMAIN R : R[r] = Doomed(c)}
      [] OTHER -> {}

WaitsFor(c, d) ==
    /\ c # d
    /\ \/ NeededTasks(c) \cap DOMAIN own[d].tasks # {}
       \/ NeededRecs(c) \cap DOMAIN own[d].recs # {}

\* An id that no row has and no transaction remembers: the serial columns
\* never repeat one.
UnusedTask(t) ==
    /\ t \notin DOMAIN tasks
    /\ \A c \in Connections :
          /\ t \notin DOMAIN own[c].tasks
          /\ job[c] # NULL => t # job[c].task
          /\ seen[c] # NULL => t \notin {seen[c].current, seen[c].previous}

UnusedRec(r) ==
    /\ r \notin DOMAIN recurrences
    /\ \A c \in Connections :
          /\ r \notin DOMAIN own[c].recs
          /\ seen[c] # NULL => r # seen[c].recurrence

\* Bounds: no request starts that could run out of ids.
Running(op) == {c \in Connections : job[c] # NULL /\ job[c].op = op}
RoomForTask == Cardinality({t \in TaskIds : UnusedTask(t)}) > Cardinality(Running("complete"))
RoomForRec  == Cardinality({r \in RecIds : UnusedRec(r)}) > Cardinality(Running("repeat"))

-----------------------------------------------------------------------------
(* One statement, and the end of a transaction.                            *)

\* The writes o and those of a statement that gives the rows ks of table f.
Written(o, f, ks) ==
    [k \in DOMAIN o \cup ks |-> IF k \in DOMAIN f THEN f[k] ELSE NULL]

\* The next statement of c makes its view T and R; then comes `next`.
Execute(c, T, R, ts, rs, next) ==
    /\ \A d \in Connections : ~WaitsFor(c, d)
    /\ own' = [own EXCEPT ![c] = [tasks |-> Written(@.tasks, T, ts),
                                  recs  |-> Written(@.recs, R, rs)]]
    /\ pc' = [pc EXCEPT ![c] = next]
    /\ UNCHANGED <<tasks, recurrences, job, seen, rows>>

WriteTasks(c, T, next) == Execute(c, T, Recs(c), NeededTasks(c), {}, next)

\* Mutant: the locks outlive the transaction.
KeepLocks(c) ==
    /\ pc'   = [pc   EXCEPT ![c] = "idle"]
    /\ job'  = [job  EXCEPT ![c] = NULL]
    /\ seen' = [seen EXCEPT ![c] = NULL]
    /\ rows' = [rows EXCEPT ![c] = {}]
    /\ UNCHANGED own

Release(c) ==
    /\ own'  = [own  EXCEPT ![c] = Nothing]
    /\ pc'   = [pc   EXCEPT ![c] = "idle"]
    /\ job'  = [job  EXCEPT ![c] = NULL]
    /\ seen' = [seen EXCEPT ![c] = NULL]
    /\ rows' = [rows EXCEPT ![c] = {}]

\* Mutant: an error leaves the transaction, and its locks, open.
LeaveOpen(c) ==
    /\ pc' = [pc EXCEPT ![c] = "failed"]
    /\ UNCHANGED <<tasks, recurrences, job, seen, rows, own>>

Rollback(c) == Release(c) /\ UNCHANGED <<tasks, recurrences>>

Commit(c) ==
    /\ pc[c] = "commit"
    /\ tasks' = Tasks(c)
    /\ recurrences' = Recs(c)
    /\ Release(c)

\* The statement finds no row, or violates a constraint.
Fail(c) ==
    /\ \A d \in Connections : ~WaitsFor(c, d)
    /\ Rollback(c)

-----------------------------------------------------------------------------
(* The requests.                                                           *)

\* create_task: nobody can see the new rows before they are committed.
CreateTask(u, t) ==
    /\ UnusedTask(t) /\ RoomForTask
    /\ tasks' = Put(tasks, t, NewTask(u, NULL))
    /\ UNCHANGED <<recurrences, job, pc, seen, rows, own>>

Begin(c, u, op, t) ==
    /\ pc[c] = "idle"
    /\ t \in DOMAIN tasks
    /\ op = "complete" => RoomForTask
    /\ op = "repeat" /\ tasks[t].recurrence = NULL => RoomForRec
    /\ \A d \in Connections : pc[d] # "idle" => {op, job[d].op} \in Overlaps
    /\ job' = [job EXCEPT ![c] = [user |-> u, op |-> op, task |-> t]]
    /\ pc' = [pc EXCEPT ![c] = "read"]
    /\ UNCHANGED <<tasks, recurrences, seen, rows, own>>

\* What the request is allowed on the task as read.
Allowed(c) ==
    LET u == job[c].user
        t == job[c].task
    IN  CASE job[c].op \in Toggles -> /\ tasks[t].completed # (job[c].op = "complete")
                                      /\ CanToggle(tasks, NoMembers, recurrences, u, t)
          [] job[c].op = "delete"  -> CanDelete(tasks, NoMembers, recurrences, u, t)
          [] OTHER                 -> CanUpdate(tasks, NoMembers, recurrences, u, t)

\* get_task_unchecked
Read(c) ==
    LET t == job[c].task IN
    /\ pc[c] = "read"
    /\ t \in DOMAIN tasks
    /\ Allowed(c)
    /\ seen' = [seen EXCEPT ![c] = [recurrence |-> tasks[t].recurrence,
                                    current    |-> CurrentOf(tasks, recurrences, t),
                                    previous   |-> PreviousOf(tasks, recurrences, t)]]
    /\ pc' = [pc EXCEPT ![c] = CASE job[c].op \in Toggles -> "set"
                                 [] job[c].op \in Updates -> "assign"
                                 [] job[c].op = "delete" /\ tasks[t].recurrence = NULL -> "remove"
                                 [] OTHER -> "scan"]
    /\ UNCHANGED <<tasks, recurrences, job, rows, own>>

\* Not found, nothing to change, or not allowed.
Refuse(c) ==
    /\ pc[c] = "read"
    /\ job[c].task \in DOMAIN tasks => ~Allowed(c)
    /\ Rollback(c)

\* toggle_task_completed_internal, and the arm of the match that follows.
SetStatement(c) ==
    LET t == job[c].task
        s == seen[c]
    IN  /\ pc[c] = "set"
        /\ IF t \in DOMAIN Tasks(c)
           THEN WriteTasks(c, SetCompleted(Tasks(c), t, job[c].op = "complete"),
                    CASE s.current = NULL -> "commit"
                      [] s.current = t /\ job[c].op = "complete" -> "next"
                      [] s.current # NULL /\ s.previous = t /\ job[c].op = "reopen" -> "revert"
                      [] OTHER -> "fail")
           ELSE Fail(c)

\* create_next_recurrence_internal, which joins the recurrence of the task.
NextStatement(c, n) ==
    LET t == job[c].task
        r == Tasks(c)[t].recurrence
    IN  /\ pc[c] = "next"
        /\ UnusedTask(n)
        /\ IF r \in DOMAIN Recs(c)
           THEN Execute(c, Put(Tasks(c), n, NextOccurrence(Tasks(c), t)),
                        Put(Recs(c), r, n), {n}, {r}, "load")
           ELSE Fail(c)

\* The previous task read at first is loaded again for the answer.
LoadPrevious(c) ==
    /\ pc[c] = "load"
    /\ IF seen[c].previous \in DOMAIN Tasks(c) \cup {NULL}
       THEN pc' = [pc EXCEPT ![c] = "commit"] /\ UNCHANGED <<tasks, recurrences, job, seen, rows, own>>
       ELSE Rollback(c)

\* revert_recurrence_internal
RevertStatement(c) ==
    /\ pc[c] = "revert"
    /\ Execute(c, Tasks(c), Revert(Recs(c), seen[c].previous, seen[c].current),
               {}, NeededRecs(c), "remove")

\* update_task_internal, and the arm of the match that follows.
AssignStatement(c) ==
    /\ pc[c] = "assign"
    /\ IF job[c].task \in DOMAIN Tasks(c)
       THEN WriteTasks(c, Tasks(c),
                CASE job[c].op = "single" /\ seen[c].recurrence = NULL -> "commit"
                  [] job[c].op = "single" /\ seen[c].recurrence # NULL -> "scan"
                  [] job[c].op = "repeat" /\ seen[c].recurrence # NULL -> "touch"
                  [] OTHER -> "attach")
       ELSE Fail(c)

\* update_recurrence_internal, which writes no column that is kept here.
TouchStatement(c) ==
    /\ pc[c] = "touch"
    /\ Execute(c, Tasks(c), Recs(c), {}, NeededRecs(c), "commit")

\* create_recurrence_internal
AttachStatement(c, r) ==
    LET t == job[c].task IN
    /\ pc[c] = "attach"
    /\ UnusedRec(r)
    /\ Execute(c, StartRecurrence(Tasks(c), t, r), Put(Recs(c), r, t), {t}, {r}, "commit")

\* unset_recurrence_internal finds its rows when it starts.
ScanStatement(c) ==
    /\ pc[c] = "scan"
    /\ rows' = [rows EXCEPT ![c] = {s \in DOMAIN Tasks(c) :
                                       Tasks(c)[s].recurrence = seen[c].recurrence}]
    /\ pc' = [pc EXCEPT ![c] = "unset"]
    /\ UNCHANGED <<tasks, recurrences, job, seen, own>>

\* ... and updates those that still match once it has locked them.
UnsetStatement(c) ==
    LET T == Tasks(c)
        found == {s \in rows[c] \cap DOMAIN T : T[s].recurrence = seen[c].recurrence}
        unset == UnsetRecurrence(T, seen[c].recurrence)
    IN  /\ pc[c] = "unset"
        /\ Execute(c, [s \in DOMAIN T |-> IF s \in found THEN unset[s] ELSE T[s]],
                   Recs(c), found, {}, "unlink")

\* delete_recurrence_internal: recurrence_id of the rows left is set to NULL.
UnlinkStatement(c) ==
    LET r == seen[c].recurrence IN
    /\ pc[c] = "unlink"
    /\ Execute(c, ClearRecurrence(Tasks(c), r), DropRecurrence(Recs(c), r),
               NeededTasks(c), {r} \cap DOMAIN Recs(c),
               IF job[c].op = "delete" THEN "remove" ELSE "commit")

\* delete_task_internal
RemoveStatement(c) ==
    LET T == Tasks(c)
        x == Doomed(c)
    IN  /\ pc[c] = "remove"
        /\ IF x \in DOMAIN T /\ ~IsPrevious(T, x)
           THEN Execute(c, DeleteRow(T, Recs(c), x), CascadeRow(Recs(c), x),
                        NeededTasks(c), NeededRecs(c), "commit")
           ELSE Fail(c)

Unexpected(c) == pc[c] = "fail" /\ Rollback(c)

-----------------------------------------------------------------------------
Statement(c) ==
    \/ Read(c) \/ Refuse(c) \/ SetStatement(c) \/ RevertStatement(c)
    \/ LoadPrevious(c) \/ AssignStatement(c) \/ TouchStatement(c) \/ ScanStatement(c)
    \/ UnsetStatement(c) \/ UnlinkStatement(c) \/ RemoveStatement(c)
    \/ Unexpected(c) \/ Commit(c)
    \/ \E n \in TaskIds : NextStatement(c, n)
    \/ \E r \in RecIds : AttachStatement(c, r)

\* The handler is dropped, the connection is lost or the server stops.
Drop(c) == pc[c] # "idle" /\ Rollback(c)

\* Postgres ends one of the transactions that wait for each other in a circle.
Waits == [p \in Connections \X Connections |-> WaitsFor(p[1], p[2])]
Deadlocked(c) ==
    /\ \E d \in Connections : WaitsFor(c, d)
    /\ TransitiveClosure(Waits, Connections)[c, c]
BreakDeadlock(c) == Deadlocked(c) /\ Rollback(c)

Init ==
    /\ tasks = << >>
    /\ recurrences = << >>
    /\ job  = [c \in Connections |-> NULL]
    /\ pc   = [c \in Connections |-> "idle"]
    /\ seen = [c \in Connections |-> NULL]
    /\ rows = [c \in Connections |-> {}]
    /\ own  = [c \in Connections |-> Nothing]

Next ==
    \/ \E u \in Users, t \in TaskIds :
          \/ CreateTask(u, t)
          \/ \E c \in Connections, op \in Ops : Begin(c, u, op, t)
    \/ \E c \in Connections : Statement(c) \/ Drop(c) \/ BreakDeadlock(c)

Spec == Init /\ [][Next]_vars

\* A row lock is granted to every transaction that waits for it in turn, and
\* deadlocks are detected.
Fairness == \A c \in Connections : SF_vars(Statement(c)) /\ WF_vars(BreakDeadlock(c))

FairSpec == Spec /\ Fairness

-----------------------------------------------------------------------------
(* Properties                                                              *)

Serial == INSTANCE SurvivalDb WITH groups <- {}, members <- NoMembers

\* The committed tables are well typed, no row is written by two
\* transactions at once, and no lock outlives its transaction.
TypeOK ==
    /\ Serial!TypeOK
    /\ job \in [Connections -> Job \cup {NULL}]
    /\ \A c \in Connections :
          /\ pc[c] = "idle" <=> job[c] = NULL
          /\ pc[c] = "idle" => own[c] = Nothing
    /\ \A c, d \in Connections : c # d =>
          /\ DOMAIN own[c].tasks \cap DOMAIN own[d].tasks = {}
          /\ DOMAIN own[c].recs \cap DOMAIN own[d].recs = {}

\* The largest set of pairs found to keep the tables as serial execution
\* does.  {"reopen"} and {"reopen", "delete"} hold by themselves, but not
\* together with the overlap of complete and reopen.
SerialOverlaps ==
    {{"complete", "reopen"}, {"repeat", "single"}, {"repeat", "delete"},
     {"single"}, {"single", "delete"}, {"delete"}}

\* The requests of task.rs that Overlaps lets run at once leave the tables
\* as if each had run alone, when it commits.
ImplementsSerial == Serial!Spec

\* No committed row refers to one that is gone, whatever runs at once: the
\* actions of the foreign keys also reach the rows of stale requests.
References == Serial!References

\* Every request ends, also those whose transactions wait for each other.
EveryRequestEnds == \A c \in Connections : pc[c] # "idle" ~> pc[c] = "idle"

\* The comment in toggle_task_completed, "Set current task completed and
\* create new task": one new task, so no two tasks follow the same one.
OneNextTask ==
    \A s, t \in DOMAIN tasks :
        tasks[s].previous = tasks[t].previous /\ s # t => tasks[s].previous = NULL
=============================================================================
