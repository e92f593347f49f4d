------------------------- MODULE GroupTransactions -------------------------
(***************************************************************************)
(* The transactions of src/server/src/db/group.rs, and those of task.rs    *)
(* that put a task into a group, as they overlap at READ COMMITTED.        *)
(*                                                                         *)
(* A statement that may have to wait takes two steps: it finds its rows in *)
(* the snapshot it starts with, and writes those that still match once it  *)
(* has locked them.  A foreign key is checked by a step of its own, which  *)
(* keeps a share lock on the row of groups until the transaction ends.     *)
(* Recurrences are left out: no statement on a group looks at them.        *)
(***************************************************************************)
EXTENDS TaskTables, Naturals, FiniteSets, Relation

CONSTANTS
    Connections    \* of the database pool: one transaction each

Ops == {"join", "leave", "create", "update"}

\* What a transaction works on; fields that a request does not have are NULL.
Job == [user : Users, op : Ops, group : GroupIds \cup {NULL},
        task : TaskIds \cup {NULL}, responsible : Users \cup {NULL}]

ASSUME JobAssumption == NULL \notin Job
ASSUME PoolAssumption == IsFiniteSet(Connections)

VARIABLES
    groups, members, tasks,   \* as committed
    job,                      \* connection -> Job, or NULL
    pc,                       \* connection -> its next step
    found,                    \* connection -> what its statement has found
    own                       \* connection -> what it wrote and locks

vars == <<groups, members, tasks, job, pc, found, own>>
tables == <<groups, members, tasks>>

Nothing == [tasks |-> << >>, added |-> {}, removed |-> {}, dropped |-> {}, shared |-> {}]
NoRecurrences == << >>

-----------------------------------------------------------------------------
(* What a transaction sees and what it waits for.                          *)

Tasks(c) == [t \in DOMAIN tasks \cup DOMAIN own[c].tasks |->
                IF t \in DOMAIN own[c].tasks THEN own[c].tasks[t] ELSE tasks[t]]
Members(c) == (members \cup own[c].added) \ own[c].removed

Pair(c) == <<job[c].user, job[c].group>>
TasksIn(T, g) == {t \in DOMAIN T : T[t].group = g}
PairsOf(c) == Users \X {job[c].group}

WaitsFor(c, d) ==
    /\ c # d
    /\ \/ pc[c] = "unsetting" /\ found[c] \cap DOMAIN own[d].tasks # {}
       \/ pc[c] = "assigning" /\ job[c].task \in DOMAIN own[d].tasks
       \/ pc[c] = "removing"  /\ found[c] \cap own[d].removed # {}
       \/ pc[c] = "join"      /\ Pair(c) \in own[d].added \cup own[d].removed
       \/ pc[c] = "reference" /\ job[c].group \in own[d].dropped
       \/ pc[c] = "dropping"  /\ found[c] \cap (own[d].shared \cup own[d].dropped) # {}
       \/ pc[c] = "cascade"   /\ \/ PairsOf(c) \cap own[d].removed # {}
                                 \/ TasksIn(tasks, job[c].group) \cap DOMAIN own[d].tasks # {}

Granted(c) == \A d \in Connections : ~WaitsFor(c, d)

\* An id that no row has and no request mentions.
UnusedGroup(g) == g \notin groups /\ \A c \in Connections : job[c] # NULL => g # job[c].group

UnusedTask(t) ==
    /\ t \notin DOMAIN tasks
    /\ \A c \in Connections : t \notin DOMAIN own[c].tasks /\ (job[c] # NULL => t # job[c].task)

-----------------------------------------------------------------------------
(* Steps of a transaction.                                                 *)

Go(c, next) == pc' = [pc EXCEPT ![c] = next]

\* A step that writes no row.
Find(c, rows, next) ==
    /\ found' = [found EXCEPT ![c] = rows]
    /\ Go(c, next)
    /\ UNCHANGED <<tables, job, own>>

\* A step that has its locks and leaves the writes and locks w.
Write(c, w, next) ==
    /\ Granted(c)
    /\ own' = [own EXCEPT ![c] = w]
    /\ found' = [found EXCEPT ![c] = {}]
    /\ Go(c, next)
    /\ UNCHANGED <<tables, job>>

\* Mutant: the locks outlive the transaction.
KeepLocks(c) ==
    /\ found' = [found EXCEPT ![c] = {}]
    /\ job'   = [job   EXCEPT ![c] = NULL]
    /\ Go(c, "idle")
    /\ UNCHANGED own

Release(c) ==
    /\ own'   = [own   EXCEPT ![c] = Nothing]
    /\ found' = [found EXCEPT ![c] = {}]
    /\ job'   = [job   EXCEPT ![c] = NULL]
    /\ Go(c, "idle")

\* Mutant: an error leaves the transaction, and its locks, open.
LeaveOpen(c) == Go(c, "failed") /\ UNCHANGED <<tables, job, found, own>>

Rollback(c) == Release(c) /\ UNCHANGED tables

\* No row, or a constraint that is violated.
Fail(c) == Granted(c) /\ Rollback(c)

Commit(c) ==
    /\ pc[c] = "commit"
    /\ groups' = groups \ own[c].dropped
    /\ members' = Members(c)
    /\ tasks' = Tasks(c)
    /\ Release(c)

-----------------------------------------------------------------------------
(* join_group_by_uid                                                       *)

GetGroup(c) ==
    /\ pc[c] = "find"
    /\ IF job[c].group \in groups THEN Find(c, {}, "join") ELSE Rollback(c)

\* The primary key of users_groups is checked when the row is inserted.
Join(c) ==
    /\ pc[c] = "join"
    /\ IF Pair(c) \in members
       THEN Fail(c)
       ELSE Write(c, [own[c] EXCEPT !.added = {Pair(c)}], "reference")

\* Mutant: the row of groups is only read, not locked.
CheckWithoutLock(c) ==
    /\ pc[c] = "reference"
    /\ IF job[c].group \in groups THEN Write(c, own[c], "commit") ELSE Fail(c)

\* REFERENCES groups (id), of users_groups and of tasks.
CheckReference(c) ==
    /\ pc[c] = "reference"
    /\ IF job[c].group \in groups
       THEN Write(c, [own[c] EXCEPT !.shared = {job[c].group}], "commit")
       ELSE Fail(c)

-----------------------------------------------------------------------------
(* leave_group                                                             *)

\* unset_task_group_for_responsible
ToRelease(c, T) == {t \in TasksIn(T, job[c].group) : T[t].responsible = job[c].user}

FindTasks(c) == pc[c] = "unset" /\ Find(c, ToRelease(c, Tasks(c)), "unsetting")

UnsetTasks(c) ==
    LET T == UnsetGroup(tasks, job[c].user, job[c].group) IN
    /\ pc[c] = "unsetting"
    /\ Write(c, [own[c] EXCEPT !.tasks = [t \in found[c] \cap ToRelease(c, tasks) |-> T[t]]],
             "remove")

\* remove_user_from_group; no row is no error.
FindMember(c) == pc[c] = "remove" /\ Find(c, {Pair(c)} \cap members, "removing")

RemoveMember(c) ==
    /\ pc[c] = "removing"
    /\ Write(c, [own[c] EXCEPT !.removed = found[c] \cap members], "drop")

\* Mutant: the statement runs outside the transaction.
FindGroupOutside(c) ==
    /\ pc[c] = "drop"
    /\ Find(c, {g \in {job[c].group} \cap groups : IsEmptyGroup(members, g)}, "dropping")

\* delete_group_if_empty decides with the memberships it sees at first ...
FindGroup(c) ==
    /\ pc[c] = "drop"
    /\ Find(c, {g \in {job[c].group} \cap groups : IsEmptyGroup(Members(c), g)}, "dropping")

\* ... and deletes the row when the transactions that share it have ended.
DeleteGroup(c) ==
    LET gone == found[c] \cap groups IN
    /\ pc[c] = "dropping"
    /\ Write(c, [own[c] EXCEPT !.dropped = gone], IF gone = {} THEN "commit" ELSE "cascade")

\* users_groups is ON DELETE CASCADE, tasks.group_id ON DELETE SET NULL.
Cascade(c) ==
    LET g == job[c].group
        T == Tasks(c)
    IN  /\ pc[c] = "cascade"
        /\ Write(c, [own[c] EXCEPT
                        !.removed = @ \cup (PairsOf(c) \cap members),
                        !.tasks = [t \in DOMAIN @ \cup TasksIn(T, g) |-> ClearGroup(T, g)[t]]],
                 "commit")

-----------------------------------------------------------------------------
(* create_task and update_task, without their recurrence.                  *)

\* validate_responsible_and_group
Validate(c) ==
    /\ pc[c] = "validate"
    /\ IF ValidAssignment(members, job[c].user, job[c].responsible, job[c].group)
       THEN Find(c, {}, IF job[c].op = "create" THEN "insert" ELSE "read")
       ELSE Rollback(c)

\* create_task_internal
InsertTask(c, t) ==
    /\ pc[c] = "insert"
    /\ UnusedTask(t)
    /\ Write(c, [own[c] EXCEPT !.tasks = Put(@, t, NewTask(job[c].responsible, job[c].group))],
             IF job[c].group = NULL THEN "commit" ELSE "reference")

\* get_task_unchecked and can_update
ReadTask(c) ==
    LET t == job[c].task IN
    /\ pc[c] = "read"
    /\ IF t \in DOMAIN tasks /\ CanUpdate(tasks, members, NoRecurrences, job[c].user, t)
       THEN Find(c, {}, "assign")
       ELSE Rollback(c)

\* update_task_internal: "Permission check", with the viewer's memberships
\* when the statement starts and the row once it is locked.
FindTask(c) ==
    /\ pc[c] = "assign"
    /\ IF Permitted(tasks, members, job[c].user, job[c].task)
       THEN Find(c, {m \in members : m[1] = job[c].user}, "assigning")
       ELSE Rollback(c)

AssignTask(c) ==
    LET t == job[c].task
        g == job[c].group
    IN  /\ pc[c] = "assigning"
        /\ IF Permitted(tasks, found[c], job[c].user, t)
           THEN Write(c, [own[c] EXCEPT !.tasks =
                             Put(@, t, Reassign(tasks, t, job[c].responsible, g)[t])],
                      IF g \in {NULL, tasks[t].group} THEN "commit" ELSE "reference")
           ELSE Fail(c)

-----------------------------------------------------------------------------
Step(c) ==
    \/ GetGroup(c) \/ Join(c) \/ CheckReference(c)
    \/ FindTasks(c) \/ UnsetTasks(c) \/ FindMember(c) \/ RemoveMember(c)
    \/ FindGroup(c) \/ DeleteGroup(c) \/ Cascade(c)
    \/ Validate(c) \/ ReadTask(c) \/ FindTask(c) \/ AssignTask(c)
    \/ \E t \in TaskIds : InsertTask(c, t)
    \/ Commit(c)

\* create_and_join_group: nobody can see its rows before they are committed.
CreateGroup(u, g) ==
    /\ UnusedGroup(g)
    /\ groups' = groups \cup {g}
    /\ members' = members \cup {<<u, g>>}
    /\ UNCHANGED <<tasks, job, pc, found, own>>

Request(u, op, g, t, responsible) ==
    [user |-> u, op |-> op, group |-> g, task |-> t, responsible |-> responsible]

Requests ==
    {Request(u, op, g, NULL, NULL) : u \in Users, op \in {"join", "leave"}, g \in GroupIds}
    \cup {Request(u, "create", g, NULL, v) :
             u \in Users, g \in GroupIds \cup {NULL}, v \in Users}
    \cup {Request(u, "update", g, t, v) :
             u \in Users, g \in GroupIds \cup {NULL}, t \in DOMAIN tasks, v \in Users}

FirstStep(op) == CASE op = "join"  -> "find"
                   [] op = "leave" -> "unset"
                   [] OTHER        -> "validate"

\* Bound: no creation starts that could run out of ids.
RoomForTask ==
    Cardinality({t \in TaskIds : UnusedTask(t)}) >
    Cardinality({c \in Connections : job[c] # NULL /\ job[c].op = "create"})

Begin(c, request) ==
    /\ pc[c] = "idle"
    /\ request.op = "create" => RoomForTask
    /\ job' = [job EXCEPT ![c] = request]
    /\ Go(c, FirstStep(request.op))
    /\ UNCHANGED <<tables, found, own>>

\* The handler is dropped, the connection is lost or the server stops.
Abort(c) == pc[c] # "idle" /\ Rollback(c)

\* Postgres ends one of the transactions that wait for each other in a circle.
Waits == [p \in Connections \X Connections |-> WaitsFor(p[1], p[2])]
Deadlocked(c) ==
    /\ \E d \in Connections : WaitsFor(c, d)
    /\ TransitiveClosure(Waits, Connections)[c, c]
BreakDeadlock(c) == Deadlocked(c) /\ Rollback(c)

Init ==
    /\ groups = {}
    /\ members = {}
    /\ tasks = << >>
    /\ job   = [c \in Connections |-> NULL]
    /\ pc    = [c \in Connections |-> "idle"]
    /\ found = [c \in Connections |-> {}]
    /\ own   = [c \in Connections |-> Nothing]

Next ==
    \/ \E u \in Users, g \in GroupIds : CreateGroup(u, g)
    \/ \E c \in Connections :
          \/ \E request \in Requests : Begin(c, request)
          \/ Step(c) \/ Abort(c) \/ BreakDeadlock(c)

Spec == Init /\ [][Next]_vars

\* A lock is granted to every transaction that waits for it in turn, and
\* deadlocks are detected.
Fairness == \A c \in Connections : SF_vars(Step(c)) /\ WF_vars(BreakDeadlock(c))

FairSpec == Spec /\ Fairness

-----------------------------------------------------------------------------
(* Properties                                                              *)

Serial == INSTANCE SurvivalDb WITH recurrences <- NoRecurrences

\* The committed tables are well typed, no lock outlives its
\* transaction, and no two transactions hold locks that exclude each other.
TypeOK ==
    /\ Serial!TypeOK
    /\ job \in [Connections -> Job \cup {NULL}]
    /\ \A c \in Connections :
          /\ pc[c] = "idle" <=> job[c] = NULL
          /\ pc[c] = "idle" => own[c] = Nothing
    /\ \A c, d \in Connections : c # d =>
          /\ DOMAIN own[c].tasks \cap DOMAIN own[d].tasks = {}
          /\ own[c].added \cap own[d].added = {}
          /\ own[c].removed \cap own[d].removed = {}
          /\ own[c].dropped \cap (own[d].dropped \cup own[d].shared) = {}

\* No membership and no task refers to a group that is gone, whatever
\* overlaps: delete_group_if_empty decides on memberships that may have
\* changed, and the foreign keys repair what it did not see.
References == Serial!References

LeavesOf(g) == {c \in Connections : job[c] # NULL /\ job[c].op = "leave" /\ job[c].group = g}

\* Leaves that do not overlap leave no group without members, whatever joins
\* it or writes its tasks meanwhile.  Two at once break this: each still
\* sees the other's membership, and neither deletes the group.
GroupsInhabited ==
    [](\A g \in GroupIds : Cardinality(LeavesOf(g)) <= 1) => []Serial!GroupsInhabited

LeaveMeetsWrite ==
    \E c, d \in Connections :
        /\ job[c] # NULL /\ job[c].op = "leave"
        /\ job[d] # NULL /\ job[d].op \in {"create", "update"}
        /\ job[d].group = job[c].group /\ job[d].responsible = job[c].user

\* Whoever is responsible for a group's task is a member of the group, unless
\* they leave while a request puts a task into it in their name: the leave
\* does not see the task, and the request has validated the membership.
ResponsibleInGroup == []~LeaveMeetsWrite => []Serial!ResponsibleInGroup

\* Every request ends, also a leave whose DELETE of the group waits for a
\* transaction that waits for the tasks the leave has unset.
EveryRequestEnds == \A c \in Connections : pc[c] # "idle" ~> pc[c] = "idle"

\* The comment in leave_group, "Remove viewer from group": a membership ends
\* by its own user's leave only.
OnlyViewerLeaves ==
    [][\A u \in Users, g \in GroupIds :
          <<u, g>> \in members \ members' =>
              \E c \in Connections :
                  /\ pc[c] = "commit" /\ job[c].op = "leave"
                  /\ Pair(c) = <<u, g>>]_vars
=============================================================================
