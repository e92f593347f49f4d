---------------------- MODULE GroupTransactionsProofs ----------------------
(***************************************************************************)
(* Theorems about GroupTransactions, for any number of connections, users, *)
(* groups and tasks.                                                       *)
(***************************************************************************)
EXTENDS GroupTransactions, FiniteSetTheorems, TLAPS

-----------------------------------------------------------------------------
(* The inductive invariant.  What it says of one connection is said of its *)
(* job j, its next step p, what it has found f and what it owns o, next to *)
(* the committed groups G, memberships M and tasks T.                      *)

LeaveSteps == {"unset", "unsetting", "remove", "removing", "drop", "dropping", "cascade"}
WriteSteps == {"validate", "insert", "read", "assign", "assigning"}
Steps == LeaveSteps \cup WriteSteps \cup {"idle", "find", "join", "reference", "commit"}

\* Rows of tasks without a recurrence: there is none in this model.
PlainTask == [responsible : Users, group : GroupIds \cup {NULL}, completed : BOOLEAN,
              previous : {NULL}, recurrence : {NULL}]
IsPlain(T) == DOMAIN T \subseteq TaskIds /\ T \in [DOMAIN T -> PlainTask]

\* A record of these five fields.
IsOwned(o) ==
    /\ o \in [tasks : {o.tasks}, added : {o.added}, removed : {o.removed},
              dropped : {o.dropped}, shared : {o.shared}]
    /\ IsPlain(o.tasks)
    /\ o.added \subseteq Users \X GroupIds

\* Which steps can have which writes and locks.
Flow(T, j, p, f, o) ==
    /\ p \in Steps
    /\ p = "idle" <=> j = NULL
    /\ p = "idle" => o = Nothing
    /\ p # "idle" => j \in Job
    /\ p \in LeaveSteps => o.added = {}
    /\ p = "join" => j.group \in GroupIds
    /\ p \in WriteSteps => j.responsible \in Users
    /\ p \in {"assign", "assigning"} => j.task \in DOMAIN T
    /\ p = "dropping" => f \subseteq {j.group}
    /\ o.shared # {} => p = "commit"
    /\ o.dropped # {} =>
          p \in {"cascade", "commit"} /\ o.dropped = {j.group} /\ o.added = {}

\* A group that the writes refer to is locked, unless the row already
\* referred to it, or the foreign key has still to be checked.
Covered(T, j, p, o) ==
    /\ \A m \in o.added : m[2] \in o.shared \/ (p = "reference" /\ m[2] = j.group)
    /\ \A t \in DOMAIN o.tasks :
          LET g == o.tasks[t].group IN
          \/ g = NULL
          \/ g \in o.shared
          \/ p = "reference" /\ g = j.group
          \/ t \in DOMAIN T /\ g = T[t].group

\* Whoever is about to delete a group has written every row that refers to it.
Cleared(M, T, p, o) ==
    p = "commit" =>
        /\ \A m \in M : m[2] \in o.dropped => m \in o.removed
        /\ \A t \in DOMAIN T : T[t].group \in o.dropped => t \in DOMAIN o.tasks
        /\ \A t \in DOMAIN o.tasks : o.tasks[t].group \notin o.dropped

Fits(G, M, T, j, p, f, o) ==
    /\ IsOwned(o)
    /\ Flow(T, j, p, f, o)
    /\ o.shared \subseteq G
    /\ o.dropped \subseteq G
    /\ Covered(T, j, p, o)
    /\ Cleared(M, T, p, o)

\* The tables themselves.
Sound(G, M, T) ==
    /\ G \subseteq GroupIds
    /\ M \subseteq Users \X GroupIds
    /\ IsPlain(T)
    /\ \A m \in M : m[2] \in G
    /\ \A t \in DOMAIN T : T[t].group \in G \cup {NULL}

\* Locks of two connections.
Excludes(o, q) ==
    /\ DOMAIN o.tasks \cap DOMAIN q.tasks = {}
    /\ o.added \cap q.added = {}
    /\ o.removed \cap q.removed = {}
    /\ o.dropped \cap (q.dropped \cup q.shared) = {}
    /\ q.dropped \cap (o.dropped \cup o.shared) = {}

Inv ==
    /\ Sound(groups, members, tasks)
    /\ job = [c \in Connections |-> job[c]]
    /\ pc = [c \in Connections |-> pc[c]]
    /\ found = [c \in Connections |-> found[c]]
    /\ own = [c \in Connections |-> own[c]]
    /\ \A c \in Connections : Fits(groups, members, tasks, job[c], pc[c], found[c], own[c])
    /\ \A c, d \in Connections : c # d => Excludes(own[c], own[d])

-----------------------------------------------------------------------------
(* A connection that owns nothing.                                         *)

LEMMA NothingFits ==
    ASSUME NEW G, NEW M, NEW T
    PROVE  Fits(G, M, T, NULL, "idle", {}, Nothing)
<1>1. IsOwned(Nothing)
  BY DEF IsOwned, Nothing, IsPlain
<1>2. Flow(T, NULL, "idle", {}, Nothing)
  BY DEF Flow, Nothing, Steps, LeaveSteps, WriteSteps
<1>3. Covered(T, NULL, "idle", Nothing)
  BY DEF Covered, Nothing
<1> QED
  BY <1>1, <1>2, <1>3 DEF Fits, Cleared, Nothing

LEMMA NothingExcludes ==
    ASSUME NEW o
    PROVE  Excludes(o, Nothing) /\ Excludes(Nothing, o)
BY DEF Excludes, Nothing

LEMMA InitInv == Init => Inv
<1> SUFFICES ASSUME Init PROVE Inv
  OBVIOUS
<1>1. Sound(groups, members, tasks)
  BY DEF Init, Sound, IsPlain
<1> QED
  BY <1>1, NothingFits, NothingExcludes DEF Init, Inv

-----------------------------------------------------------------------------
(* What a step leaves in the fields of own.                                *)

LEMMA OwnsTasks ==
    ASSUME NEW o, IsOwned(o), NEW rows, IsPlain(rows)
    PROVE  LET w == [o EXCEPT !.tasks = rows] IN
           /\ IsOwned(w)
           /\ w.tasks = rows /\ w.added = o.added /\ w.removed = o.removed
           /\ w.dropped = o.dropped /\ w.shared = o.shared
BY DEF IsOwned

LEMMA OwnsRemoved ==
    ASSUME NEW o, IsOwned(o), NEW pairs
    PROVE  LET w == [o EXCEPT !.removed = pairs] IN
           /\ IsOwned(w)
           /\ w.tasks = o.tasks /\ w.added = o.added /\ w.removed = pairs
           /\ w.dropped = o.dropped /\ w.shared = o.shared
BY DEF IsOwned

LEMMA OwnsDropped ==
    ASSUME NEW o, IsOwned(o), NEW gone
    PROVE  LET w == [o EXCEPT !.dropped = gone] IN
           /\ IsOwned(w)
           /\ w.tasks = o.tasks /\ w.added = o.added /\ w.removed = o.removed
           /\ w.dropped = gone /\ w.shared = o.shared
BY DEF IsOwned

LEMMA Apart == Inv => \A c \in Connections : \A d \in Connections \ {c} : Excludes(own[c], own[d])
BY DEF Inv

-----------------------------------------------------------------------------
(* The kinds of step.                                                      *)

\* A step of one connection, with the tables as they are.
LEMMA StepKeeps ==
    ASSUME Inv, NEW c \in Connections, NEW j, NEW p, NEW f, NEW o,
           UNCHANGED tables,
           job' = [job EXCEPT ![c] = j], pc' = [pc EXCEPT ![c] = p],
           found' = [found EXCEPT ![c] = f], own' = [own EXCEPT ![c] = o],
           Fits(groups, members, tasks, j, p, f, o),
           \A d \in Connections \ {c} : Excludes(o, own[d])
    PROVE  Inv'
<1>1. \A d \in Connections : Fits(groups, members, tasks, job'[d], pc'[d], found'[d], own'[d])
  BY DEF Inv
<1>2. ASSUME NEW d \in Connections, NEW e \in Connections, d # e
      PROVE  Excludes(own'[d], own'[e])
  <2>1. \A x, y : Excludes(x, y) => Excludes(y, x)
    BY DEF Excludes
  <2> QED
    BY <1>2, <2>1 DEF Inv
<1> QED
  BY <1>1, <1>2 DEF Inv, tables

LEMMA RollbackKeeps ==
    ASSUME Inv, NEW c \in Connections, Rollback(c)
    PROVE  Inv'
BY StepKeeps, NothingFits, NothingExcludes DEF Rollback, Release, Go

LEMMA FindKeeps ==
    ASSUME Inv, NEW c \in Connections, NEW rows, NEW next, Find(c, rows, next),
           Fits(groups, members, tasks, job[c], next, rows, own[c])
    PROVE  Inv'
<1>1. /\ job' = [job EXCEPT ![c] = job[c]]
      /\ own' = [own EXCEPT ![c] = own[c]]
      /\ \A d \in Connections \ {c} : Excludes(own[c], own[d])
  BY DEF Inv, Find
<1> QED
  BY <1>1, StepKeeps DEF Find, Go

LEMMA WriteKeeps ==
    ASSUME Inv, NEW c \in Connections, NEW w, NEW next, Write(c, w, next),
           Fits(groups, members, tasks, job[c], next, {}, w),
           \A d \in Connections \ {c} : Excludes(w, own[d])
    PROVE  Inv'
<1>1. job' = [job EXCEPT ![c] = job[c]]
  BY DEF Inv, Write
<1> QED
  BY <1>1, StepKeeps DEF Write, Go

-----------------------------------------------------------------------------
(* join_group_by_uid and the foreign keys                                  *)

LEMMA GetGroupKeeps == ASSUME Inv, NEW c \in Connections, GetGroup(c) PROVE Inv'
<1>1. CASE Rollback(c)
  BY <1>1, RollbackKeeps
<1>2. CASE job[c].group \in groups /\ Find(c, {}, "join")
  <2>1. Fits(groups, members, tasks, job[c], "join", {}, own[c])
    BY <1>2 DEF GetGroup, Inv, Sound, Fits, Flow, Covered, Cleared, Steps, LeaveSteps, WriteSteps
  <2> QED
    BY <1>2, <2>1, FindKeeps
<1> QED
  BY <1>1, <1>2 DEF GetGroup

LEMMA JoinKeeps == ASSUME Inv, NEW c \in Connections, Join(c) PROVE Inv'
<1>1. CASE Fail(c)
  BY <1>1, RollbackKeeps DEF Fail
<1>2. CASE Write(c, [own[c] EXCEPT !.added = {Pair(c)}], "reference")
  <2> DEFINE w == [own[c] EXCEPT !.added = {Pair(c)}]
  <2>1. pc[c] = "join" /\ Fits(groups, members, tasks, job[c], pc[c], found[c], own[c])
    BY DEF Join, Inv
  <2>2. own[c].dropped = {} /\ own[c].shared = {}
    BY <2>1 DEF Fits, Flow
  <2>3. /\ w.tasks = own[c].tasks /\ w.removed = own[c].removed
        /\ w.added = {Pair(c)} /\ w.dropped = {} /\ w.shared = {}
    BY <2>1, <2>2 DEF Fits, IsOwned
  <2>4. Pair(c) \in Users \X GroupIds /\ Pair(c)[2] = job[c].group
    BY <2>1 DEF Fits, Flow, Job, Pair
  <2>5. IsOwned(w)
    BY <2>1, <2>4 DEF Fits, IsOwned
  <2>6. Flow(tasks, job[c], "reference", {}, w)
    BY <2>1, <2>3 DEF Fits, Flow, Steps, LeaveSteps, WriteSteps
  <2>7. Covered(tasks, job[c], "reference", w)
    BY <2>1, <2>2, <2>3, <2>4 DEF Fits, Covered
  <2>8. Fits(groups, members, tasks, job[c], "reference", {}, w)
    BY <2>3, <2>5, <2>6, <2>7 DEF Fits, Cleared
  <2>9. ASSUME NEW d \in Connections \ {c} PROVE Excludes(w, own[d])
    BY <1>2, <2>1, <2>3, Apart DEF Write, Granted, WaitsFor, Excludes
  <2> QED
    BY <1>2, <2>8, <2>9, WriteKeeps
<1> QED
  BY <1>1, <1>2 DEF Join

LEMMA CheckReferenceKeeps == ASSUME Inv, NEW c \in Connections, CheckReference(c) PROVE Inv'
<1>1. CASE Fail(c)
  BY <1>1, RollbackKeeps DEF Fail
<1>2. CASE /\ job[c].group \in groups
           /\ Write(c, [own[c] EXCEPT !.shared = {job[c].group}], "commit")
  <2> DEFINE w == [own[c] EXCEPT !.shared = {job[c].group}]
  <2>1. pc[c] = "reference" /\ Fits(groups, members, tasks, job[c], pc[c], found[c], own[c])
    BY DEF CheckReference, Inv
  <2>2. IsOwned(w) /\ own[c].dropped = {} /\ own[c].shared = {}
    BY <2>1 DEF Fits, Flow, IsOwned
  <2>3. /\ w.tasks = own[c].tasks /\ w.added = own[c].added /\ w.removed = own[c].removed
        /\ w.dropped = {} /\ w.shared = {job[c].group}
    BY <2>1, <2>2 DEF Fits, IsOwned
  <2>4. Flow(tasks, job[c], "commit", {}, w)
    BY <2>1, <2>3 DEF Fits, Flow, Steps, LeaveSteps, WriteSteps
  <2>5. Covered(tasks, job[c], "commit", w)
    BY <2>1, <2>2, <2>3 DEF Fits, Covered
  <2>6. Fits(groups, members, tasks, job[c], "commit", {}, w)
    BY <1>2, <2>2, <2>3, <2>4, <2>5 DEF Fits, Cleared
  <2>7. ASSUME NEW d \in Connections \ {c} PROVE Excludes(w, own[d])
    BY <1>2, <2>1, <2>3, Apart DEF Write, Granted, WaitsFor, Excludes
  <2> QED
    BY <1>2, <2>6, <2>7, WriteKeeps
<1> QED
  BY <1>1, <1>2 DEF CheckReference

-----------------------------------------------------------------------------
(* leave_group                                                             *)

\* A SELECT of a leave, or one whose rows are written by the next step.
LEMMA LeaveFindKeeps ==
    ASSUME Inv, NEW c \in Connections, NEW rows, NEW next \in LeaveSteps \ {"cascade"},
           pc[c] \in LeaveSteps \ {"cascade"}, Find(c, rows, next),
           next = "dropping" => rows \subseteq {job[c].group}
    PROVE  Inv'
<1>1. Fits(groups, members, tasks, job[c], pc[c], found[c], own[c])
  BY DEF Inv
<1>2. Flow(tasks, job[c], next, rows, own[c])
  BY <1>1 DEF Fits, Flow, Steps, LeaveSteps, WriteSteps
<1>3. Covered(tasks, job[c], next, own[c])
  BY <1>1 DEF Fits, Covered, LeaveSteps
<1>4. Fits(groups, members, tasks, job[c], next, rows, own[c])
  BY <1>1, <1>2, <1>3 DEF Fits, Cleared, LeaveSteps
<1> QED
  BY <1>4, FindKeeps

LEMMA UnsetTasksKeeps == ASSUME Inv, NEW c \in Connections, UnsetTasks(c) PROVE Inv'
<1> DEFINE T == UnsetGroup(tasks, job[c].user, job[c].group)
           rows == [t \in found[c] \cap ToRelease(c, tasks) |-> T[t]]
           w == [own[c] EXCEPT !.tasks = rows]
<1>1. pc[c] = "unsetting" /\ Write(c, w, "remove")
  BY DEF UnsetTasks
<1>2. Fits(groups, members, tasks, job[c], pc[c], found[c], own[c]) /\ IsPlain(tasks)
  BY DEF Inv, Sound
<1>3. \A t \in DOMAIN rows : rows[t] \in PlainTask /\ rows[t].group = NULL
  BY <1>2 DEF ToRelease, TasksIn, UnsetGroup, IsPlain, PlainTask
<1>4. DOMAIN rows \subseteq DOMAIN tasks /\ DOMAIN rows \subseteq found[c]
  BY DEF ToRelease, TasksIn
<1>5. IsPlain(rows)
  BY <1>2, <1>3, <1>4 DEF IsPlain
<1>6. /\ IsOwned(w)
      /\ w.tasks = rows /\ w.added = own[c].added /\ w.removed = own[c].removed
      /\ w.dropped = own[c].dropped /\ w.shared = own[c].shared
  BY <1>2, <1>5, OwnsTasks DEF Fits
<1>7. Flow(tasks, job[c], "remove", {}, w)
  BY <1>1, <1>2, <1>6 DEF Fits, Flow, Steps, LeaveSteps, WriteSteps
<1>8. Covered(tasks, job[c], "remove", w)
  BY <1>1, <1>2, <1>3, <1>6 DEF Fits, Covered
<1>9. Fits(groups, members, tasks, job[c], "remove", {}, w)
  BY <1>2, <1>6, <1>7, <1>8 DEF Fits, Cleared
<1>10. ASSUME NEW d \in Connections \ {c} PROVE Excludes(w, own[d])
  <2>1. found[c] \cap DOMAIN own[d].tasks = {}
    BY <1>1 DEF Write, Granted, WaitsFor
  <2> QED
    BY <1>4, <1>6, <2>1, Apart DEF Excludes
<1> QED
  BY <1>1, <1>9, <1>10, WriteKeeps

LEMMA RemoveMemberKeeps == ASSUME Inv, NEW c \in Connections, RemoveMember(c) PROVE Inv'
<1> DEFINE w == [own[c] EXCEPT !.removed = found[c] \cap members]
<1>1. pc[c] = "removing" /\ Write(c, w, "drop")
  BY DEF RemoveMember
<1>2. Fits(groups, members, tasks, job[c], pc[c], found[c], own[c])
  BY DEF Inv
<1>3. /\ w.tasks = own[c].tasks /\ w.added = own[c].added /\ w.removed \subseteq found[c]
      /\ w.dropped = own[c].dropped /\ w.shared = own[c].shared
  BY <1>2, OwnsRemoved DEF Fits
<1>4. IsOwned(w)
  BY <1>2, OwnsRemoved DEF Fits
<1>5. Flow(tasks, job[c], "drop", {}, w)
  BY <1>1, <1>2, <1>3 DEF Fits, Flow, Steps, LeaveSteps, WriteSteps
<1>6. Covered(tasks, job[c], "drop", w)
  BY <1>1, <1>2, <1>3 DEF Fits, Covered
<1>7. Fits(groups, members, tasks, job[c], "drop", {}, w)
  BY <1>2, <1>3, <1>4, <1>5, <1>6 DEF Fits, Cleared
<1>8. ASSUME NEW d \in Connections \ {c} PROVE Excludes(w, own[d])
  <2>1. found[c] \cap own[d].removed = {}
    BY <1>1 DEF Write, Granted, WaitsFor
  <2> QED
    BY <1>3, <2>1, Apart DEF Excludes
<1> QED
  BY <1>1, <1>7, <1>8, WriteKeeps

LEMMA DeleteGroupKeeps == ASSUME Inv, NEW c \in Connections, DeleteGroup(c) PROVE Inv'
<1> DEFINE gone == found[c] \cap groups
           next == IF gone = {} THEN "commit" ELSE "cascade"
           w == [own[c] EXCEPT !.dropped = gone]
<1>1. pc[c] = "dropping" /\ Write(c, w, next)
  BY DEF DeleteGroup
<1>2. Fits(groups, members, tasks, job[c], pc[c], found[c], own[c])
  BY DEF Inv
<1>3. /\ w.tasks = own[c].tasks /\ w.added = own[c].added /\ w.removed = own[c].removed
      /\ w.dropped = gone /\ w.shared = own[c].shared
  BY <1>2, OwnsDropped DEF Fits
<1>4. w.shared = {} /\ w.added = {} /\ gone \subseteq {job[c].group}
  BY <1>1, <1>2, <1>3 DEF Fits, Flow, LeaveSteps
<1>5. IsOwned(w)
  BY <1>2, OwnsDropped DEF Fits
<1>6. Flow(tasks, job[c], next, {}, w)
  BY <1>1, <1>2, <1>3, <1>4 DEF Fits, Flow, Steps, LeaveSteps, WriteSteps
<1>7. Covered(tasks, job[c], next, w)
  BY <1>1, <1>2, <1>3 DEF Fits, Covered
<1>8. Fits(groups, members, tasks, job[c], next, {}, w)
  BY <1>2, <1>3, <1>4, <1>5, <1>6, <1>7 DEF Fits, Cleared
<1>9. ASSUME NEW d \in Connections \ {c} PROVE Excludes(w, own[d])
  <2>1. found[c] \cap (own[d].shared \cup own[d].dropped) = {}
    BY <1>1 DEF Write, Granted, WaitsFor
  <2> QED
    BY <1>3, <1>4, <2>1, Apart DEF Excludes
<1> QED
  BY <1>1, <1>8, <1>9, WriteKeeps

\* What a transaction sees of the tasks.
LEMMA TasksSeen ==
    ASSUME Inv, NEW c \in Connections
    PROVE  /\ IsPlain(Tasks(c))
           /\ DOMAIN Tasks(c) = DOMAIN tasks \cup DOMAIN own[c].tasks
           /\ \A t \in DOMAIN own[c].tasks : Tasks(c)[t] = own[c].tasks[t]
           /\ \A t \in DOMAIN tasks \ DOMAIN own[c].tasks : Tasks(c)[t] = tasks[t]
<1>1. IsPlain(tasks) /\ IsPlain(own[c].tasks)
  BY DEF Inv, Sound, Fits, IsOwned
<1> QED
  BY <1>1 DEF IsPlain, Tasks

LEMMA CascadeKeeps == ASSUME Inv, NEW c \in Connections, Cascade(c) PROVE Inv'
<1> DEFINE g == job[c].group
           T == Tasks(c)
           rows == [t \in DOMAIN own[c].tasks \cup TasksIn(T, g) |-> ClearGroup(T, g)[t]]
           pairs == PairsOf(c) \cap members
           w == [own[c] EXCEPT !.removed = @ \cup pairs, !.tasks = rows]
<1>1. pc[c] = "cascade" /\ Write(c, w, "commit")
  BY DEF Cascade
<1>2. Fits(groups, members, tasks, job[c], pc[c], found[c], own[c])
  BY DEF Inv
<1>3. /\ IsPlain(T)
      /\ DOMAIN T = DOMAIN tasks \cup DOMAIN own[c].tasks
      /\ \A t \in DOMAIN own[c].tasks : T[t] = own[c].tasks[t]
      /\ \A t \in DOMAIN tasks \ DOMAIN own[c].tasks : T[t] = tasks[t]
  BY TasksSeen
<1> HIDE DEF T
<1>4. \A t \in DOMAIN rows :
         /\ t \in DOMAIN T
         /\ rows[t] \in PlainTask
         /\ rows[t].group = NULL \/ (rows[t].group = T[t].group /\ T[t].group # g)
  BY <1>3 DEF TasksIn, ClearGroup, IsPlain, PlainTask
<1>5. IsPlain(rows)
  BY <1>3, <1>4 DEF IsPlain
<1>6. /\ IsOwned(w)
      /\ w.tasks = rows /\ w.added = own[c].added
      /\ w.removed = own[c].removed \cup pairs
      /\ w.dropped = own[c].dropped /\ w.shared = own[c].shared
  <2> HIDE DEF rows, pairs
  <2> QED
    BY <1>2, <1>5 DEF Fits, IsOwned
<1>7. w.shared = {} /\ w.added = {} /\ w.dropped \subseteq {g} /\ w.dropped \subseteq GroupIds
  BY <1>1, <1>2, <1>6 DEF Fits, Flow, LeaveSteps, Inv, Sound
<1>8. Flow(tasks, job[c], "commit", {}, w)
  BY <1>1, <1>2, <1>6, <1>7 DEF Fits, Flow, Steps, LeaveSteps, WriteSteps
<1>9. Covered(tasks, job[c], "commit", w)
  <2>1. ASSUME NEW t \in DOMAIN rows, rows[t].group # NULL
        PROVE  t \in DOMAIN own[c].tasks /\ rows[t].group = own[c].tasks[t].group
    BY <1>3, <1>4, <2>1 DEF TasksIn
  <2>2. Covered(tasks, job[c], "cascade", own[c])
    BY <1>1, <1>2 DEF Fits
  <2> QED
    BY <1>6, <1>7, <2>1, <2>2 DEF Covered
<1>10. Cleared(members, tasks, "commit", w)
  <2>1. ASSUME NEW m \in members, m[2] \in w.dropped PROVE m \in w.removed
    BY <1>6, <1>7, <2>1 DEF Inv, Sound, PairsOf
  <2>2. ASSUME NEW t \in DOMAIN tasks, tasks[t].group \in w.dropped PROVE t \in DOMAIN w.tasks
    BY <1>3, <1>6, <1>7, <2>2 DEF TasksIn
  <2>3. ASSUME NEW t \in DOMAIN w.tasks PROVE w.tasks[t].group \notin w.dropped
    <3>1. w.tasks[t].group = NULL \/ w.tasks[t].group # g
      BY <1>4, <1>6
    <3> QED
      BY <1>7, <3>1, NullAssumption
  <2> QED
    BY <2>1, <2>2, <2>3 DEF Cleared
<1>11. Fits(groups, members, tasks, job[c], "commit", {}, w)
  BY <1>2, <1>6, <1>8, <1>9, <1>10 DEF Fits
<1>12. ASSUME NEW d \in Connections \ {c} PROVE Excludes(w, own[d])
  <2>1. /\ PairsOf(c) \cap own[d].removed = {}
        /\ TasksIn(tasks, g) \cap DOMAIN own[d].tasks = {}
    BY <1>1 DEF Write, Granted, WaitsFor
  <2>2. DOMAIN rows \subseteq DOMAIN own[c].tasks \cup TasksIn(tasks, g)
    BY <1>3 DEF TasksIn
  <2> QED
    BY <1>6, <2>1, <2>2, Apart DEF Excludes
<1> QED
  BY <1>1, <1>11, <1>12, WriteKeeps DEF T

-----------------------------------------------------------------------------
(* create_task and update_task                                             *)

\* A step of a writer that finds nothing it will delete.
LEMMA WriterFindKeeps ==
    ASSUME Inv, NEW c \in Connections, NEW rows, NEW next \in WriteSteps,
           pc[c] \in WriteSteps, Find(c, rows, next),
           next \in {"assign", "assigning"} => job[c].task \in DOMAIN tasks
    PROVE  Inv'
<1>1. Fits(groups, members, tasks, job[c], pc[c], found[c], own[c])
  BY DEF Inv
<1>2. Flow(tasks, job[c], next, rows, own[c])
  BY <1>1 DEF Fits, Flow, Steps, LeaveSteps, WriteSteps
<1>3. Covered(tasks, job[c], next, own[c])
  BY <1>1 DEF Fits, Covered, WriteSteps
<1>4. Fits(groups, members, tasks, job[c], next, rows, own[c])
  BY <1>1, <1>2, <1>3 DEF Fits, Cleared, WriteSteps
<1> QED
  BY <1>4, FindKeeps

LEMMA ValidateKeeps == ASSUME Inv, NEW c \in Connections, Validate(c) PROVE Inv'
BY RollbackKeeps, WriterFindKeeps DEF Validate, WriteSteps

LEMMA ReadTaskKeeps == ASSUME Inv, NEW c \in Connections, ReadTask(c) PROVE Inv'
BY RollbackKeeps, WriterFindKeeps DEF ReadTask, WriteSteps

LEMMA FindTaskKeeps == ASSUME Inv, NEW c \in Connections, FindTask(c) PROVE Inv'
<1>1. pc[c] = "assign" => job[c].task \in DOMAIN tasks
  BY DEF Inv, Fits, Flow
<1> QED
  BY <1>1, RollbackKeeps, WriterFindKeeps DEF FindTask, WriteSteps

\* A writer puts the row of task t, whose group is g, and has the foreign key
\* checked unless the row has no group, or had it before.
LEMMA PutKeeps ==
    ASSUME Inv, NEW c \in Connections, NEW t \in TaskIds, NEW row \in PlainTask, NEW next,
           pc[c] \in WriteSteps,
           Write(c, [own[c] EXCEPT !.tasks = Put(own[c].tasks, t, row)], next),
           \/ next = "reference" /\ row.group = job[c].group
           \/ next = "commit" /\ (row.group = NULL \/
                                    (t \in DOMAIN tasks /\ row.group = tasks[t].group)),
           \A d \in Connections \ {c} : t \notin DOMAIN own[d].tasks
    PROVE  Inv'
<1> DEFINE rows == Put(own[c].tasks, t, row)
           w == [own[c] EXCEPT !.tasks = rows]
<1>1. Fits(groups, members, tasks, job[c], pc[c], found[c], own[c])
  BY DEF Inv
<1>2. /\ DOMAIN rows = DOMAIN own[c].tasks \cup {t}
      /\ rows[t] = row
      /\ \A s \in DOMAIN own[c].tasks \ {t} : rows[s] = own[c].tasks[s]
  BY DEF Put
<1>3. IsPlain(rows)
  BY <1>1 DEF Fits, IsOwned, IsPlain, Put
<1> HIDE DEF rows
<1>4. /\ IsOwned(w)
      /\ w.tasks = rows /\ w.added = own[c].added /\ w.removed = own[c].removed
      /\ w.dropped = own[c].dropped /\ w.shared = own[c].shared
  BY <1>1, <1>3, OwnsTasks DEF Fits
<1>5. w.dropped = {} /\ w.shared = {}
  BY <1>1, <1>4 DEF Fits, Flow, WriteSteps
<1>6. Flow(tasks, job[c], next, {}, w)
  BY <1>1, <1>4, <1>5 DEF Fits, Flow, Steps, LeaveSteps, WriteSteps
<1>7. Covered(tasks, job[c], next, w)
  BY <1>1, <1>2, <1>4 DEF Fits, Covered, WriteSteps
<1>8. Fits(groups, members, tasks, job[c], next, {}, w)
  BY <1>4, <1>5, <1>6, <1>7 DEF Fits, Cleared
<1>9. ASSUME NEW d \in Connections \ {c} PROVE Excludes(w, own[d])
  BY <1>2, <1>4, Apart DEF Excludes
<1> QED
  BY <1>8, <1>9, WriteKeeps DEF rows

LEMMA InsertTaskKeeps ==
    ASSUME Inv, NEW c \in Connections, NEW t \in TaskIds, InsertTask(c, t)
    PROVE  Inv'
<1> DEFINE row == NewTask(job[c].responsible, job[c].group)
<1>1. pc[c] = "insert" /\ job[c] \in Job /\ job[c].responsible \in Users
  BY DEF InsertTask, Inv, Fits, Flow, WriteSteps
<1>2. row \in PlainTask /\ row.group = job[c].group
  BY <1>1 DEF NewTask, PlainTask, Job
<1>3. \A d \in Connections \ {c} : t \notin DOMAIN own[d].tasks
  BY DEF InsertTask, UnusedTask
<1> QED
  BY <1>1, <1>2, <1>3, PutKeeps DEF InsertTask, WriteSteps

LEMMA AssignTaskKeeps == ASSUME Inv, NEW c \in Connections, AssignTask(c) PROVE Inv'
<1> DEFINE t == job[c].task
           g == job[c].group
           row == Reassign(tasks, t, job[c].responsible, g)[t]
           next == IF g \in {NULL, tasks[t].group} THEN "commit" ELSE "reference"
<1>1. CASE Fail(c)
  BY <1>1, RollbackKeeps DEF Fail
<1>2. CASE Write(c, [own[c] EXCEPT !.tasks = Put(own[c].tasks, t, row)], next)
  <2>1. /\ pc[c] = "assigning" /\ job[c] \in Job /\ job[c].responsible \in Users
        /\ t \in DOMAIN tasks /\ IsPlain(tasks)
    BY DEF AssignTask, Inv, Sound, Fits, Flow, WriteSteps
  <2>2. row \in PlainTask /\ row.group = g /\ t \in TaskIds
    <3>1. tasks[t] \in PlainTask /\ t \in TaskIds
      BY <2>1 DEF IsPlain
    <3>2. row = [tasks[t] EXCEPT !.responsible = job[c].responsible, !.group = g]
      BY <2>1, <3>1 DEF Reassign, IsPlain, PlainTask
    <3>3. g \in GroupIds \cup {NULL}
      BY <2>1 DEF Job
    <3> HIDE DEF row
    <3> QED
      BY <2>1, <3>1, <3>2, <3>3 DEF PlainTask
  <2>3. \A d \in Connections \ {c} : t \notin DOMAIN own[d].tasks
    BY <1>2, <2>1 DEF Write, Granted, WaitsFor
  <2> HIDE DEF row
  <2> QED
    BY <1>2, <2>1, <2>2, <2>3, PutKeeps DEF WriteSteps
<1> QED
  BY <1>1, <1>2 DEF AssignTask

-----------------------------------------------------------------------------
(* The beginning and the end of a transaction                              *)

LEMMA BeginKeeps ==
    ASSUME Inv, NEW c \in Connections, NEW request \in Requests, Begin(c, request)
    PROVE  Inv'
<1>1. pc[c] = "idle" /\ own[c] = Nothing /\ IsPlain(tasks)
  BY DEF Begin, Inv, Sound, Fits, Flow
<1>2. /\ request \in Job
      /\ request.op \in {"create", "update"} => request.responsible \in Users
  BY <1>1 DEF Requests, Request, Job, Ops, IsPlain
<1> DEFINE next == FirstStep(request.op)
<1>3. next \in {"find", "unset"} \/ (next = "validate" /\ request.responsible \in Users)
  BY <1>2 DEF FirstStep, Job, Ops
<1>4. Flow(tasks, request, next, found[c], Nothing)
  BY <1>2, <1>3, JobAssumption DEF Flow, Nothing, Steps, LeaveSteps, WriteSteps
<1>5. Fits(groups, members, tasks, NULL, "idle", {}, Nothing)
  BY NothingFits
<1>6. Covered(tasks, request, next, Nothing)
  BY DEF Covered, Nothing
<1>7. Fits(groups, members, tasks, request, next, found[c], Nothing)
  BY <1>3, <1>4, <1>5, <1>6 DEF Fits, Cleared
<1>8. found' = [found EXCEPT ![c] = found[c]] /\ own' = [own EXCEPT ![c] = Nothing]
  BY <1>1 DEF Begin, Inv
<1> QED
  BY <1>7, <1>8, StepKeeps, NothingExcludes DEF Begin, Go

LEMMA CreateGroupKeeps ==
    ASSUME Inv, NEW u \in Users, NEW g \in GroupIds, CreateGroup(u, g)
    PROVE  Inv'
<1>1. Sound(groups', members', tasks')
  BY DEF CreateGroup, Inv, Sound
<1>2. ASSUME NEW c \in Connections
      PROVE  Fits(groups', members', tasks', job'[c], pc'[c], found'[c], own'[c])
  <2>1. Fits(groups, members, tasks, job[c], pc[c], found[c], own[c]) /\ g \notin own[c].dropped
    BY DEF Inv, Fits, CreateGroup, UnusedGroup
  <2>2. Cleared(members', tasks', pc'[c], own'[c])
    BY <2>1 DEF Fits, Cleared, CreateGroup
  <2> QED
    BY <2>1, <2>2 DEF Fits, CreateGroup
<1> QED
  BY <1>1, <1>2 DEF Inv, CreateGroup

LEMMA CommitKeeps == ASSUME Inv, NEW c \in Connections, Commit(c) PROVE Inv'
<1> DEFINE o == own[c]
<1>1. /\ pc[c] = "commit"
      /\ Fits(groups, members, tasks, job[c], "commit", found[c], o)
      /\ Sound(groups, members, tasks)
  BY DEF Commit, Inv
<1>2. /\ groups' = groups \ o.dropped
      /\ members' = (members \cup o.added) \ o.removed
      /\ tasks' = Tasks(c)
  BY DEF Commit, Members
<1>3. /\ IsPlain(tasks')
      /\ DOMAIN tasks' = DOMAIN tasks \cup DOMAIN o.tasks
      /\ \A t \in DOMAIN o.tasks : tasks'[t] = o.tasks[t]
      /\ \A t \in DOMAIN tasks \ DOMAIN o.tasks : tasks'[t] = tasks[t]
  BY <1>2, TasksSeen
<1>4. Flow(tasks, job[c], "commit", found[c], o) /\ Covered(tasks, job[c], "commit", o)
      /\ Cleared(members, tasks, "commit", o) /\ IsOwned(o)
  BY <1>1 DEF Fits
<1>5. o.shared \subseteq groups /\ (o.dropped # {} => o.added = {})
  BY <1>1, <1>4 DEF Fits, Flow
<1>6. Sound(groups', members', tasks')
  <2>1. groups' \subseteq GroupIds /\ members' \subseteq Users \X GroupIds
    BY <1>1, <1>2, <1>4 DEF Sound, IsOwned
  <2>2. ASSUME NEW m \in members' PROVE m[2] \in groups'
    BY <1>1, <1>2, <1>4, <1>5 DEF Sound, Covered, Cleared
  <2>3. ASSUME NEW t \in DOMAIN tasks' PROVE tasks'[t].group \in groups' \cup {NULL}
    <3>1. CASE t \in DOMAIN o.tasks
      BY <1>1, <1>2, <1>3, <1>4, <1>5, <3>1 DEF Sound, Covered, Cleared
    <3>2. CASE t \notin DOMAIN o.tasks
      BY <1>1, <1>2, <1>3, <1>4, <3>2 DEF Sound, Cleared
    <3> QED
      BY <3>1, <3>2
  <2> QED
    BY <1>3, <2>1, <2>2, <2>3 DEF Sound
<1>7. ASSUME NEW d \in Connections \ {c}
      PROVE  Fits(groups', members', tasks', job[d], pc[d], found[d], own[d])
  <2> DEFINE q == own[d]
  <2>1. Fits(groups, members, tasks, job[d], pc[d], found[d], q) /\ Excludes(o, q)
    BY Apart DEF Inv
  <2>2. q.shared \subseteq groups' /\ q.dropped \subseteq groups'
    BY <1>2, <2>1 DEF Fits, Excludes
  <2>3. Flow(tasks', job[d], pc[d], found[d], q)
    BY <1>3, <2>1 DEF Fits, Flow
  <2>4. Covered(tasks', job[d], pc[d], q)
    BY <1>3, <2>1 DEF Fits, Covered, Excludes
  <2>5. Cleared(members', tasks', pc[d], q)
    <3> SUFFICES ASSUME pc[d] = "commit" PROVE Cleared(members', tasks', "commit", q)
      BY DEF Cleared
    <3>1. Cleared(members, tasks, "commit", q)
      BY <2>1 DEF Fits
    <3>2. ASSUME NEW m \in members', m[2] \in q.dropped PROVE m \in q.removed
      BY <1>2, <1>4, <2>1, <3>1, <3>2 DEF Covered, Cleared, Excludes
    <3>3. ASSUME NEW t \in DOMAIN tasks', tasks'[t].group \in q.dropped
          PROVE  t \in DOMAIN q.tasks
      <4>1. tasks'[t].group # NULL
        BY <2>1, <3>3, <1>1, NullAssumption DEF Fits, Sound
      <4> QED
        BY <1>3, <1>4, <2>1, <3>1, <3>3, <4>1 DEF Covered, Cleared, Excludes
    <3>4. \A t \in DOMAIN q.tasks : q.tasks[t].group \notin q.dropped
      BY <3>1 DEF Cleared
    <3> QED
      BY <3>2, <3>3, <3>4 DEF Cleared
  <2> QED
    BY <2>1, <2>2, <2>3, <2>4, <2>5 DEF Fits
<1>8. ASSUME NEW d \in Connections
      PROVE  Fits(groups', members', tasks', job'[d], pc'[d], found'[d], own'[d])
  BY <1>7, NothingFits DEF Inv, Commit, Release, Go
<1>9. ASSUME NEW d \in Connections, NEW e \in Connections, d # e
      PROVE  Excludes(own'[d], own'[e])
  BY <1>9, NothingExcludes DEF Inv, Commit, Release
<1> QED
  BY <1>6, <1>8, <1>9 DEF Inv, Commit, Release, Go

-----------------------------------------------------------------------------
(* Theorems                                                                *)

LEMMA StepsKeep == ASSUME Inv, NEW c \in Connections, Step(c) PROVE Inv'
<1>1. CASE FindTasks(c) \/ FindMember(c) \/ FindGroup(c)
  BY <1>1, LeaveFindKeeps DEF FindTasks, FindMember, FindGroup, LeaveSteps
<1> QED
  BY <1>1, GetGroupKeeps, JoinKeeps, CheckReferenceKeeps, UnsetTasksKeeps, RemoveMemberKeeps,
     DeleteGroupKeeps, CascadeKeeps, ValidateKeeps, InsertTaskKeeps, ReadTaskKeeps,
     FindTaskKeeps, AssignTaskKeeps, CommitKeeps
  DEF Step

LEMMA NextInv == Inv /\ [Next]_vars => Inv'
<1> SUFFICES ASSUME Inv, [Next]_vars PROVE Inv'
  OBVIOUS
<1>1. ASSUME NEW u \in Users, NEW g \in GroupIds, CreateGroup(u, g) PROVE Inv'
  BY <1>1, CreateGroupKeeps
<1>2. ASSUME NEW c \in Connections, NEW request \in Requests, Begin(c, request) PROVE Inv'
  BY <1>2, BeginKeeps
<1>3. ASSUME NEW c \in Connections, Step(c) PROVE Inv'
  BY <1>3, StepsKeep
<1>4. ASSUME NEW c \in Connections, Abort(c) \/ BreakDeadlock(c) PROVE Inv'
  BY <1>4, RollbackKeeps DEF Abort, BreakDeadlock
<1>5. CASE UNCHANGED vars
  BY <1>5 DEF vars, tables, Inv
<1> QED
  BY <1>1, <1>2, <1>3, <1>4, <1>5 DEF Next

LEMMA InvHolds == Spec => []Inv
BY InitInv, NextInv, PTL DEF Spec

\* Whatever overlaps, no committed row refers to a group that is gone.
THEOREM ReferencesHold == Spec => []References
<1>1. Inv => References
  BY DEF Inv, Sound, IsPlain, PlainTask, References, Serial!References, NoRecurrences
<1> QED
  BY <1>1, InvHolds, PTL

\* The tables are well typed, no lock outlives its transaction, and no two
\* connections hold locks that exclude each other.
THEOREM TypeCorrect == Spec => []TypeOK
<1>1. Inv => Serial!TypeOK
  BY DEF Inv, Sound, IsPlain, PlainTask, Serial!TypeOK, Serial!IsTaskTable, Serial!Task,
     Serial!IsRecurrenceTable, NoRecurrences
<1>2. Inv => job \in [Connections -> Job \cup {NULL}]
  BY DEF Inv, Fits, Flow
<1>3. Inv => \A c \in Connections : /\ pc[c] = "idle" <=> job[c] = NULL
                                    /\ pc[c] = "idle" => own[c] = Nothing
  BY DEF Inv, Fits, Flow
<1>4. Inv => TypeOK
  BY <1>1, <1>2, <1>3, Apart DEF TypeOK, Excludes
<1> QED
  BY <1>4, InvHolds, PTL

-----------------------------------------------------------------------------
(* Who leaves a group while others write: the second invariant.  What a    *)
(* connection may own is told by its request; the rest holds as long as    *)
(* the assumption of the property does.                                    *)

\* What each kind of transaction may own at which step.
Joins(j, p, o) ==
    /\ j.op = "join"
    /\ p \in {"find", "join", "reference", "commit"}
    /\ DOMAIN o.tasks = {} /\ o.removed = {} /\ o.dropped = {}

Leaves(j, p, f, o) ==
    /\ j.op = "leave" /\ j.group \in GroupIds
    /\ p \in LeaveSteps \cup {"commit"}
    /\ o.added = {}
    /\ \A t \in DOMAIN o.tasks : o.tasks[t].group = NULL
    /\ o.removed \subseteq IF o.dropped = {} THEN {<<j.user, j.group>>} ELSE Users \X {j.group}
    /\ p \in {"unset", "unsetting", "remove", "removing"} => o.removed = {}
    /\ p \in {"unset", "unsetting"} => DOMAIN o.tasks = {}
    /\ p = "cascade" => o.dropped # {}
    /\ p = "removing" => f \subseteq {<<j.user, j.group>>}

Writes(j, p, o) ==
    /\ j.op \in {"create", "update"}
    /\ p \in WriteSteps \cup {"reference", "commit"}
    /\ o.added = {} /\ o.removed = {} /\ o.dropped = {}
    /\ \A t \in DOMAIN o.tasks :
          o.tasks[t].responsible = j.responsible /\ o.tasks[t].group = j.group

Plays(j, p, f, o) == p # "idle" => Joins(j, p, o) \/ Leaves(j, p, f, o) \/ Writes(j, p, o)

\* The membership that a writer has validated is still there, unless the
\* group is gone; and no task that a leave has to release has escaped it.
Validated(G, M, j, p) ==
    j.op \in {"create", "update"} /\ p # "validate" /\ j.group \in G =>
        <<j.responsible, j.group>> \in M

Owed(T, j) == {t \in DOMAIN T : T[t].group = j.group /\ T[t].responsible = j.user}

Released(T, j, p, f, o) ==
    j.op = "leave" =>
        /\ p = "unsetting" => Owed(T, j) \subseteq f
        /\ p \notin {"unset", "unsetting"} => Owed(T, j) \subseteq DOMAIN o.tasks

Keeps(G, M, T, j, p, f, o) ==
    p # "idle" => Validated(G, M, j, p) /\ Released(T, j, p, f, o)

\* A leave that does not delete its group leaves a member in it.
Stays(G, M, j, p, f, o) ==
    p # "idle" /\ j.op = "leave" /\ j.group \in G
        /\ ((p = "dropping" /\ f = {}) \/ (p = "commit" /\ o.dropped = {})) =>
           \E u \in Users : <<u, j.group>> \in M \ o.removed

\* What a step of connection c makes of these.
Continues(c) ==
    /\ Plays(job'[c], pc'[c], found'[c], own'[c])
    /\ Keeps(groups, members, tasks, job[c], pc[c], found[c], own[c]) =>
          Keeps(groups, members, tasks, job'[c], pc'[c], found'[c], own'[c])
    /\ Stays(groups, members, job[c], pc[c], found[c], own[c]) =>
          Stays(groups, members, job'[c], pc'[c], found'[c], own'[c])

LEMMA RollbackContinues ==
    ASSUME Inv, NEW c \in Connections, Rollback(c)
    PROVE  Continues(c)
<1>1. pc'[c] = "idle"
  BY DEF Inv, Rollback, Release, Go
<1> QED
  BY <1>1 DEF Continues, Plays, Keeps, Stays

LEMMA FindMoves ==
    ASSUME Inv, NEW c \in Connections, NEW rows, NEW next, Find(c, rows, next)
    PROVE  job'[c] = job[c] /\ pc'[c] = next /\ found'[c] = rows /\ own'[c] = own[c]
BY DEF Inv, Find, Go

LEMMA WriteMoves ==
    ASSUME Inv, NEW c \in Connections, NEW w, NEW next, Write(c, w, next)
    PROVE  job'[c] = job[c] /\ pc'[c] = next /\ found'[c] = {} /\ own'[c] = w
BY DEF Inv, Write, Go

\* Which kind of transaction takes which step.
LEMMA PlaysJoin ==
    ASSUME NEW j, NEW p \in {"find", "join"}, NEW f, NEW o, Plays(j, p, f, o)
    PROVE  Joins(j, p, o)
BY DEF Plays, Leaves, LeaveSteps, Writes, WriteSteps

LEMMA PlaysLeave ==
    ASSUME NEW j, NEW p \in LeaveSteps, NEW f, NEW o, Plays(j, p, f, o)
    PROVE  Leaves(j, p, f, o)
BY DEF Plays, Joins, LeaveSteps, Writes, WriteSteps

LEMMA PlaysWrite ==
    ASSUME NEW j, NEW p \in WriteSteps, NEW f, NEW o, Plays(j, p, f, o)
    PROVE  Writes(j, p, o)
BY DEF Plays, Joins, LeaveSteps, Leaves, WriteSteps

-----------------------------------------------------------------------------
LEMMA GetGroupContinues ==
    ASSUME Inv, NEW c \in Connections, GetGroup(c),
           Plays(job[c], pc[c], found[c], own[c])
    PROVE  Continues(c)
<1>1. Joins(job[c], "find", own[c])
  BY PlaysJoin DEF GetGroup
<1>2. CASE Find(c, {}, "join")
  BY <1>1, <1>2, FindMoves DEF Continues, Plays, Keeps, Stays, Joins, Validated, Released
<1> QED
  BY <1>2, RollbackContinues DEF GetGroup

LEMMA JoinContinues ==
    ASSUME Inv, NEW c \in Connections, Join(c),
           Plays(job[c], pc[c], found[c], own[c])
    PROVE  Continues(c)
<1>1. Joins(job[c], "join", own[c]) /\ IsOwned(own[c])
  BY PlaysJoin DEF Join, Inv, Fits
<1>2. CASE Write(c, [own[c] EXCEPT !.added = {Pair(c)}], "reference")
  <2>1. Joins(job[c], "reference", [own[c] EXCEPT !.added = {Pair(c)}])
    BY <1>1 DEF Joins, IsOwned
  <2> QED
    BY <1>2, <2>1, WriteMoves DEF Continues, Plays, Keeps, Stays, Joins, Validated, Released
<1> QED
  BY <1>2, RollbackContinues DEF Join, Fail

LEMMA CheckReferenceContinues ==
    ASSUME Inv, NEW c \in Connections, CheckReference(c),
           Plays(job[c], pc[c], found[c], own[c])
    PROVE  Continues(c)
<1> DEFINE w == [own[c] EXCEPT !.shared = {job[c].group}]
<1>1. pc[c] = "reference" /\ IsOwned(own[c])
  BY DEF CheckReference, Inv, Fits
<1>2. /\ w.tasks = own[c].tasks /\ w.added = own[c].added
      /\ w.removed = own[c].removed /\ w.dropped = own[c].dropped
  BY <1>1 DEF IsOwned
<1>3. Joins(job[c], "reference", own[c]) \/ Writes(job[c], "reference", own[c])
  BY <1>1 DEF Plays, Leaves, LeaveSteps
<1> HIDE DEF w
<1>4. CASE Write(c, w, "commit")
  <2>1. Joins(job[c], "commit", w) \/ Writes(job[c], "commit", w)
    BY <1>2, <1>3 DEF Joins, Writes
  <2>2. job[c].op # "leave"
    BY <2>1 DEF Joins, Writes
  <2> QED
    BY <1>1, <1>4, <2>1, <2>2, WriteMoves DEF Continues, Plays, Keeps, Stays, Validated, Released
<1> QED
  BY <1>4, RollbackContinues DEF CheckReference, Fail, w

-----------------------------------------------------------------------------
LEMMA FindTasksContinues ==
    ASSUME Inv, NEW c \in Connections, FindTasks(c),
           Plays(job[c], pc[c], found[c], own[c])
    PROVE  Continues(c)
<1>1. Leaves(job[c], "unset", found[c], own[c])
  BY PlaysLeave DEF FindTasks, LeaveSteps
<1>2. Owed(tasks, job[c]) \subseteq ToRelease(c, Tasks(c))
  BY <1>1 DEF Leaves, Owed, ToRelease, TasksIn, Tasks
<1>3. job'[c] = job[c] /\ pc'[c] = "unsetting" /\ found'[c] = ToRelease(c, Tasks(c))
      /\ own'[c] = own[c]
  BY FindMoves DEF FindTasks
<1>4. Leaves(job[c], "unsetting", found'[c], own[c])
  BY <1>1 DEF Leaves, LeaveSteps
<1> QED
  BY <1>1, <1>2, <1>3, <1>4 DEF Continues, Plays, Keeps, Stays, Leaves, Validated, Released

LEMMA UnsetTasksContinues ==
    ASSUME Inv, NEW c \in Connections, UnsetTasks(c),
           Plays(job[c], pc[c], found[c], own[c])
    PROVE  Continues(c)
<1> DEFINE T == UnsetGroup(tasks, job[c].user, job[c].group)
           rows == [t \in found[c] \cap ToRelease(c, tasks) |-> T[t]]
           w == [own[c] EXCEPT !.tasks = rows]
<1>1. Leaves(job[c], "unsetting", found[c], own[c]) /\ pc[c] = "unsetting"
  BY PlaysLeave DEF UnsetTasks, LeaveSteps
<1>2. IsPlain(tasks) /\ IsOwned(own[c])
  BY DEF Inv, Sound, Fits
<1>3. \A t \in DOMAIN rows : rows[t].group = NULL
  BY <1>2 DEF ToRelease, TasksIn, UnsetGroup, IsPlain, PlainTask
<1>4. DOMAIN rows = found[c] \cap Owed(tasks, job[c])
  BY DEF ToRelease, TasksIn, Owed
<1> HIDE DEF rows
<1>5. /\ w.tasks = rows /\ w.added = own[c].added
      /\ w.removed = own[c].removed /\ w.dropped = own[c].dropped
  BY <1>2 DEF IsOwned
<1> HIDE DEF w
<1>6. job'[c] = job[c] /\ pc'[c] = "remove" /\ found'[c] = {} /\ own'[c] = w
  BY WriteMoves DEF UnsetTasks, w, rows
<1>7. Leaves(job[c], "remove", {}, w)
  BY <1>1, <1>3, <1>5 DEF Leaves, LeaveSteps
<1> QED
  BY <1>1, <1>4, <1>5, <1>6, <1>7 DEF Continues, Plays, Keeps, Stays, Leaves, Validated, Released

\* A step of a leave after its tasks are released, which writes no task.
LEMMA LeaveContinues ==
    ASSUME NEW c \in Connections, Plays(job[c], pc[c], found[c], own[c]),
           pc[c] \in {"remove", "removing", "drop", "dropping", "cascade"},
           job'[c] = job[c], pc'[c] \in LeaveSteps \cup {"commit"},
           Leaves(job[c], pc'[c], found'[c], own'[c]),
           DOMAIN own[c].tasks \subseteq DOMAIN own'[c].tasks,
           pc'[c] \notin {"idle", "unset", "unsetting"},
           Stays(groups, members, job[c], pc[c], found[c], own[c]) =>
               Stays(groups, members, job[c], pc'[c], found'[c], own'[c])
    PROVE  Continues(c)
<1>1. job[c].op = "leave"
  BY PlaysLeave DEF Leaves
<1> QED
  BY <1>1 DEF Continues, Plays, Keeps, Validated, Released

LEMMA FindMemberContinues ==
    ASSUME Inv, NEW c \in Connections, FindMember(c),
           Plays(job[c], pc[c], found[c], own[c])
    PROVE  Continues(c)
<1>1. Leaves(job[c], "remove", found[c], own[c]) /\ pc[c] = "remove"
  BY PlaysLeave DEF FindMember, LeaveSteps
<1>2. job'[c] = job[c] /\ pc'[c] = "removing" /\ found'[c] = {Pair(c)} \cap members
      /\ own'[c] = own[c]
  BY FindMoves DEF FindMember
<1>3. Leaves(job[c], "removing", found'[c], own[c])
  BY <1>1, <1>2 DEF Leaves, LeaveSteps, Pair
<1> QED
  BY <1>1, <1>2, <1>3, LeaveContinues DEF Stays, LeaveSteps

LEMMA RemoveMemberContinues ==
    ASSUME Inv, NEW c \in Connections, RemoveMember(c),
           Plays(job[c], pc[c], found[c], own[c])
    PROVE  Continues(c)
<1> DEFINE w == [own[c] EXCEPT !.removed = found[c] \cap members]
<1>1. Leaves(job[c], "removing", found[c], own[c]) /\ pc[c] = "removing" /\ IsOwned(own[c])
  BY PlaysLeave DEF RemoveMember, LeaveSteps, Inv, Fits
<1>2. own[c].dropped = {}
  BY <1>1 DEF Inv, Fits, Flow
<1>3. /\ w.tasks = own[c].tasks /\ w.added = own[c].added
      /\ w.removed = found[c] \cap members /\ w.dropped = own[c].dropped
  BY <1>1 DEF IsOwned
<1> HIDE DEF w
<1>4. job'[c] = job[c] /\ pc'[c] = "drop" /\ found'[c] = {} /\ own'[c] = w
  BY WriteMoves DEF RemoveMember, w
<1>5. Leaves(job[c], "drop", {}, w)
  BY <1>1, <1>2, <1>3 DEF Leaves, LeaveSteps
<1> QED
  BY <1>1, <1>3, <1>4, <1>5, LeaveContinues DEF Stays, LeaveSteps

\* The group that is not empty keeps a member; the one that is, is found.
LEMMA FindGroupContinues ==
    ASSUME Inv, NEW c \in Connections, FindGroup(c),
           Plays(job[c], pc[c], found[c], own[c])
    PROVE  Continues(c)
<1> DEFINE g == job[c].group
<1>1. Leaves(job[c], "drop", found[c], own[c]) /\ pc[c] = "drop"
  BY PlaysLeave DEF FindGroup, LeaveSteps
<1>2. /\ job'[c] = job[c] /\ pc'[c] = "dropping" /\ own'[c] = own[c]
      /\ found'[c] = {h \in {g} \cap groups : IsEmptyGroup(Members(c), h)}
  BY FindMoves DEF FindGroup
<1>3. Leaves(job[c], "dropping", found'[c], own[c])
  BY <1>1 DEF Leaves, LeaveSteps
<1>4. Stays(groups, members, job[c], "dropping", found'[c], own[c])
  BY <1>1, <1>2 DEF Stays, IsEmptyGroup, Members, Leaves
<1> QED
  BY <1>1, <1>2, <1>3, <1>4, LeaveContinues DEF LeaveSteps

LEMMA DeleteGroupContinues ==
    ASSUME Inv, NEW c \in Connections, DeleteGroup(c),
           Plays(job[c], pc[c], found[c], own[c])
    PROVE  Continues(c)
<1> DEFINE gone == found[c] \cap groups
           next == IF gone = {} THEN "commit" ELSE "cascade"
           w == [own[c] EXCEPT !.dropped = gone]
<1>1. /\ Leaves(job[c], "dropping", found[c], own[c]) /\ pc[c] = "dropping"
      /\ Fits(groups, members, tasks, job[c], pc[c], found[c], own[c]) /\ IsOwned(own[c])
  BY PlaysLeave DEF DeleteGroup, LeaveSteps, Inv, Fits
<1>2. found[c] \subseteq {job[c].group} /\ own[c].dropped = {} /\ job[c] \in Job
  BY <1>1 DEF Fits, Flow
<1>3. /\ w.tasks = own[c].tasks /\ w.added = own[c].added
      /\ w.removed = own[c].removed /\ w.dropped = gone
  BY <1>1 DEF IsOwned
<1> HIDE DEF w
<1>4. job'[c] = job[c] /\ pc'[c] = next /\ found'[c] = {} /\ own'[c] = w
  BY WriteMoves DEF DeleteGroup, w
<1>5. Leaves(job[c], next, {}, w)
  BY <1>1, <1>2, <1>3 DEF Leaves, LeaveSteps, Job
<1>6. Stays(groups, members, job[c], "dropping", found[c], own[c]) =>
         Stays(groups, members, job[c], next, {}, w)
  BY <1>2, <1>3 DEF Stays
<1> QED
  BY <1>1, <1>3, <1>4, <1>5, <1>6, LeaveContinues DEF LeaveSteps

LEMMA CascadeContinues ==
    ASSUME Inv, NEW c \in Connections, Cascade(c),
           Plays(job[c], pc[c], found[c], own[c])
    PROVE  Continues(c)
<1> DEFINE g == job[c].group
           T == Tasks(c)
           rows == [t \in DOMAIN own[c].tasks \cup TasksIn(T, g) |-> ClearGroup(T, g)[t]]
           pairs == PairsOf(c) \cap members
           w == [own[c] EXCEPT !.removed = own[c].removed \cup pairs, !.tasks = rows]
<1>1. /\ Leaves(job[c], "cascade", found[c], own[c]) /\ pc[c] = "cascade"
      /\ Fits(groups, members, tasks, job[c], pc[c], found[c], own[c]) /\ IsOwned(own[c])
      /\ Sound(groups, members, tasks)
  BY PlaysLeave DEF Cascade, LeaveSteps, Inv, Fits
<1>2. /\ IsPlain(T)
      /\ \A t \in DOMAIN own[c].tasks : t \in DOMAIN T /\ T[t] = own[c].tasks[t]
  BY <1>1, TasksSeen
<1> HIDE DEF T
<1>3. \A t \in DOMAIN rows : rows[t].group = NULL
  BY <1>1, <1>2 DEF TasksIn, ClearGroup, IsPlain, PlainTask, Leaves
<1>4. DOMAIN own[c].tasks \subseteq DOMAIN rows /\ pairs \subseteq Users \X {g}
  BY DEF PairsOf
<1> HIDE DEF rows, pairs
<1>5. /\ w.tasks = rows /\ w.added = own[c].added
      /\ w.removed = own[c].removed \cup pairs /\ w.dropped = own[c].dropped
  BY <1>1 DEF IsOwned
<1> HIDE DEF w
<1>6. job'[c] = job[c] /\ pc'[c] = "commit" /\ found'[c] = {} /\ own'[c] = w
  BY WriteMoves DEF Cascade, w, rows, pairs, T
<1>7. Leaves(job[c], "commit", {}, w) /\ w.dropped # {}
  BY <1>1, <1>3, <1>4, <1>5 DEF Leaves, LeaveSteps, Inv, Sound
<1> QED
  BY <1>1, <1>4, <1>5, <1>6, <1>7, LeaveContinues DEF Stays

-----------------------------------------------------------------------------
LEMMA ValidateContinues ==
    ASSUME Inv, NEW c \in Connections, Validate(c),
           Plays(job[c], pc[c], found[c], own[c])
    PROVE  Continues(c)
<1>1. Writes(job[c], "validate", own[c])
  BY PlaysWrite DEF Validate, WriteSteps
<1> DEFINE next == IF job[c].op = "create" THEN "insert" ELSE "read"
<1>2. CASE /\ ValidAssignment(members, job[c].user, job[c].responsible, job[c].group)
           /\ Find(c, {}, next)
  <2>1. job'[c] = job[c] /\ pc'[c] = next /\ found'[c] = {} /\ own'[c] = own[c]
    BY <1>2, FindMoves
  <2>2. job[c].group \in groups => <<job[c].responsible, job[c].group>> \in members
    BY <1>2, NullAssumption DEF Inv, Sound, ValidAssignment
  <2> QED
    BY <1>1, <2>1, <2>2 DEF Continues, Plays, Keeps, Stays, Writes, WriteSteps, Validated, Released
<1> QED
  BY <1>2, RollbackContinues DEF Validate

\* A step of a writer after the membership is validated.
LEMMA WriterContinues ==
    ASSUME NEW c \in Connections, Writes(job[c], pc[c], own[c]), job'[c] = job[c],
           pc[c] \notin {"idle", "validate"}, Writes(job[c], pc'[c], own'[c])
    PROVE  Continues(c)
BY DEF Continues, Plays, Keeps, Stays, Writes, Validated, Released

LEMMA InsertTaskContinues ==
    ASSUME Inv, NEW c \in Connections, NEW t \in TaskIds, InsertTask(c, t),
           Plays(job[c], pc[c], found[c], own[c])
    PROVE  Continues(c)
<1> DEFINE row == NewTask(job[c].responsible, job[c].group)
           w == [own[c] EXCEPT !.tasks = Put(own[c].tasks, t, row)]
           next == IF job[c].group = NULL THEN "commit" ELSE "reference"
<1>1. Writes(job[c], "insert", own[c]) /\ pc[c] = "insert" /\ IsOwned(own[c])
  BY PlaysWrite DEF InsertTask, WriteSteps, Inv, Fits
<1>2. row.responsible = job[c].responsible /\ row.group = job[c].group
  BY DEF NewTask
<1> HIDE DEF row
<1>3. Writes(job[c], next, w)
  BY <1>1, <1>2 DEF Writes, IsOwned, Put
<1>4. job'[c] = job[c] /\ pc'[c] = next /\ own'[c] = w
  BY WriteMoves DEF InsertTask, row
<1> QED
  BY <1>1, <1>3, <1>4, WriterContinues

LEMMA ReadsContinue ==
    ASSUME Inv, NEW c \in Connections, ReadTask(c) \/ FindTask(c),
           Plays(job[c], pc[c], found[c], own[c])
    PROVE  Continues(c)
<1>1. Writes(job[c], pc[c], own[c]) /\ pc[c] \in {"read", "assign"}
  BY PlaysWrite DEF ReadTask, FindTask, WriteSteps
<1>2. ASSUME NEW rows, NEW next \in {"assign", "assigning"}, Find(c, rows, next)
      PROVE  Continues(c)
  <2>1. job'[c] = job[c] /\ pc'[c] = next /\ own'[c] = own[c]
    BY <1>2, FindMoves
  <2>2. Writes(job[c], next, own[c])
    BY <1>1 DEF Writes, WriteSteps
  <2> QED
    BY <1>1, <2>1, <2>2, WriterContinues
<1> QED
  BY <1>2, RollbackContinues DEF ReadTask, FindTask

LEMMA AssignTaskContinues ==
    ASSUME Inv, NEW c \in Connections, AssignTask(c),
           Plays(job[c], pc[c], found[c], own[c])
    PROVE  Continues(c)
<1> DEFINE t == job[c].task
           g == job[c].group
           row == Reassign(tasks, t, job[c].responsible, g)[t]
           next == IF g \in {NULL, tasks[t].group} THEN "commit" ELSE "reference"
           w == [own[c] EXCEPT !.tasks = Put(own[c].tasks, t, row)]
<1>1. Writes(job[c], "assigning", own[c]) /\ pc[c] = "assigning" /\ IsOwned(own[c])
  BY PlaysWrite DEF AssignTask, WriteSteps, Inv, Fits
<1>2. CASE Write(c, w, next)
  <2>1. t \in DOMAIN tasks /\ tasks[t] \in PlainTask
    BY <1>1 DEF Inv, Sound, IsPlain, Fits, Flow
  <2>2. row.responsible = job[c].responsible /\ row.group = g
    BY <2>1 DEF Reassign, PlainTask
  <2> HIDE DEF row
  <2>3. Writes(job[c], next, w)
    BY <1>1, <2>2 DEF Writes, IsOwned, Put
  <2>4. job'[c] = job[c] /\ pc'[c] = next /\ own'[c] = w
    BY <1>2, WriteMoves
  <2> QED
    BY <1>1, <2>3, <2>4, WriterContinues
<1> QED
  BY <1>2, RollbackContinues DEF AssignTask, Fail

LEMMA BeginContinues ==
    ASSUME Inv, NEW c \in Connections, NEW request \in Requests, Begin(c, request)
    PROVE  Continues(c)
<1>1. /\ own[c] = Nothing /\ request \in Job
      /\ request.op = "leave" => request.group \in GroupIds
  BY DEF Begin, Inv, Sound, Fits, Flow, Requests, Request, Job, Ops, IsPlain
<1>2. job'[c] = request /\ pc'[c] = FirstStep(request.op) /\ own'[c] = Nothing
  BY <1>1 DEF Begin, Go, Inv
<1>3. \/ request.op = "join" /\ pc'[c] = "find"
      \/ request.op = "leave" /\ pc'[c] = "unset"
      \/ request.op \in {"create", "update"} /\ pc'[c] = "validate"
  BY <1>1, <1>2 DEF FirstStep, Job, Ops
<1>4. /\ Joins(request, "find", Nothing) \/ request.op # "join"
      /\ Leaves(request, "unset", found'[c], Nothing) \/ request.op # "leave"
      /\ Writes(request, "validate", Nothing) \/ request.op \notin {"create", "update"}
  BY <1>1 DEF Joins, Leaves, LeaveSteps, Writes, WriteSteps, Nothing
<1> QED
  BY <1>2, <1>3, <1>4 DEF Continues, Plays, Keeps, Stays, Validated, Released

-----------------------------------------------------------------------------
(* All connections.                                                        *)

Roles == \A c \in Connections : Plays(job[c], pc[c], found[c], own[c])

Assigned ==
    /\ Serial!ResponsibleInGroup
    /\ \A c \in Connections : Keeps(groups, members, tasks, job[c], pc[c], found[c], own[c])

Inhabited ==
    /\ Serial!GroupsInhabited
    /\ \A c \in Connections : Stays(groups, members, job[c], pc[c], found[c], own[c])

\* A step of one connection that does not commit.
Local(c) ==
    /\ UNCHANGED tables
    /\ \A d \in Connections \ {c} :
          job'[d] = job[d] /\ pc'[d] = pc[d] /\ found'[d] = found[d] /\ own'[d] = own[d]

LEMMA LocalKeeps ==
    ASSUME NEW c \in Connections, Local(c), Continues(c), Roles
    PROVE  Roles' /\ (Assigned => Assigned') /\ (Inhabited => Inhabited')
<1>1. Roles'
  BY DEF Local, Continues, Roles
<1>2. Assigned => Assigned'
  BY DEF Local, tables, Continues, Assigned, Serial!ResponsibleInGroup
<1>3. Inhabited => Inhabited'
  BY DEF Local, tables, Continues, Inhabited, Serial!GroupsInhabited, Serial!IsEmptyGroup
<1> QED
  BY <1>1, <1>2, <1>3

LEMMA FindIsLocal ==
    ASSUME Inv, NEW c \in Connections, NEW rows, NEW next, Find(c, rows, next)
    PROVE  Local(c)
BY DEF Inv, Find, Go, Local, tables

LEMMA WriteIsLocal ==
    ASSUME Inv, NEW c \in Connections, NEW w, NEW next, Write(c, w, next)
    PROVE  Local(c)
BY DEF Inv, Write, Go, Local, tables

LEMMA RollbackIsLocal ==
    ASSUME Inv, NEW c \in Connections, Rollback(c)
    PROVE  Local(c)
BY DEF Inv, Rollback, Release, Go, Local, tables

LEMMA StepContinues ==
    ASSUME Inv, Roles, NEW c \in Connections, Step(c), ~Commit(c)
    PROVE  Local(c) /\ Continues(c)
<1>1. Plays(job[c], pc[c], found[c], own[c])
  BY DEF Roles
<1>2. Local(c)
  <2>1. CASE GetGroup(c) \/ Join(c) \/ CheckReference(c)
    BY <2>1, FindIsLocal, WriteIsLocal, RollbackIsLocal DEF GetGroup, Join, CheckReference, Fail
  <2>2. CASE FindTasks(c) \/ UnsetTasks(c) \/ FindMember(c) \/ RemoveMember(c)
    BY <2>2, FindIsLocal, WriteIsLocal DEF FindTasks, UnsetTasks, FindMember, RemoveMember
  <2>3. CASE FindGroup(c) \/ DeleteGroup(c) \/ Cascade(c)
    BY <2>3, FindIsLocal, WriteIsLocal DEF FindGroup, DeleteGroup, Cascade
  <2>4. CASE Validate(c) \/ ReadTask(c) \/ FindTask(c) \/ AssignTask(c)
    BY <2>4, FindIsLocal, WriteIsLocal, RollbackIsLocal
    DEF Validate, ReadTask, FindTask, AssignTask, Fail
  <2>5. CASE \E t \in TaskIds : InsertTask(c, t)
    BY <2>5, WriteIsLocal DEF InsertTask
  <2> QED
    BY <2>1, <2>2, <2>3, <2>4, <2>5 DEF Step
<1>3. Continues(c)
  BY <1>1, GetGroupContinues, JoinContinues, CheckReferenceContinues, FindTasksContinues,
     UnsetTasksContinues, FindMemberContinues, RemoveMemberContinues, FindGroupContinues,
     DeleteGroupContinues, CascadeContinues, ValidateContinues, InsertTaskContinues,
     ReadsContinue, AssignTaskContinues
  DEF Step
<1> QED
  BY <1>2, <1>3
-----------------------------------------------------------------------------
(* Commits and new groups.                                                 *)

\* What the tables are after a commit, by the kind of transaction.
LEMMA CommitEffect ==
    ASSUME Inv, Roles, NEW c \in Connections, Commit(c)
    PROVE  /\ groups' = groups \ own[c].dropped
           /\ members' = (members \cup own[c].added) \ own[c].removed
           /\ DOMAIN tasks' = DOMAIN tasks \cup DOMAIN own[c].tasks
           /\ \A t \in DOMAIN own[c].tasks : tasks'[t] = own[c].tasks[t]
           /\ \A t \in DOMAIN tasks \ DOMAIN own[c].tasks : tasks'[t] = tasks[t]
           /\ \/ Joins(job[c], "commit", own[c])
              \/ Leaves(job[c], "commit", found[c], own[c])
              \/ Writes(job[c], "commit", own[c])
<1>1. Plays(job[c], "commit", found[c], own[c])
  BY DEF Roles, Commit
<1> QED
  BY <1>1, TasksSeen DEF Commit, Members, Plays, Inv, Fits, Sound

LEMMA CommitLocal ==
    ASSUME Inv, Roles, NEW c \in Connections, Commit(c)
    PROVE  /\ pc'[c] = "idle"
           /\ \A d \in Connections \ {c} :
                 /\ job'[d] = job[d] /\ pc'[d] = pc[d]
                 /\ found'[d] = found[d] /\ own'[d] = own[d]
BY DEF Inv, Commit, Release, Go

LEMMA CommitRoles ==
    ASSUME Inv, Roles, NEW c \in Connections, Commit(c)
    PROVE  Roles'
BY CommitLocal DEF Roles, Plays

LEMMA CommitAssigned ==
    ASSUME Inv, Roles, Assigned, ~LeaveMeetsWrite, NEW c \in Connections, Commit(c)
    PROVE  Assigned'
<1> DEFINE j == job[c]
           o == own[c]
<1>1. /\ Sound(groups, members, tasks) /\ Sound(groups', members', tasks')
      /\ Flow(tasks, j, "commit", found[c], o) /\ Cleared(members, tasks, "commit", o)
      /\ pc[c] = "commit"
  BY CommitKeeps DEF Inv, Fits, Commit
<1>2. j # NULL /\ (o.dropped # {} => o.dropped = {j.group})
  BY <1>1 DEF Flow
<1>3. Keeps(groups, members, tasks, j, "commit", found[c], o)
  BY <1>1 DEF Assigned
<1>4. \A d \in Connections : pc[d] # "idle" => job[d] # NULL
  BY DEF Inv, Fits, Flow
<1>5. CASE Joins(j, "commit", o)
  <2>1. members \subseteq members' /\ groups' = groups /\ DOMAIN tasks' = DOMAIN tasks
        /\ \A t \in DOMAIN tasks : tasks'[t] = tasks[t]
    BY <1>5, CommitEffect DEF Joins
  <2>2. Serial!ResponsibleInGroup'
    BY <2>1 DEF Assigned, Serial!ResponsibleInGroup
  <2>3. ASSUME NEW d \in Connections \ {c}
        PROVE  Keeps(groups', members', tasks', job[d], pc[d], found[d], own[d])
    BY <2>1 DEF Assigned, Keeps, Validated, Released, Owed
  <2> QED
    BY <2>2, <2>3, CommitLocal DEF Assigned, Keeps
<1>6. CASE Leaves(j, "commit", found[c], o)
  <2>1. /\ members' = members \ o.removed /\ groups' = groups \ o.dropped
        /\ DOMAIN tasks' = DOMAIN tasks \cup DOMAIN o.tasks
        /\ \A t \in DOMAIN o.tasks : tasks'[t].group = NULL
        /\ \A t \in DOMAIN tasks \ DOMAIN o.tasks : tasks'[t] = tasks[t]
        /\ Owed(tasks, j) \subseteq DOMAIN o.tasks
        /\ o.removed \subseteq IF o.dropped = {} THEN {<<j.user, j.group>>} ELSE Users \X {j.group}
    BY <1>3, <1>6, CommitEffect DEF Leaves, Keeps, Released
  <2>2. ASSUME NEW t \in DOMAIN tasks', tasks'[t].group # NULL
        PROVE  <<tasks'[t].responsible, tasks'[t].group>> \in members'
    <3>1. /\ t \in DOMAIN tasks \ DOMAIN o.tasks /\ tasks'[t] = tasks[t]
          /\ <<tasks[t].responsible, tasks[t].group>> \in members
      BY <2>1, <2>2 DEF Assigned, Serial!ResponsibleInGroup
    <3>2. <<tasks[t].responsible, tasks[t].group>> \notin o.removed
      BY <1>1, <1>2, <2>1, <3>1 DEF Owed, Cleared
    <3> QED
      BY <2>1, <3>1, <3>2
  <2>3. ASSUME NEW d \in Connections \ {c}, pc[d] # "idle"
        PROVE  Validated(groups', members', job[d], pc[d])
    <3>1. SUFFICES ASSUME job[d].op \in {"create", "update"}, pc[d] # "validate",
                          job[d].group \in groups'
                   PROVE  <<job[d].responsible, job[d].group>> \in members'
      BY DEF Validated
    <3>2. <<job[d].responsible, job[d].group>> \in members
      BY <2>1, <2>3, <3>1 DEF Assigned, Keeps, Validated
    <3>3. <<job[d].responsible, job[d].group>> \notin o.removed
      BY <1>2, <1>4, <1>6, <2>1, <2>3, <3>1 DEF LeaveMeetsWrite, Leaves
    <3> QED
      BY <2>1, <3>2, <3>3
  <2>4. ASSUME NEW d \in Connections \ {c}, pc[d] # "idle"
        PROVE  Released(tasks', job[d], pc[d], found[d], own[d])
    <3>1. job[d].op = "leave" => job[d].group # NULL
      BY <2>4, NullAssumption DEF Roles, Plays, Joins, Leaves, Writes
    <3>2. job[d].op = "leave" => Owed(tasks', job[d]) \subseteq Owed(tasks, job[d])
      BY <2>1, <3>1 DEF Owed
    <3> QED
      BY <2>4, <3>2 DEF Assigned, Keeps, Released
  <2> QED
    BY <2>2, <2>3, <2>4, CommitLocal DEF Assigned, Keeps, Serial!ResponsibleInGroup
<1>7. CASE Writes(j, "commit", o)
  <2>1. /\ members' = members /\ groups' = groups
        /\ DOMAIN tasks' = DOMAIN tasks \cup DOMAIN o.tasks
        /\ \A t \in DOMAIN o.tasks :
              tasks'[t].responsible = j.responsible /\ tasks'[t].group = j.group
        /\ \A t \in DOMAIN tasks \ DOMAIN o.tasks : tasks'[t] = tasks[t]
    BY <1>7, CommitEffect DEF Writes
  <2>2. ASSUME NEW t \in DOMAIN tasks', tasks'[t].group # NULL
        PROVE  <<tasks'[t].responsible, tasks'[t].group>> \in members'
    <3>1. CASE t \in DOMAIN o.tasks
      BY <1>1, <1>3, <1>7, <2>1, <2>2, <3>1 DEF Sound, Keeps, Validated, Writes
    <3>2. CASE t \notin DOMAIN o.tasks
      BY <2>1, <2>2, <3>2 DEF Assigned, Serial!ResponsibleInGroup
    <3> QED
      BY <3>1, <3>2
  <2>3. ASSUME NEW d \in Connections \ {c}, pc[d] # "idle"
        PROVE  Released(tasks', job[d], pc[d], found[d], own[d])
    <3>1. job[d].op = "leave" => Owed(tasks', job[d]) \subseteq Owed(tasks, job[d])
      BY <1>2, <1>4, <1>7, <2>1, <2>3 DEF Owed, LeaveMeetsWrite, Writes
    <3> QED
      BY <2>3, <3>1 DEF Assigned, Keeps, Released
  <2>4. ASSUME NEW d \in Connections \ {c}, pc[d] # "idle"
        PROVE  Validated(groups', members', job[d], pc[d])
    BY <2>1, <2>4 DEF Assigned, Keeps
  <2> QED
    BY <2>2, <2>3, <2>4, CommitLocal DEF Assigned, Keeps, Serial!ResponsibleInGroup
<1> QED
  BY <1>5, <1>6, <1>7, CommitEffect

\* At most one leave of each group at a time.
OneLeave == \A g \in GroupIds : Cardinality(LeavesOf(g)) <= 1

LEMMA LeavesAlone ==
    ASSUME OneLeave, NEW c \in Connections, NEW d \in Connections,
           job[c] # NULL, job[c].op = "leave", job[c].group \in GroupIds,
           job[d] # NULL, job[d].op = "leave", job[d].group = job[c].group
    PROVE  c = d
<1> DEFINE S == LeavesOf(job[c].group)
<1>1. c \in S /\ d \in S /\ S \subseteq Connections
  BY DEF LeavesOf
<1>2. IsFiniteSet(S) /\ Cardinality(S) <= 1
  BY <1>1, PoolAssumption, FS_Subset DEF OneLeave
<1>3. /\ IsFiniteSet(S \ {c})
      /\ Cardinality(S \ {c}) = Cardinality(S) - 1 /\ Cardinality(S) \in Nat
  BY <1>1, <1>2, FS_RemoveElement, FS_CardinalityType
<1>4. Cardinality(S \ {c}) = 0
  BY <1>2, <1>3, FS_CardinalityType
<1>5. S \ {c} = {}
  BY <1>3, <1>4, FS_EmptySet
<1> QED
  BY <1>1, <1>5

LEMMA CommitInhabited ==
    ASSUME Inv, Roles, Inhabited, OneLeave, NEW c \in Connections, Commit(c)
    PROVE  Inhabited'
<1> DEFINE j == job[c]
           o == own[c]
           Has(M, g) == \E u \in Users : <<u, g>> \in M
<1>1. /\ Flow(tasks, j, "commit", found[c], o) /\ pc[c] = "commit"
      /\ Stays(groups, members, j, "commit", found[c], o)
  BY DEF Inv, Fits, Commit, Inhabited
<1>2. j # NULL /\ (o.dropped # {} => o.dropped = {j.group})
  BY <1>1 DEF Flow
<1>3. \A d \in Connections : pc[d] # "idle" => job[d] # NULL
  BY DEF Inv, Fits, Flow
<1>4. \A g \in groups : Has(members, g)
  BY DEF Inhabited, Serial!GroupsInhabited, Serial!IsEmptyGroup
<1>5. /\ groups' \subseteq groups
      /\ \A g \in groups' : Has(members', g)
      /\ \A d \in Connections \ {c} :
            pc[d] # "idle" /\ job[d].op = "leave" =>
                \A u \in Users : <<u, job[d].group>> \in members =>
                    <<u, job[d].group>> \in members'
  <2>1. CASE Joins(j, "commit", o) \/ Writes(j, "commit", o)
    <3>1. groups' = groups /\ members \subseteq members'
      BY <2>1, CommitEffect DEF Joins, Writes
    <3> QED
      BY <1>4, <3>1
  <2>2. CASE Leaves(j, "commit", found[c], o)
    <3>1. /\ groups' = groups \ o.dropped /\ members' = members \ o.removed
          /\ o.removed \subseteq IF o.dropped = {} THEN {<<j.user, j.group>>} ELSE Users \X {j.group}
          /\ j.op = "leave" /\ j.group \in GroupIds
      BY <2>2, CommitEffect DEF Leaves
    <3>2. ASSUME NEW g \in groups' PROVE Has(members', g)
      <4>1. CASE g = j.group
        BY <1>1, <1>2, <3>1, <4>1 DEF Stays
      <4>2. CASE g # j.group
        BY <1>4, <3>1, <4>2
      <4> QED
        BY <4>1, <4>2
    <3>3. ASSUME NEW d \in Connections \ {c}, pc[d] # "idle", job[d].op = "leave"
          PROVE  job[d].group # j.group
      BY <1>2, <1>3, <3>1, <3>3, LeavesAlone
    <3> QED
      BY <3>1, <3>2, <3>3
  <2> QED
    BY <2>1, <2>2, CommitEffect
<1>6. Serial!GroupsInhabited'
  BY <1>5 DEF Serial!GroupsInhabited, Serial!IsEmptyGroup
<1>7. ASSUME NEW d \in Connections \ {c}
      PROVE  Stays(groups', members', job[d], pc[d], found[d], own[d])
  BY <1>5 DEF Inhabited, Stays
<1> QED
  BY <1>6, <1>7, CommitLocal DEF Inhabited, Stays

LEMMA CreateGroupRoles ==
    ASSUME Inv, Roles, NEW u \in Users, NEW g \in GroupIds, CreateGroup(u, g)
    PROVE  Roles' /\ (Assigned => Assigned') /\ (Inhabited => Inhabited')
<1>1. ASSUME NEW c \in Connections, pc[c] # "idle" PROVE job[c].group # g
  BY <1>1 DEF Inv, Fits, Flow, CreateGroup, UnusedGroup
<1>2. Roles'
  BY DEF CreateGroup, Roles
<1>3. Assigned => Assigned'
  <2> SUFFICES ASSUME Assigned PROVE Assigned'
    OBVIOUS
  <2>1. Serial!ResponsibleInGroup'
    BY DEF CreateGroup, Assigned, Serial!ResponsibleInGroup
  <2>2. ASSUME NEW c \in Connections
        PROVE  Keeps(groups', members', tasks', job'[c], pc'[c], found'[c], own'[c])
    BY <1>1 DEF CreateGroup, Assigned, Keeps, Validated
  <2> QED
    BY <2>1, <2>2 DEF Assigned
<1>4. Inhabited => Inhabited'
  <2> SUFFICES ASSUME Inhabited PROVE Inhabited'
    OBVIOUS
  <2>1. Serial!GroupsInhabited'
    BY DEF CreateGroup, Inhabited, Serial!GroupsInhabited, Serial!IsEmptyGroup
  <2>2. ASSUME NEW c \in Connections
        PROVE  Stays(groups', members', job'[c], pc'[c], found'[c], own'[c])
    BY <1>1 DEF CreateGroup, Inhabited, Stays
  <2> QED
    BY <2>1, <2>2 DEF Inhabited
<1> QED
  BY <1>2, <1>3, <1>4

LEMMA NextContinues ==
    ASSUME Inv, Roles, [Next]_vars
    PROVE  /\ Roles'
           /\ Assigned /\ ~LeaveMeetsWrite => Assigned'
           /\ Inhabited /\ OneLeave => Inhabited'
<1>1. ASSUME NEW c \in Connections, Local(c), Continues(c)
      PROVE  Roles' /\ (Assigned => Assigned') /\ (Inhabited => Inhabited')
  BY <1>1, LocalKeeps
<1>2. ASSUME NEW c \in Connections, NEW request \in Requests, Begin(c, request)
      PROVE  Local(c) /\ Continues(c)
  BY <1>2, BeginContinues DEF Begin, Go, Local, Inv
<1>3. ASSUME NEW c \in Connections, Abort(c) \/ BreakDeadlock(c)
      PROVE  Local(c) /\ Continues(c)
  BY <1>3, RollbackContinues, RollbackIsLocal DEF Abort, BreakDeadlock
<1>4. CASE UNCHANGED vars
  BY <1>4 DEF vars, Roles, Assigned, Inhabited, Serial!ResponsibleInGroup,
     Serial!GroupsInhabited, Serial!IsEmptyGroup
<1> QED
  BY <1>1, <1>2, <1>3, <1>4, StepContinues, CommitRoles, CommitAssigned, CommitInhabited,
     CreateGroupRoles DEF Next

LEMMA InitRoles == Init => Roles /\ Assigned /\ Inhabited
BY DEF Init, Roles, Assigned, Inhabited, Plays, Keeps, Stays, Serial!ResponsibleInGroup,
   Serial!GroupsInhabited

LEMMA RolesHold == Spec => []Roles
BY InitRoles, NextContinues, InvHolds, PTL DEF Spec

\* Whoever is responsible for a task of a group is a member of it, however
\* requests overlap, unless a leave overlaps a request that puts a task into
\* the group in the name of the one who leaves.
THEOREM ResponsibleHolds == Spec => ResponsibleInGroup
<1>1. Assigned => Serial!ResponsibleInGroup
  BY DEF Assigned
<1> QED
  BY <1>1, InitRoles, NextContinues, InvHolds, RolesHold, PTL DEF Spec, ResponsibleInGroup

\* Leaves of one group that do not overlap leave no group without members.
THEOREM InhabitedHolds == Spec => GroupsInhabited
<1>1. Inhabited => Serial!GroupsInhabited
  BY DEF Inhabited
<1>2. (\A g \in GroupIds : Cardinality(LeavesOf(g)) <= 1) <=> OneLeave
  BY DEF OneLeave
<1> QED
  BY <1>1, <1>2, InitRoles, NextContinues, InvHolds, RolesHold, PTL DEF Spec, GroupsInhabited
=============================================================================
