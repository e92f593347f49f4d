----------------------- MODULE TaskTransactionsProofs -----------------------
(***************************************************************************)
(* Theorems about TaskTransactions, for any number of connections, users,  *)
(* tasks and recurrences: the references, whatever requests overlap, and   *)
(* serial execution, for those of SerialOverlaps.                          *)
(***************************************************************************)
EXTENDS TaskTransactions, TLAPS

-----------------------------------------------------------------------------
(* The inductive invariant.                                                *)

\* No task has a group: there are no memberships in this model.
PlainTask == [responsible : Users, group : {NULL}, completed : BOOLEAN,
              previous : TaskIds \cup {NULL}, recurrence : RecIds \cup {NULL}]
IsPlain(T) == DOMAIN T \subseteq TaskIds /\ T \in [DOMAIN T -> PlainTask]

\* Tables whose rows refer to rows of these tables.
Refs(T, R) ==
    /\ IsPlain(T)
    /\ IsRecurrenceTable(R)
    /\ \A s \in DOMAIN T : /\ T[s].previous \in DOMAIN T \cup {NULL}
                           /\ T[s].recurrence \in DOMAIN R \cup {NULL}
    /\ \A r \in DOMAIN R : R[r] \in DOMAIN T

\* A row that o, next to the committed tables T and R, has written refers to
\* rows that o has written, or to those it referred to before.
Covered(T, R, o) ==
    /\ \A s \in DOMAIN o.tasks : o.tasks[s] # NULL =>
          /\ \/ o.tasks[s].previous \in DOMAIN o.tasks \cup {NULL}
             \/ s \in DOMAIN T /\ o.tasks[s].previous = T[s].previous
          /\ \/ o.tasks[s].recurrence \in DOMAIN o.recs \cup {NULL}
             \/ s \in DOMAIN T /\ o.tasks[s].recurrence = T[s].recurrence
    /\ \A r \in DOMAIN o.recs : o.recs[r] # NULL =>
          \/ o.recs[r] \in DOMAIN o.tasks
          \/ r \in DOMAIN R /\ o.recs[r] = R[r]

\* What a step p of job j, which has seen s, may rely on.
Flow(j, p, s, o) ==
    /\ p = "idle" <=> j = NULL
    /\ p = "idle" => o = Nothing
    /\ p # "idle" => j \in Job
    /\ p \in {"next", "revert", "attach"} =>
          j.task \in DOMAIN o.tasks /\ o.tasks[j.task] # NULL
    /\ p = "revert" => s.previous = j.task

Fits(T, R, j, p, s, o) ==
    /\ o \in [tasks : {o.tasks}, recs : {o.recs}]
    /\ Refs(Overlay(T, o.tasks), Overlay(R, o.recs))
    /\ Covered(T, R, o)
    /\ Flow(j, p, s, o)

Excludes(o, q) ==
    /\ DOMAIN o.tasks \cap DOMAIN q.tasks = {}
    /\ DOMAIN o.recs \cap DOMAIN q.recs = {}

Inv ==
    /\ Refs(tasks, recurrences)
    /\ job = [c \in Connections |-> job[c]]
    /\ pc = [c \in Connections |-> pc[c]]
    /\ seen = [c \in Connections |-> seen[c]]
    /\ own = [c \in Connections |-> own[c]]
    /\ \A c \in Connections : Fits(tasks, recurrences, job[c], pc[c], seen[c], own[c])
    /\ \A c, d \in Connections : c # d => Excludes(own[c], own[d])

-----------------------------------------------------------------------------
(* Overlay and Written                                                     *)

LEMMA OverlayNothing ==
    ASSUME NEW f, f = [x \in DOMAIN f |-> f[x]]
    PROVE  Overlay(f, << >>) = f
BY DEF Overlay

LEMMA OverlayRows ==
    ASSUME NEW f, NEW w
    PROVE  /\ \A x : x \in DOMAIN Overlay(f, w) <=>
                        IF x \in DOMAIN w THEN w[x] # NULL ELSE x \in DOMAIN f
           /\ \A x \in DOMAIN Overlay(f, w) :
                 Overlay(f, w)[x] = IF x \in DOMAIN w THEN w[x] ELSE f[x]
BY DEF Overlay

\* A statement that writes the rows ks makes its transaction see g.
LEMMA OverlayWritten ==
    ASSUME NEW f, NEW w, NEW g, NEW ks,
           g = [x \in DOMAIN g |-> g[x]],
           \A x \in DOMAIN g : g[x] # NULL,
           \A x \in DOMAIN g \ ks : x \in DOMAIN Overlay(f, w) /\ g[x] = Overlay(f, w)[x],
           \A x \in DOMAIN Overlay(f, w) \ ks : x \in DOMAIN g
    PROVE  Overlay(f, Written(w, g, ks)) = g
<1> DEFINE v == Written(w, g, ks)
<1>1. DOMAIN v = DOMAIN w \cup ks /\ \A x \in DOMAIN v : v[x] = IF x \in DOMAIN g THEN g[x] ELSE NULL
  BY DEF Written
<1> HIDE DEF v
<1>2. \A x : x \in DOMAIN Overlay(f, v) <=> x \in DOMAIN g
  BY <1>1, OverlayRows
<1>3. \A x \in DOMAIN g : Overlay(f, v)[x] = g[x]
  BY <1>1, <1>2, OverlayRows
<1>4. Overlay(f, v) = [x \in DOMAIN Overlay(f, v) |-> Overlay(f, v)[x]]
  BY DEF Overlay
<1>5. DOMAIN Overlay(f, v) = DOMAIN g
  BY <1>2
<1> QED
  BY <1>3, <1>4, <1>5 DEF v

LEMMA TableRows ==
    ASSUME NEW T, NEW R, Refs(T, R)
    PROVE  /\ T = [s \in DOMAIN T |-> T[s]] /\ \A s \in DOMAIN T : T[s] \in PlainTask /\ T[s] # NULL
           /\ R = [r \in DOMAIN R |-> R[r]] /\ \A r \in DOMAIN R : R[r] \in TaskIds /\ R[r] # NULL
<1>1. PlainTask \subseteq Task
  BY DEF PlainTask, Task
<1> QED
  BY <1>1, RowAssumption, NullAssumption DEF Refs, IsPlain, IsRecurrenceTable

-----------------------------------------------------------------------------
(* A connection that owns nothing.                                         *)

LEMMA NothingFits ==
    ASSUME NEW T, NEW R, Refs(T, R)
    PROVE  Fits(T, R, NULL, "idle", NULL, Nothing)
<1>1. Overlay(T, Nothing.tasks) = T /\ Overlay(R, Nothing.recs) = R
  BY TableRows, OverlayNothing DEF Nothing
<1> QED
  BY <1>1 DEF Fits, Covered, Flow, Nothing

LEMMA NothingExcludes == ASSUME NEW o PROVE Excludes(o, Nothing) /\ Excludes(Nothing, o)
BY DEF Excludes, Nothing

LEMMA InitInv == Init => Inv
<1> SUFFICES ASSUME Init PROVE Inv
  OBVIOUS
<1>1. Refs(tasks, recurrences)
  BY DEF Init, Refs, IsPlain, IsRecurrenceTable
<1> QED
  BY <1>1, NothingFits, NothingExcludes DEF Init, Inv

-----------------------------------------------------------------------------
(* The kinds of step.                                                      *)

LEMMA StepKeeps ==
    ASSUME Inv, NEW c \in Connections, NEW j, NEW p, NEW s, NEW o,
           UNCHANGED <<tasks, recurrences>>,
           job' = [job EXCEPT ![c] = j], pc' = [pc EXCEPT ![c] = p],
           seen' = [seen EXCEPT ![c] = s], own' = [own EXCEPT ![c] = o],
           Fits(tasks, recurrences, j, p, s, o),
           \A d \in Connections \ {c} : Excludes(o, own[d])
    PROVE  Inv'
<1>1. \A d \in Connections : Fits(tasks, recurrences, job'[d], pc'[d], seen'[d], own'[d])
  BY DEF Inv
<1>2. ASSUME NEW d \in Connections, NEW e \in Connections, d # e
      PROVE  Excludes(own'[d], own'[e])
  <2>1. \A x, y : Excludes(x, y) => Excludes(y, x)
    BY DEF Excludes
  <2> QED
    BY <1>2, <2>1 DEF Inv
<1> QED
  BY <1>1, <1>2 DEF Inv

LEMMA RollbackKeeps == ASSUME Inv, NEW c \in Connections, Rollback(c) PROVE Inv'
<1>1. Fits(tasks, recurrences, NULL, "idle", NULL, Nothing)
  BY NothingFits DEF Inv
<1> QED
  BY <1>1, StepKeeps, NothingExcludes DEF Rollback, Release

\* A step that writes no row.
LEMMA QuietKeeps ==
    ASSUME Inv, NEW c \in Connections, NEW j, NEW p, NEW s,
           UNCHANGED <<tasks, recurrences, own>>,
           job' = [job EXCEPT ![c] = j], pc' = [pc EXCEPT ![c] = p],
           seen' = [seen EXCEPT ![c] = s], Flow(j, p, s, own[c])
    PROVE  Inv'
<1>1. own' = [own EXCEPT ![c] = own[c]] /\ \A d \in Connections \ {c} : Excludes(own[c], own[d])
  BY DEF Inv
<1>2. Fits(tasks, recurrences, j, p, s, own[c])
  BY DEF Inv, Fits
<1> QED
  BY <1>1, <1>2, StepKeeps

LEMMA Seen ==
    ASSUME Inv, NEW c \in Connections
    PROVE  /\ Refs(Tasks(c), Recs(c))
           /\ Covered(tasks, recurrences, own[c])
           /\ Flow(job[c], pc[c], seen[c], own[c])
           /\ own[c] \in [tasks : {own[c].tasks}, recs : {own[c].recs}]
           /\ \A d \in Connections \ {c} : Excludes(own[c], own[d])
BY DEF Inv, Fits, Tasks, Recs

\* A statement that writes rows.  What its rows refer to is written by the
\* transaction too, or they referred to it before.
LEMMA ExecuteKeeps ==
    ASSUME Inv, NEW c \in Connections, NEW T, NEW R, NEW ts, NEW rs, NEW next,
           Execute(c, T, R, ts, rs, next), next # "idle", pc[c] # "idle",
           Refs(T, R),
           \A s \in DOMAIN T \ ts : s \in DOMAIN Tasks(c) /\ T[s] = Tasks(c)[s],
           \A s \in DOMAIN Tasks(c) \ ts : s \in DOMAIN T,
           \A r \in DOMAIN R \ rs : r \in DOMAIN Recs(c) /\ R[r] = Recs(c)[r],
           \A r \in DOMAIN Recs(c) \ rs : r \in DOMAIN R,
           \A s \in DOMAIN T :
              /\ \/ T[s].previous \in DOMAIN own[c].tasks \cup ts \cup {NULL}
                 \/ s \in DOMAIN Tasks(c) /\ T[s].previous = Tasks(c)[s].previous
              /\ \/ T[s].recurrence \in DOMAIN own[c].recs \cup rs \cup {NULL}
                 \/ s \in DOMAIN Tasks(c) /\ T[s].recurrence = Tasks(c)[s].recurrence,
           \A r \in DOMAIN R :
              \/ R[r] \in DOMAIN own[c].tasks \cup ts
              \/ r \in DOMAIN Recs(c) /\ R[r] = Recs(c)[r],
           \A d \in Connections \ {c} :
              ts \cap DOMAIN own[d].tasks = {} /\ rs \cap DOMAIN own[d].recs = {},
           next \in {"next", "revert", "attach"} =>
              job[c].task \in (DOMAIN own[c].tasks \cup ts) \cap DOMAIN T,
           next = "revert" => seen[c].previous = job[c].task
    PROVE  Inv'
<1> DEFINE o == own[c]
           w == [tasks |-> Written(o.tasks, T, ts), recs |-> Written(o.recs, R, rs)]
<1>1. /\ w.tasks = Written(o.tasks, T, ts) /\ w.recs = Written(o.recs, R, rs)
      /\ w \in [tasks : {w.tasks}, recs : {w.recs}]
  OBVIOUS
<1>2. /\ DOMAIN w.tasks = DOMAIN o.tasks \cup ts
      /\ \A s \in DOMAIN w.tasks : w.tasks[s] = IF s \in DOMAIN T THEN T[s] ELSE NULL
      /\ DOMAIN w.recs = DOMAIN o.recs \cup rs
      /\ \A r \in DOMAIN w.recs : w.recs[r] = IF r \in DOMAIN R THEN R[r] ELSE NULL
  BY DEF Written
<1>3. /\ own' = [own EXCEPT ![c] = w]
      /\ job' = [job EXCEPT ![c] = job[c]] /\ seen' = [seen EXCEPT ![c] = seen[c]]
      /\ pc' = [pc EXCEPT ![c] = next] /\ UNCHANGED <<tasks, recurrences>>
  BY DEF Execute, Inv
<1>4. Overlay(tasks, w.tasks) = T /\ Overlay(recurrences, w.recs) = R
  <2>1. Overlay(tasks, w.tasks) = T
    BY <1>1, TableRows, OverlayWritten DEF Tasks
  <2>2. Overlay(recurrences, w.recs) = R
    BY <1>1, TableRows, OverlayWritten DEF Recs
  <2> QED
    BY <2>1, <2>2
<1> HIDE DEF w
<1>5. Covered(tasks, recurrences, w)
  <2>1. /\ \A s \in DOMAIN Tasks(c) :
              Tasks(c)[s] = IF s \in DOMAIN o.tasks THEN o.tasks[s] ELSE tasks[s]
        /\ \A s \in DOMAIN Tasks(c) :
              IF s \in DOMAIN o.tasks THEN o.tasks[s] # NULL ELSE s \in DOMAIN tasks
        /\ \A r \in DOMAIN Recs(c) :
              Recs(c)[r] = IF r \in DOMAIN o.recs THEN o.recs[r] ELSE recurrences[r]
        /\ \A r \in DOMAIN Recs(c) :
              IF r \in DOMAIN o.recs THEN o.recs[r] # NULL ELSE r \in DOMAIN recurrences
    BY OverlayRows DEF Tasks, Recs
  <2>2. Covered(tasks, recurrences, o)
    BY Seen
  <2>3. ASSUME NEW s \in DOMAIN w.tasks, w.tasks[s] # NULL
        PROVE  /\ \/ w.tasks[s].previous \in DOMAIN w.tasks \cup {NULL}
                  \/ s \in DOMAIN tasks /\ w.tasks[s].previous = tasks[s].previous
               /\ \/ w.tasks[s].recurrence \in DOMAIN w.recs \cup {NULL}
                  \/ s \in DOMAIN tasks /\ w.tasks[s].recurrence = tasks[s].recurrence
    <3>1. s \in DOMAIN T /\ w.tasks[s] = T[s]
      BY <1>2, <2>3
    <3> QED
      BY <1>2, <2>1, <2>2, <3>1 DEF Covered
  <2>4. ASSUME NEW r \in DOMAIN w.recs, w.recs[r] # NULL
        PROVE  \/ w.recs[r] \in DOMAIN w.tasks
               \/ r \in DOMAIN recurrences /\ w.recs[r] = recurrences[r]
    <3>1. r \in DOMAIN R /\ w.recs[r] = R[r]
      BY <1>2, <2>4
    <3> QED
      BY <1>2, <2>1, <2>2, <3>1 DEF Covered
  <2> QED
    BY <2>3, <2>4 DEF Covered
<1>6. Flow(job[c], next, seen[c], w)
  BY <1>2, Seen, TableRows DEF Flow
<1>7. Fits(tasks, recurrences, job[c], next, seen[c], w)
  BY <1>1, <1>4, <1>5, <1>6 DEF Fits
<1>8. \A d \in Connections \ {c} : Excludes(w, own[d])
  BY <1>2, Seen DEF Excludes
<1> QED
  BY <1>3, <1>7, <1>8, StepKeeps

-----------------------------------------------------------------------------
(* What each statement does to what its transaction sees.                  *)

LEMMA SetCompletedRefs ==
    ASSUME NEW T, NEW R, Refs(T, R), NEW t \in DOMAIN T, NEW b \in BOOLEAN
    PROVE  LET U == SetCompleted(T, t, b) IN
           /\ Refs(U, R)
           /\ DOMAIN U = DOMAIN T
           /\ \A s \in DOMAIN T \ {t} : U[s] = T[s]
           /\ \A s \in DOMAIN T : /\ U[s].previous = T[s].previous
                                 /\ U[s].recurrence = T[s].recurrence
<1> DEFINE U == SetCompleted(T, t, b)
<1>1. IsPlain(U) /\ DOMAIN U = DOMAIN T /\ \A s \in DOMAIN T \ {t} : U[s] = T[s]
  BY DEF Refs, IsPlain, SetCompleted, PlainTask
<1>2. \A s \in DOMAIN T : U[s].previous = T[s].previous /\ U[s].recurrence = T[s].recurrence
  BY DEF Refs, IsPlain, SetCompleted, PlainTask
<1> QED
  BY <1>1, <1>2 DEF Refs

LEMMA StartRecurrenceRefs ==
    ASSUME NEW T, NEW R, Refs(T, R), NEW t \in DOMAIN T, NEW r \in RecIds \ DOMAIN R
    PROVE  LET U == StartRecurrence(T, t, r)
               V == Put(R, r, t)
           IN  /\ Refs(U, V)
               /\ DOMAIN U = DOMAIN T /\ DOMAIN V = DOMAIN R \cup {r}
               /\ \A s \in DOMAIN T \ {t} : U[s] = T[s]
               /\ U[t].previous = T[t].previous /\ U[t].recurrence = r
               /\ V[r] = t /\ \A q \in DOMAIN R : V[q] = R[q]
<1> DEFINE U == StartRecurrence(T, t, r)
           V == Put(R, r, t)
<1>1. IsPlain(U) /\ DOMAIN U = DOMAIN T /\ \A s \in DOMAIN T \ {t} : U[s] = T[s]
  BY DEF Refs, IsPlain, StartRecurrence, PlainTask
<1>2. U[t].previous = T[t].previous /\ U[t].recurrence = r
  BY DEF Refs, IsPlain, StartRecurrence, PlainTask
<1>3. /\ IsRecurrenceTable(V) /\ DOMAIN V = DOMAIN R \cup {r}
      /\ V[r] = t /\ \A q \in DOMAIN R : V[q] = R[q]
  BY DEF Refs, IsPlain, IsRecurrenceTable, Put
<1> QED
  BY <1>1, <1>2, <1>3 DEF Refs

LEMMA NextOccurrenceRow ==
    ASSUME NEW T, NEW R, Refs(T, R), NEW t \in DOMAIN T
    PROVE  /\ NextOccurrence(T, t) \in PlainTask
           /\ NextOccurrence(T, t).previous = t
           /\ NextOccurrence(T, t).recurrence = T[t].recurrence
BY DEF Refs, IsPlain, NextOccurrence, PlainTask

LEMMA NextOccurrenceRefs ==
    ASSUME NEW T, NEW R, Refs(T, R), NEW t \in DOMAIN T, NEW n \in TaskIds, n \notin DOMAIN T,
           NEW r \in DOMAIN R, r = T[t].recurrence
    PROVE  Refs(Put(T, n, NextOccurrence(T, t)), Put(R, r, n))
<1> DEFINE row == NextOccurrence(T, t)
           U == Put(T, n, row)
           V == Put(R, r, n)
<1>1. row \in PlainTask /\ row.previous = t /\ row.recurrence = r
  BY NextOccurrenceRow
<1> HIDE DEF row
<1>2. IsPlain(U) /\ IsRecurrenceTable(V)
  BY <1>1 DEF Refs, IsPlain, IsRecurrenceTable, Put
<1>3. /\ DOMAIN U = DOMAIN T \cup {n} /\ U[n] = row
      /\ \A s \in DOMAIN T : U[s] = T[s]
  BY DEF Put
<1>4. DOMAIN V = DOMAIN R /\ V[r] = n /\ \A q \in DOMAIN R \ {r} : V[q] = R[q]
  BY DEF Put
<1> HIDE DEF U, V
<1>5. Refs(U, V)
  BY <1>1, <1>2, <1>3, <1>4 DEF Refs
<1> QED
  BY <1>5 DEF U, V, row

LEMMA RevertRefs ==
    ASSUME NEW T, NEW R, Refs(T, R), NEW t \in DOMAIN T, NEW x
    PROVE  LET V == Revert(R, t, x) IN
           /\ Refs(T, V)
           /\ DOMAIN V = DOMAIN R
           /\ \A r \in DOMAIN R : V[r] = IF R[r] = x THEN t ELSE R[r]
<1> DEFINE V == Revert(R, t, x)
<1>1. DOMAIN V = DOMAIN R /\ \A r \in DOMAIN R : V[r] = IF R[r] = x THEN t ELSE R[r]
  BY DEF Revert
<1>2. IsRecurrenceTable(V)
  BY <1>1 DEF Refs, IsPlain, IsRecurrenceTable, Revert
<1> QED
  BY <1>1, <1>2 DEF Refs

\* Each row of found gets no previous task and no recurrence.
LEMMA UnsetRefs ==
    ASSUME NEW T, NEW R, Refs(T, R), NEW r, NEW found,
           \A s \in found : s \in DOMAIN T /\ T[s].recurrence = r
    PROVE  LET unset == UnsetRecurrence(T, r)
               U == [s \in DOMAIN T |-> IF s \in found THEN unset[s] ELSE T[s]]
           IN  /\ Refs(U, R)
               /\ DOMAIN U = DOMAIN T
               /\ \A s \in DOMAIN T \ found : U[s] = T[s]
               /\ \A s \in found : U[s].previous = NULL /\ U[s].recurrence = NULL
<1> DEFINE unset == UnsetRecurrence(T, r)
           U == [s \in DOMAIN T |-> IF s \in found THEN unset[s] ELSE T[s]]
<1>1. \A s \in found : /\ unset[s] \in PlainTask
                       /\ unset[s].previous = NULL /\ unset[s].recurrence = NULL
  BY DEF Refs, IsPlain, UnsetRecurrence, PlainTask
<1> HIDE DEF unset
<1>2. IsPlain(U) /\ DOMAIN U = DOMAIN T
  BY <1>1 DEF Refs, IsPlain
<1>3. \A s \in DOMAIN T : U[s] = IF s \in found THEN unset[s] ELSE T[s]
  OBVIOUS
<1> HIDE DEF U
<1>4. Refs(U, R)
  BY <1>1, <1>2, <1>3 DEF Refs
<1> QED
  BY <1>1, <1>2, <1>3, <1>4 DEF U, unset

\* From tables T and R to U and V: the rows ts and rs may be deleted or lose
\* what they refer to.
Loses(T, R, U, V, ts, rs) ==
    /\ Refs(U, V)
    /\ DOMAIN U \subseteq DOMAIN T /\ DOMAIN T \ ts \subseteq DOMAIN U
    /\ DOMAIN V \subseteq DOMAIN R /\ DOMAIN R \ rs \subseteq DOMAIN V
    /\ \A s \in DOMAIN U \ ts : U[s] = T[s]
    /\ \A s \in DOMAIN U : /\ U[s].previous = T[s].previous
                          /\ U[s].recurrence \in {NULL, T[s].recurrence}
    /\ \A q \in DOMAIN V : V[q] = R[q]

LEMMA UnlinkLoses ==
    ASSUME NEW T, NEW R, Refs(T, R), NEW r
    PROVE  Loses(T, R, ClearRecurrence(T, r), DropRecurrence(R, r),
                 {s \in DOMAIN T : T[s].recurrence = r}, {r} \cap DOMAIN R)
<1> DEFINE U == ClearRecurrence(T, r)
           V == DropRecurrence(R, r)
<1>1. IsPlain(U) /\ DOMAIN U = DOMAIN T
  BY DEF Refs, IsPlain, ClearRecurrence, PlainTask
<1>2. \A s \in DOMAIN T : /\ U[s].previous = T[s].previous
                          /\ T[s].recurrence # r => U[s] = T[s]
                          /\ T[s].recurrence = r => U[s].recurrence = NULL
  BY DEF Refs, IsPlain, ClearRecurrence, PlainTask
<1>3. IsRecurrenceTable(V) /\ DOMAIN V = DOMAIN R \ {r} /\ \A q \in DOMAIN V : V[q] = R[q]
  BY DEF Refs, IsRecurrenceTable, DropRecurrence, Restrict
<1> HIDE DEF U, V
<1>4. Refs(U, V)
  BY <1>1, <1>2, <1>3 DEF Refs
<1> QED
  BY <1>1, <1>2, <1>3, <1>4 DEF U, V, Loses

LEMMA DeleteLoses ==
    ASSUME NEW T, NEW R, Refs(T, R), NEW x \in DOMAIN T, ~IsPrevious(T, x)
    PROVE  Loses(T, R, DeleteRow(T, R, x), CascadeRow(R, x),
                 {x} \cup {s \in DOMAIN T : CurrentOf(T, R, s) = x}, {q \in DOMAIN R : R[q] = x})
<1> DEFINE U == DeleteRow(T, R, x)
           V == CascadeRow(R, x)
<1>1. IsPlain(U) /\ DOMAIN U = DOMAIN T \ {x}
  BY DEF Refs, IsPlain, DeleteRow, PlainTask
<1>2. \A s \in DOMAIN U : /\ U[s].previous = T[s].previous
                          /\ CurrentOf(T, R, s) # x => U[s] = T[s]
                          /\ CurrentOf(T, R, s) = x => U[s].recurrence = NULL
  BY DEF Refs, IsPlain, DeleteRow, PlainTask
<1>3. /\ IsRecurrenceTable(V) /\ DOMAIN V = {r \in DOMAIN R : R[r] # x}
      /\ \A q \in DOMAIN V : V[q] = R[q]
  BY DEF Refs, IsRecurrenceTable, CascadeRow, Restrict
<1>4. \A s \in DOMAIN T \ {x} : T[s].previous # x
  BY DEF IsPrevious
<1> HIDE DEF U, V
<1>5. \A s \in DOMAIN U : U[s].previous \in DOMAIN U \cup {NULL}
  BY <1>1, <1>2, <1>4 DEF Refs
<1>6. \A s \in DOMAIN U : U[s].recurrence \in DOMAIN V \cup {NULL}
  BY <1>1, <1>2, <1>3 DEF Refs, CurrentOf
<1>7. Refs(U, V)
  BY <1>1, <1>3, <1>5, <1>6 DEF Refs
<1> QED
  BY <1>1, <1>2, <1>3, <1>7 DEF U, V, Loses

-----------------------------------------------------------------------------
(* The statements                                                          *)

LEMMA ReadKeeps == ASSUME Inv, NEW c \in Connections, Read(c) PROVE Inv'
<1> DEFINE t == job[c].task
           s == [recurrence |-> tasks[t].recurrence,
                 current    |-> CurrentOf(tasks, recurrences, t),
                 previous   |-> PreviousOf(tasks, recurrences, t)]
           next == CASE job[c].op \in Toggles -> "set"
                     [] job[c].op \in Updates -> "assign"
                     [] job[c].op = "delete" /\ tasks[t].recurrence = NULL -> "remove"
                     [] OTHER -> "scan"
<1>1. /\ pc[c] = "read" /\ UNCHANGED <<tasks, recurrences, own, job>>
      /\ seen' = [seen EXCEPT ![c] = s] /\ pc' = [pc EXCEPT ![c] = next]
  BY DEF Read
<1>2. next \in {"set", "assign", "remove", "scan"}
  OBVIOUS
<1>3. job' = [job EXCEPT ![c] = job[c]]
  BY <1>1 DEF Inv
<1> HIDE DEF s, next
<1>4. Flow(job[c], next, s, own[c])
  BY <1>1, <1>2, Seen DEF Flow
<1> QED
  BY <1>1, <1>3, <1>4, QuietKeeps

LEMMA FailKeeps == ASSUME Inv, NEW c \in Connections, Fail(c) PROVE Inv'
BY RollbackKeeps DEF Fail

\* No other transaction has a row that the statement waits for.
LEMMA Locked ==
    ASSUME NEW c \in Connections, NEW T, NEW R, NEW ts, NEW rs, NEW next,
           Execute(c, T, R, ts, rs, next)
    PROVE  \A d \in Connections \ {c} : /\ NeededTasks(c) \cap DOMAIN own[d].tasks = {}
                                        /\ NeededRecs(c) \cap DOMAIN own[d].recs = {}
BY DEF Execute, WaitsFor

LEMMA SetStatementKeeps == ASSUME Inv, NEW c \in Connections, SetStatement(c) PROVE Inv'
<1> DEFINE t == job[c].task
           s == seen[c]
           T == Tasks(c)
           b == job[c].op = "complete"
           U == SetCompleted(T, t, b)
           next == CASE s.current = NULL -> "commit"
                     [] s.current = t /\ job[c].op = "complete" -> "next"
                     [] s.current # NULL /\ s.previous = t /\ job[c].op = "reopen" -> "revert"
                     [] OTHER -> "fail"
<1>1. CASE t \notin DOMAIN T
  BY <1>1, FailKeeps DEF SetStatement
<1>2. CASE t \in DOMAIN T
  <2>1. pc[c] = "set" /\ Execute(c, U, Recs(c), NeededTasks(c), {}, next)
    BY <1>2 DEF SetStatement, WriteTasks
  <2>2. NeededTasks(c) = {t}
    BY <2>1 DEF NeededTasks
  <2>3. /\ next \in {"commit", "next", "revert", "fail"}
        /\ next = "revert" => s.previous = t
        /\ b \in BOOLEAN
    OBVIOUS
  <2>4. Refs(T, Recs(c))
    BY Seen
  <2> HIDE DEF T, next, b
  <2>5. /\ Refs(U, Recs(c)) /\ DOMAIN U = DOMAIN T
        /\ \A x \in DOMAIN T \ {t} : U[x] = T[x]
        /\ \A x \in DOMAIN T : /\ U[x].previous = T[x].previous
                              /\ U[x].recurrence = T[x].recurrence
    BY <1>2, <2>3, <2>4, SetCompletedRefs
  <2> HIDE DEF U
  <2>6. \A d \in Connections \ {c} : {t} \cap DOMAIN own[d].tasks = {}
    BY <2>1, <2>2, Locked
  <2> QED
    BY <1>2, <2>1, <2>2, <2>3, <2>5, <2>6, ExecuteKeeps DEF T
<1> QED
  BY <1>1, <1>2

LEMMA NextStatementKeeps ==
    ASSUME Inv, NEW c \in Connections, NEW n \in TaskIds, NextStatement(c, n)
    PROVE  Inv'
<1> DEFINE t == job[c].task
           T == Tasks(c)
           R == Recs(c)
           r == T[t].recurrence
           U == Put(T, n, NextOccurrence(T, t))
           V == Put(R, r, n)
<1>1. CASE r \notin DOMAIN R
  BY <1>1, FailKeeps DEF NextStatement
<1>2. CASE r \in DOMAIN R
  <2>1. pc[c] = "next" /\ UnusedTask(n) /\ Execute(c, U, V, {n}, {r}, "load")
    BY <1>2 DEF NextStatement
  <2>2. /\ Refs(T, R)
        /\ t \in DOMAIN own[c].tasks /\ t \in DOMAIN T
        /\ n \notin DOMAIN T
    BY <2>1, Seen, OverlayRows DEF Flow, UnusedTask, Tasks
  <2>3. NeededRecs(c) = {r}
    BY <1>2, <2>1 DEF NeededRecs
  <2>4. \A d \in Connections \ {c} : /\ {n} \cap DOMAIN own[d].tasks = {}
                                     /\ {r} \cap DOMAIN own[d].recs = {}
    BY <2>1, <2>3, Locked DEF UnusedTask
  <2> HIDE DEF T, R
  <2>5. /\ Refs(U, V)
        /\ DOMAIN U = DOMAIN T \cup {n} /\ DOMAIN V = DOMAIN R
        /\ \A x \in DOMAIN T : U[x] = T[x]
        /\ U[n].previous = t /\ U[n].recurrence = r
        /\ V[r] = n /\ \A q \in DOMAIN R \ {r} : V[q] = R[q]
    <3>1. Refs(U, V)
      BY <1>2, <2>2, NextOccurrenceRefs
    <3>2. DOMAIN U = DOMAIN T \cup {n} /\ U[n] = NextOccurrence(T, t)
          /\ \A x \in DOMAIN T : U[x] = T[x]
      BY <2>2 DEF Put
    <3>3. DOMAIN V = DOMAIN R /\ V[r] = n /\ \A q \in DOMAIN R \ {r} : V[q] = R[q]
      BY <1>2 DEF Put
    <3>4. U[n].previous = t /\ U[n].recurrence = r
      BY <2>2, <3>2, NextOccurrenceRow
    <3> QED
      BY <3>1, <3>2, <3>3, <3>4
  <2> HIDE DEF U, V
  <2> QED
    BY <1>2, <2>1, <2>2, <2>4, <2>5, ExecuteKeeps DEF T, R
<1> QED
  BY <1>1, <1>2

LEMMA LoadPreviousKeeps == ASSUME Inv, NEW c \in Connections, LoadPrevious(c) PROVE Inv'
<1>1. CASE Rollback(c)
  BY <1>1, RollbackKeeps
<1>2. CASE /\ pc' = [pc EXCEPT ![c] = "commit"]
           /\ UNCHANGED <<tasks, recurrences, job, seen, rows, own>>
  <2>1. job' = [job EXCEPT ![c] = job[c]] /\ seen' = [seen EXCEPT ![c] = seen[c]]
    BY <1>2 DEF Inv
  <2>2. Flow(job[c], "commit", seen[c], own[c])
    BY Seen DEF LoadPrevious, Flow
  <2> QED
    BY <1>2, <2>1, <2>2, QuietKeeps
<1> QED
  BY <1>1, <1>2 DEF LoadPrevious

LEMMA RevertStatementKeeps == ASSUME Inv, NEW c \in Connections, RevertStatement(c) PROVE Inv'
<1> DEFINE T == Tasks(c)
           R == Recs(c)
           t == seen[c].previous
           V == Revert(R, t, seen[c].current)
<1>1. pc[c] = "revert" /\ Execute(c, T, V, {}, NeededRecs(c), "remove")
  BY DEF RevertStatement
<1>2. Refs(T, R) /\ t \in DOMAIN own[c].tasks /\ t \in DOMAIN T
  BY <1>1, Seen, OverlayRows DEF Flow, Tasks
<1>3. NeededRecs(c) = {r \in DOMAIN R : R[r] = seen[c].current}
  BY <1>1 DEF NeededRecs
<1>4. \A d \in Connections \ {c} : NeededRecs(c) \cap DOMAIN own[d].recs = {}
  BY <1>1, Locked
<1> HIDE DEF T, R
<1>5. /\ Refs(T, V) /\ DOMAIN V = DOMAIN R
      /\ \A r \in DOMAIN R : V[r] = IF R[r] = seen[c].current THEN t ELSE R[r]
  BY <1>2, RevertRefs
<1> HIDE DEF V
<1> QED
  BY <1>1, <1>2, <1>3, <1>4, <1>5, ExecuteKeeps DEF T, R

LEMMA AssignStatementKeeps == ASSUME Inv, NEW c \in Connections, AssignStatement(c) PROVE Inv'
<1> DEFINE t == job[c].task
           T == Tasks(c)
           next == CASE job[c].op = "single" /\ seen[c].recurrence = NULL -> "commit"
                     [] job[c].op = "single" /\ seen[c].recurrence # NULL -> "scan"
                     [] job[c].op = "repeat" /\ seen[c].recurrence # NULL -> "touch"
                     [] OTHER -> "attach"
<1>1. CASE t \notin DOMAIN T
  BY <1>1, FailKeeps DEF AssignStatement
<1>2. CASE t \in DOMAIN T
  <2>1. pc[c] = "assign" /\ Execute(c, T, Recs(c), NeededTasks(c), {}, next)
    BY <1>2 DEF AssignStatement, WriteTasks
  <2>2. NeededTasks(c) = {t}
    BY <2>1 DEF NeededTasks
  <2>3. next \in {"commit", "scan", "touch", "attach"}
    OBVIOUS
  <2> HIDE DEF next
  <2>4. Refs(T, Recs(c))
    BY Seen
  <2>5. \A d \in Connections \ {c} : {t} \cap DOMAIN own[d].tasks = {}
    BY <2>1, <2>2, Locked
  <2> HIDE DEF T
  <2> QED
    BY <1>2, <2>1, <2>2, <2>3, <2>4, <2>5, ExecuteKeeps DEF T
<1> QED
  BY <1>1, <1>2

LEMMA TouchStatementKeeps == ASSUME Inv, NEW c \in Connections, TouchStatement(c) PROVE Inv'
<1>1. pc[c] = "touch" /\ Execute(c, Tasks(c), Recs(c), {}, NeededRecs(c), "commit")
  BY DEF TouchStatement
<1>2. Refs(Tasks(c), Recs(c))
  BY Seen
<1>3. \A d \in Connections \ {c} : NeededRecs(c) \cap DOMAIN own[d].recs = {}
  BY <1>1, Locked
<1> QED
  BY <1>1, <1>2, <1>3, ExecuteKeeps

LEMMA AttachStatementKeeps ==
    ASSUME Inv, NEW c \in Connections, NEW r \in RecIds, AttachStatement(c, r)
    PROVE  Inv'
<1> DEFINE t == job[c].task
           T == Tasks(c)
           R == Recs(c)
           U == StartRecurrence(T, t, r)
           V == Put(R, r, t)
<1>1. pc[c] = "attach" /\ UnusedRec(r) /\ Execute(c, U, V, {t}, {r}, "commit")
  BY DEF AttachStatement
<1>2. /\ Refs(T, R)
      /\ t \in DOMAIN own[c].tasks /\ t \in DOMAIN T
      /\ r \notin DOMAIN R
  BY <1>1, Seen, OverlayRows DEF Flow, UnusedRec, Tasks, Recs
<1>3. \A d \in Connections \ {c} : /\ {t} \cap DOMAIN own[d].tasks = {}
                                   /\ {r} \cap DOMAIN own[d].recs = {}
  BY <1>1, <1>2, Seen DEF UnusedRec, Excludes
<1> HIDE DEF T, R
<1>4. /\ Refs(U, V)
      /\ DOMAIN U = DOMAIN T /\ DOMAIN V = DOMAIN R \cup {r}
      /\ \A s \in DOMAIN T \ {t} : U[s] = T[s]
      /\ U[t].previous = T[t].previous /\ U[t].recurrence = r
      /\ V[r] = t /\ \A q \in DOMAIN R : V[q] = R[q]
  BY <1>2, StartRecurrenceRefs
<1> HIDE DEF U, V
<1> QED
  BY <1>1, <1>2, <1>3, <1>4, ExecuteKeeps DEF T, R

LEMMA ScanStatementKeeps == ASSUME Inv, NEW c \in Connections, ScanStatement(c) PROVE Inv'
<1>1. /\ UNCHANGED <<tasks, recurrences, own>>
      /\ job' = [job EXCEPT ![c] = job[c]] /\ seen' = [seen EXCEPT ![c] = seen[c]]
      /\ pc' = [pc EXCEPT ![c] = "unset"]
  BY DEF ScanStatement, Inv
<1>2. Flow(job[c], "unset", seen[c], own[c])
  BY Seen DEF ScanStatement, Flow
<1> QED
  BY <1>1, <1>2, QuietKeeps

LEMMA UnsetStatementKeeps == ASSUME Inv, NEW c \in Connections, UnsetStatement(c) PROVE Inv'
<1> DEFINE T == Tasks(c)
           r == seen[c].recurrence
           found == {s \in rows[c] \cap DOMAIN T : T[s].recurrence = r}
           unset == UnsetRecurrence(T, r)
           U == [s \in DOMAIN T |-> IF s \in found THEN unset[s] ELSE T[s]]
<1>1. pc[c] = "unset" /\ Execute(c, U, Recs(c), found, {}, "unlink")
  BY DEF UnsetStatement
<1>2. NeededTasks(c) = rows[c]
  BY <1>1 DEF NeededTasks
<1>3. \A d \in Connections \ {c} : found \cap DOMAIN own[d].tasks = {}
  BY <1>1, <1>2, Locked
<1>4. Refs(T, Recs(c)) /\ \A s \in found : s \in DOMAIN T /\ T[s].recurrence = r
  BY Seen
<1> HIDE DEF T, found
<1>5. /\ Refs(U, Recs(c)) /\ DOMAIN U = DOMAIN T
      /\ \A s \in DOMAIN T \ found : U[s] = T[s]
      /\ \A s \in found : U[s].previous = NULL /\ U[s].recurrence = NULL
  <2> DEFINE R == Recs(c)
  <2>1. Refs(T, R) /\ \A s \in found : s \in DOMAIN T /\ T[s].recurrence = r
    BY <1>4
  <2> HIDE DEF R, r
  <2>2. /\ Refs(U, R) /\ DOMAIN U = DOMAIN T
        /\ \A s \in DOMAIN T \ found : U[s] = T[s]
        /\ \A s \in found : U[s].previous = NULL /\ U[s].recurrence = NULL
    BY <2>1, UnsetRefs
  <2> QED
    BY <2>2 DEF R
<1> HIDE DEF U
<1>6. /\ \A s \in DOMAIN U \ found : s \in DOMAIN T /\ U[s] = T[s]
      /\ \A s \in DOMAIN T \ found : s \in DOMAIN U
      /\ \A s \in DOMAIN U :
            /\ \/ U[s].previous \in DOMAIN own[c].tasks \cup found \cup {NULL}
               \/ s \in DOMAIN T /\ U[s].previous = T[s].previous
            /\ \/ U[s].recurrence \in DOMAIN own[c].recs \cup {} \cup {NULL}
               \/ s \in DOMAIN T /\ U[s].recurrence = T[s].recurrence
  BY <1>5
<1> QED
  BY <1>1, <1>3, <1>4, <1>5, <1>6, ExecuteKeeps DEF T

LEMMA UnlinkStatementKeeps == ASSUME Inv, NEW c \in Connections, UnlinkStatement(c) PROVE Inv'
<1> DEFINE T == Tasks(c)
           R == Recs(c)
           r == seen[c].recurrence
           U == ClearRecurrence(T, r)
           V == DropRecurrence(R, r)
           ts == NeededTasks(c)
           rs == {r} \cap DOMAIN R
           next == IF job[c].op = "delete" THEN "remove" ELSE "commit"
<1>1. pc[c] = "unlink" /\ Execute(c, U, V, ts, rs, next)
  BY DEF UnlinkStatement
<1>2. ts = {s \in DOMAIN T : T[s].recurrence = r} /\ NeededRecs(c) = {r}
  BY <1>1 DEF NeededTasks, NeededRecs
<1>3. \A d \in Connections \ {c} : /\ ts \cap DOMAIN own[d].tasks = {}
                                   /\ rs \cap DOMAIN own[d].recs = {}
  BY <1>1, <1>2, Locked
<1>4. Refs(T, R) /\ next \in {"remove", "commit"}
  BY Seen
<1> HIDE DEF T, R, ts, next
<1>5. Loses(T, R, U, V, ts, rs)
  BY <1>2, <1>4, UnlinkLoses
<1> HIDE DEF U, V, rs
<1> QED
  BY <1>1, <1>3, <1>4, <1>5, ExecuteKeeps DEF T, R, Loses

LEMMA RemoveStatementKeeps == ASSUME Inv, NEW c \in Connections, RemoveStatement(c) PROVE Inv'
<1> DEFINE T == Tasks(c)
           R == Recs(c)
           x == Doomed(c)
           U == DeleteRow(T, R, x)
           V == CascadeRow(R, x)
           ts == NeededTasks(c)
           rs == NeededRecs(c)
<1>1. CASE Fail(c)
  BY <1>1, FailKeeps
<1>2. CASE x \in DOMAIN T /\ ~IsPrevious(T, x) /\ Execute(c, U, V, ts, rs, "commit")
  <2>1. pc[c] = "remove"
    BY DEF RemoveStatement
  <2>2. /\ ts = {x} \cup {s \in DOMAIN T : CurrentOf(T, R, s) = x}
        /\ rs = {q \in DOMAIN R : R[q] = x}
    BY <2>1 DEF NeededTasks, NeededRecs
  <2>3. \A d \in Connections \ {c} : /\ ts \cap DOMAIN own[d].tasks = {}
                                     /\ rs \cap DOMAIN own[d].recs = {}
    BY <1>2, Locked
  <2>4. Refs(T, R)
    BY Seen
  <2> HIDE DEF T, R, ts, rs, x
  <2>5. Loses(T, R, U, V, ts, rs)
    BY <1>2, <2>2, <2>4, DeleteLoses
  <2> HIDE DEF U, V
  <2> QED
    BY <1>2, <2>1, <2>3, <2>5, ExecuteKeeps DEF T, R, Loses
<1> QED
  BY <1>1, <1>2 DEF RemoveStatement

-----------------------------------------------------------------------------
(* The beginning and the end of a transaction                              *)

LEMMA BeginKeeps ==
    ASSUME Inv, NEW c \in Connections, NEW u \in Users, NEW op \in Ops, NEW t \in TaskIds,
           Begin(c, u, op, t)
    PROVE  Inv'
<1> DEFINE j == [user |-> u, op |-> op, task |-> t]
<1>1. /\ UNCHANGED <<tasks, recurrences, own>>
      /\ job' = [job EXCEPT ![c] = j] /\ seen' = [seen EXCEPT ![c] = seen[c]]
      /\ pc' = [pc EXCEPT ![c] = "read"]
  BY DEF Begin, Inv
<1>2. Flow(j, "read", seen[c], own[c])
  BY RowAssumption DEF Flow, Job
<1> QED
  BY <1>1, <1>2, QuietKeeps

\* What the tables and the view of connection d become when another
\* transaction, which owns o, commits.
LEMMA CommitFits ==
    ASSUME NEW T, NEW R, NEW o, NEW q, Refs(T, R), Excludes(o, q),
           Refs(Overlay(T, o.tasks), Overlay(R, o.recs)), Covered(T, R, o),
           Refs(Overlay(T, q.tasks), Overlay(R, q.recs)), Covered(T, R, q)
    PROVE  LET T2 == Overlay(T, o.tasks)
               R2 == Overlay(R, o.recs)
           IN  /\ Refs(Overlay(T2, q.tasks), Overlay(R2, q.recs))
               /\ Covered(T2, R2, q)
<1> DEFINE T2 == Overlay(T, o.tasks)
           R2 == Overlay(R, o.recs)
           Tq == Overlay(T, q.tasks)
           Rq == Overlay(R, q.recs)
           T3 == Overlay(T2, q.tasks)
           R3 == Overlay(R2, q.recs)
<1>1. /\ \A x : x \in DOMAIN T2 <=> IF x \in DOMAIN o.tasks THEN o.tasks[x] # NULL ELSE x \in DOMAIN T
      /\ \A x \in DOMAIN T2 : T2[x] = IF x \in DOMAIN o.tasks THEN o.tasks[x] ELSE T[x]
      /\ \A x : x \in DOMAIN R2 <=> IF x \in DOMAIN o.recs THEN o.recs[x] # NULL ELSE x \in DOMAIN R
      /\ \A x \in DOMAIN R2 : R2[x] = IF x \in DOMAIN o.recs THEN o.recs[x] ELSE R[x]
  BY OverlayRows
<1>2. /\ \A x : x \in DOMAIN Tq <=> IF x \in DOMAIN q.tasks THEN q.tasks[x] # NULL ELSE x \in DOMAIN T
      /\ \A x \in DOMAIN Tq : Tq[x] = IF x \in DOMAIN q.tasks THEN q.tasks[x] ELSE T[x]
      /\ \A x : x \in DOMAIN Rq <=> IF x \in DOMAIN q.recs THEN q.recs[x] # NULL ELSE x \in DOMAIN R
      /\ \A x \in DOMAIN Rq : Rq[x] = IF x \in DOMAIN q.recs THEN q.recs[x] ELSE R[x]
  BY OverlayRows
<1>3. /\ \A x : x \in DOMAIN T3 <=> IF x \in DOMAIN q.tasks THEN q.tasks[x] # NULL ELSE x \in DOMAIN T2
      /\ \A x \in DOMAIN T3 : T3[x] = IF x \in DOMAIN q.tasks THEN q.tasks[x] ELSE T2[x]
      /\ \A x : x \in DOMAIN R3 <=> IF x \in DOMAIN q.recs THEN q.recs[x] # NULL ELSE x \in DOMAIN R2
      /\ \A x \in DOMAIN R3 : R3[x] = IF x \in DOMAIN q.recs THEN q.recs[x] ELSE R2[x]
  BY OverlayRows
<1>4. T3 = [x \in DOMAIN T3 |-> T3[x]] /\ R3 = [x \in DOMAIN R3 |-> R3[x]]
  BY DEF Overlay
<1> HIDE DEF T2, R2, Tq, Rq, T3, R3
<1>5. Refs(T2, R2) /\ Refs(Tq, Rq)
  BY DEF T2, R2, Tq, Rq
<1>6. Covered(T2, R2, q)
  BY <1>1 DEF Covered, Excludes
<1>7. IsPlain(T3) /\ IsRecurrenceTable(R3)
  <2>1. \A x \in DOMAIN T3 : x \in TaskIds /\ T3[x] \in PlainTask
    BY <1>2, <1>3, <1>5 DEF Refs, IsPlain
  <2>2. \A x \in DOMAIN R3 : x \in RecIds /\ R3[x] \in TaskIds
    BY <1>2, <1>3, <1>5 DEF Refs, IsRecurrenceTable
  <2> QED
    BY <1>4, <2>1, <2>2 DEF IsPlain, IsRecurrenceTable
<1>8. ASSUME NEW s \in DOMAIN T3, T3[s].previous # NULL
      PROVE  T3[s].previous \in DOMAIN T3
  <2>1. CASE s \in DOMAIN q.tasks
    BY <1>1, <1>2, <1>3, <1>5, <1>8, <2>1 DEF Refs, Covered, Excludes
  <2>2. CASE s \notin DOMAIN q.tasks
    BY <1>1, <1>2, <1>3, <1>5, <1>8, <2>2 DEF Refs, Covered, Excludes
  <2> QED
    BY <2>1, <2>2
<1>9. ASSUME NEW s \in DOMAIN T3, T3[s].recurrence # NULL
      PROVE  T3[s].recurrence \in DOMAIN R3
  <2>1. CASE s \in DOMAIN q.tasks
    BY <1>1, <1>2, <1>3, <1>5, <1>9, <2>1 DEF Refs, Covered, Excludes
  <2>2. CASE s \notin DOMAIN q.tasks
    BY <1>1, <1>2, <1>3, <1>5, <1>9, <2>2 DEF Refs, Covered, Excludes
  <2> QED
    BY <2>1, <2>2
<1>10. ASSUME NEW r \in DOMAIN R3 PROVE R3[r] \in DOMAIN T3
  <2>1. CASE r \in DOMAIN q.recs
    BY <1>1, <1>2, <1>3, <1>5, <2>1 DEF Refs, Covered, Excludes
  <2>2. CASE r \notin DOMAIN q.recs
    BY <1>1, <1>2, <1>3, <1>5, <2>2 DEF Refs, Covered, Excludes
  <2> QED
    BY <2>1, <2>2
<1>11. Refs(T3, R3)
  BY <1>7, <1>8, <1>9, <1>10 DEF Refs
<1> QED
  BY <1>6, <1>11 DEF T2, R2, T3, R3

LEMMA CommitKeeps == ASSUME Inv, NEW c \in Connections, Commit(c) PROVE Inv'
<1>1. tasks' = Overlay(tasks, own[c].tasks) /\ recurrences' = Overlay(recurrences, own[c].recs)
  BY DEF Commit, Tasks, Recs
<1>2. Refs(tasks', recurrences')
  BY Seen DEF Commit
<1>3. ASSUME NEW d \in Connections \ {c}
      PROVE  Fits(tasks', recurrences', job[d], pc[d], seen[d], own[d])
  <2>1. /\ Fits(tasks, recurrences, job[c], pc[c], seen[c], own[c])
        /\ Fits(tasks, recurrences, job[d], pc[d], seen[d], own[d])
        /\ Refs(tasks, recurrences) /\ Excludes(own[c], own[d])
    BY DEF Inv
  <2>2. /\ Refs(Overlay(tasks', own[d].tasks), Overlay(recurrences', own[d].recs))
        /\ Covered(tasks', recurrences', own[d])
    BY <1>1, <2>1, CommitFits DEF Fits
  <2> QED
    BY <2>1, <2>2 DEF Fits
<1>4. Fits(tasks', recurrences', NULL, "idle", NULL, Nothing)
  BY <1>2, NothingFits
<1>5. \A d \in Connections : Fits(tasks', recurrences', job'[d], pc'[d], seen'[d], own'[d])
  BY <1>3, <1>4 DEF Inv, Commit, Release
<1>6. ASSUME NEW d \in Connections, NEW e \in Connections, d # e
      PROVE  Excludes(own'[d], own'[e])
  BY <1>6, NothingExcludes DEF Inv, Commit, Release
<1> QED
  BY <1>2, <1>5, <1>6 DEF Inv, Commit, Release

\* A task that is inserted and committed at once is a commit as well.
LEMMA CreateTaskKeeps ==
    ASSUME Inv, NEW u \in Users, NEW t \in TaskIds, CreateTask(u, t)
    PROVE  Inv'
<1> DEFINE row == NewTask(u, NULL)
           o == [tasks |-> [x \in {t} |-> row], recs |-> << >>]
<1>1. /\ Refs(tasks, recurrences) /\ t \notin DOMAIN tasks
      /\ tasks' = Put(tasks, t, row) /\ recurrences' = recurrences
  BY DEF Inv, CreateTask, UnusedTask
<1>2. row \in PlainTask /\ row.previous = NULL /\ row.recurrence = NULL /\ row # NULL
  <2>1. row \in PlainTask /\ row.previous = NULL /\ row.recurrence = NULL
    BY DEF NewTask, PlainTask
  <2> QED
    BY <2>1, RowAssumption DEF PlainTask, Task
<1> HIDE DEF row
<1>3. /\ DOMAIN tasks' = DOMAIN tasks \cup {t} /\ tasks'[t] = row
      /\ \A s \in DOMAIN tasks : tasks'[s] = tasks[s]
      /\ IsPlain(tasks')
  BY <1>1, <1>2 DEF Refs, IsPlain, Put
<1>4. Refs(tasks', recurrences')
  BY <1>1, <1>2, <1>3 DEF Refs
<1>5. Overlay(tasks, o.tasks) = tasks' /\ Overlay(recurrences, o.recs) = recurrences'
  <2>1. Overlay(tasks, o.tasks) = tasks'
    BY <1>1, <1>2 DEF Overlay, Put
  <2>2. Overlay(recurrences, o.recs) = recurrences
    BY <1>1, TableRows, OverlayNothing
  <2> QED
    BY <1>1, <2>1, <2>2
<1>6. Covered(tasks, recurrences, o)
  BY <1>2 DEF Covered
<1>7. ASSUME NEW d \in Connections
      PROVE  Fits(tasks', recurrences', job'[d], pc'[d], seen'[d], own'[d])
  <2>1. Fits(tasks, recurrences, job[d], pc[d], seen[d], own[d])
    BY DEF Inv
  <2>2. Excludes(o, own[d])
    BY DEF CreateTask, UnusedTask, Excludes
  <2>3. /\ Refs(Overlay(tasks', own[d].tasks), Overlay(recurrences', own[d].recs))
        /\ Covered(tasks', recurrences', own[d])
    <3> HIDE DEF o
    <3> QED
      BY <1>1, <1>4, <1>5, <1>6, <2>1, <2>2, CommitFits DEF Fits
  <2> QED
    BY <2>1, <2>3 DEF Fits, CreateTask
<1> QED
  BY <1>4, <1>7 DEF Inv, CreateTask

-----------------------------------------------------------------------------
(* Theorems                                                                *)

LEMMA StatementsKeep == ASSUME Inv, NEW c \in Connections, Statement(c) PROVE Inv'
<1>1. CASE Refuse(c) \/ Unexpected(c)
  BY <1>1, RollbackKeeps DEF Refuse, Unexpected
<1> QED
  BY <1>1, ReadKeeps, SetStatementKeeps, NextStatementKeeps, LoadPreviousKeeps,
     RevertStatementKeeps, AssignStatementKeeps, TouchStatementKeeps, AttachStatementKeeps,
     ScanStatementKeeps, UnsetStatementKeeps, UnlinkStatementKeeps, RemoveStatementKeeps,
     CommitKeeps
  DEF Statement

LEMMA NextInv == Inv /\ [Next]_vars => Inv'
<1> SUFFICES ASSUME Inv, [Next]_vars PROVE Inv'
  OBVIOUS
<1>1. ASSUME NEW u \in Users, NEW t \in TaskIds, CreateTask(u, t) PROVE Inv'
  BY <1>1, CreateTaskKeeps
<1>2. ASSUME NEW u \in Users, NEW t \in TaskIds, NEW c \in Connections, NEW op \in Ops,
             Begin(c, u, op, t)
      PROVE  Inv'
  BY <1>2, BeginKeeps
<1>3. ASSUME NEW c \in Connections, Statement(c) PROVE Inv'
  BY <1>3, StatementsKeep
<1>4. ASSUME NEW c \in Connections, Drop(c) \/ BreakDeadlock(c) PROVE Inv'
  BY <1>4, RollbackKeeps DEF Drop, BreakDeadlock
<1>5. CASE UNCHANGED vars
  BY <1>5 DEF vars, Inv
<1> QED
  BY <1>1, <1>2, <1>3, <1>4, <1>5 DEF Next

LEMMA InvHolds == Spec => []Inv
BY InitInv, NextInv, PTL DEF Spec

\* Whatever statements of task.rs interleave, and wherever a transaction is
\* dropped, no committed row refers to one that is gone.
THEOREM ReferencesHold == Spec => []References
<1>1. Inv => References
  <2> SUFFICES ASSUME Inv PROVE References
    OBVIOUS
  <2>1. Refs(tasks, recurrences)
    BY DEF Inv
  <2> QED
    BY <2>1 DEF Refs, IsPlain, PlainTask, References, Serial!References, NoMembers
<1> QED
  BY <1>1, InvHolds, PTL

\* The tables are well typed, no lock outlives its transaction, and no two
\* transactions have written the same row.
THEOREM TypeCorrect == Spec => []TypeOK
<1>1. Inv => Serial!TypeOK
  BY DEF Inv, Refs, IsPlain, IsRecurrenceTable, PlainTask, Serial!TypeOK, Serial!IsTaskTable,
     Serial!Task, Serial!IsRecurrenceTable, NoMembers
<1>2. Inv => job \in [Connections -> Job \cup {NULL}]
  BY DEF Inv, Fits, Flow
<1>3. Inv => \A c \in Connections : /\ pc[c] = "idle" <=> job[c] = NULL
                                    /\ pc[c] = "idle" => own[c] = Nothing
  BY DEF Inv, Fits, Flow
<1>4. Inv => \A c, d \in Connections : c # d => Excludes(own[c], own[d])
  BY DEF Inv
<1>5. Inv => TypeOK
  BY <1>1, <1>2, <1>3, <1>4 DEF TypeOK, Excludes
<1> QED
  BY <1>5, InvHolds, PTL

-----------------------------------------------------------------------------
(* ImplementsSerial: what each request has read of the committed tables    *)
(* and written so far, as long as only SerialOverlaps overlap.             *)

\* The tasks of recurrence r, and the table once it is dissolved.
Members(T, r) == {s \in DOMAIN T : r # NULL /\ T[s].recurrence = r}

Dissolved(T, r) == [s \in DOMAIN T |->
    IF s \in Members(T, r) THEN [T[s] EXCEPT !.previous = NULL, !.recurrence = NULL] ELSE T[s]]

\* A recurrence is that of its current task, and all its tasks have the same
\* responsible user.
Sound(T, R) ==
    /\ \A r \in DOMAIN R : T[R[r]].recurrence = r
    /\ \A s \in DOMAIN T : T[s].previous # s
    /\ \A s \in DOMAIN T : T[s].recurrence # NULL =>
          T[R[T[s].recurrence]].responsible = T[s].responsible

\* The writes w are the rows ks of the table U.
Wrote(w, U, ks) == w = [k \in ks |-> IF k \in DOMAIN U THEN U[k] ELSE NULL]

Owns(o, U, ks, V, qs) == Wrote(o.tasks, U, ks) /\ Wrote(o.recs, V, qs)

Without(f, x) == [k \in DOMAIN f \ {x} |-> f[k]]

IsSeen(s) ==
    /\ s # NULL
    /\ s.recurrence \in RecIds \cup {NULL}
    /\ s.current \in TaskIds \cup {NULL}
    /\ s.current = NULL <=> s.recurrence = NULL

\* What each request knows of the committed tables T and R at step p, when
\* it has seen s and written o: the task is as it saw it unless ...

CompleteKnows(T, R, t, p, s, o) ==
    /\ p \in {"set", "next", "load", "commit", "fail"}
    /\ t \in DOMAIN T =>
          /\ ~T[t].completed
          /\ T[t].recurrence = s.recurrence
          /\ s.current = t => R[s.recurrence] = t
    /\ p = "set" => o = Nothing
    /\ p \notin {"set", "fail"} => t \in DOMAIN T
    /\ p \in {"next", "load"} => s.current = t
    /\ p = "next" \/ (p = "commit" /\ s.current = NULL) =>
          Owns(o, SetCompleted(T, t, TRUE), {t}, R, {})
    /\ p = "load" \/ (p = "commit" /\ s.current # NULL) =>
          /\ s.current = t
          /\ \E n \in TaskIds \ DOMAIN T :
                Owns(o, Put(SetCompleted(T, t, TRUE), n, NextOccurrence(T, t)), {t, n},
                     Put(R, s.recurrence, n), {s.recurrence})

\* ... the current task that it saw has been completed meanwhile, or
Stays(T, R, t, s) ==
    s.current \in DOMAIN T /\ R[s.recurrence] = s.current /\ T[s.current].previous = t

ReopenKnows(T, R, t, p, s, o) ==
    /\ p \in {"set", "revert", "remove", "commit", "fail"}
    /\ t \in DOMAIN T => T[t].completed /\ T[t].recurrence = s.recurrence
    /\ s.current # NULL /\ s.previous = t =>
          IsPrevious(T, s.current) \/ Stays(T, R, t, s)
    /\ p = "set" => o = Nothing
    /\ p \notin {"set", "fail"} => t \in DOMAIN T
    /\ p \in {"revert", "remove"} => s.current # NULL /\ s.previous = t
    /\ p = "revert" \/ (p = "commit" /\ s.current = NULL) =>
          Owns(o, SetCompleted(T, t, FALSE), {t}, R, {})
    /\ p = "remove" =>
          /\ Wrote(o.tasks, SetCompleted(T, t, FALSE), {t})
          /\ IsPrevious(T, s.current) \/ Wrote(o.recs, Put(R, s.recurrence, t), {s.recurrence})
    /\ p = "commit" /\ s.current # NULL =>
          /\ s.previous = t
          /\ Stays(T, R, t, s) /\ ~IsPrevious(T, s.current)
          /\ Owns(o, Without(SetCompleted(T, t, FALSE), s.current), {t, s.current},
                  Put(R, s.recurrence, t), {s.recurrence})

\* ... its recurrence has been dissolved, or it was given a new one.
RepeatKnows(T, R, t, p, s, o) ==
    /\ p \in {"assign", "attach", "touch", "commit"}
    /\ t \in DOMAIN T /\ s.recurrence = NULL => T[t].recurrence = NULL
    /\ p = "assign" => o = Nothing
    /\ p # "assign" => t \in DOMAIN T
    /\ p = "attach" => s.recurrence = NULL
    /\ p = "touch" => s.recurrence # NULL
    /\ p \in {"attach", "touch"} => Owns(o, T, {t}, R, {})
    /\ p = "commit" /\ s.recurrence # NULL => Owns(o, T, {t}, R, {s.recurrence})
    /\ p = "commit" /\ s.recurrence = NULL =>
          \E r \in RecIds \ DOMAIN R :
              Owns(o, StartRecurrence(T, t, r), {t}, Put(R, r, t), {r})

DissolveKnows(T, R, t, p, r, f) ==
    /\ r \in DOMAIN R => R[r] = t
    /\ p = "unset" => Members(T, r) \subseteq f

SingleKnows(T, R, t, p, r, f, o) ==
    /\ p \in {"assign", "scan", "unset", "unlink", "commit"}
    /\ DissolveKnows(T, R, t, p, r, f)
    /\ p = "assign" => o = Nothing
    /\ p # "assign" => t \in DOMAIN T
    /\ p \in {"scan", "unset", "unlink"} => r # NULL
    /\ p \in {"scan", "unset"} => Owns(o, T, {t}, R, {})
    /\ p = "unlink" => Owns(o, Dissolved(T, r), Members(T, r) \cup {t}, R, {})
    /\ p = "commit" =>
          Owns(o, Dissolved(T, r), Members(T, r) \cup {t}, Without(R, r), {r} \cap DOMAIN R)

DeleteKnows(T, R, t, p, r, f, o) ==
    /\ p \in {"scan", "unset", "unlink", "remove", "commit"}
    /\ DissolveKnows(T, R, t, p, r, f)
    /\ t \in DOMAIN T /\ T[t].recurrence \notin {NULL, r} =>
          Members(T, T[t].recurrence) = {t}
    /\ p \in {"scan", "unset", "unlink"} => r # NULL
    /\ p \in {"scan", "unset"} => o = Nothing
    /\ p = "unlink" => Owns(o, Dissolved(T, r), Members(T, r), R, {})
    /\ p = "remove" =>
          Owns(o, Dissolved(T, r), Members(T, r), Without(R, r), {r} \cap DOMAIN R)
    /\ p = "commit" =>
          LET q == T[t].recurrence IN
          /\ t \in DOMAIN T
          /\ ~IsPrevious(Dissolved(T, q), t)
          /\ Owns(o, Without(Dissolved(T, q), t), Members(T, q) \cup {t},
                  Without(R, q), {q} \cap DOMAIN R)

Knows(T, R, j, p, s, f, o) ==
    /\ p \in {"idle", "read"} => o = Nothing
    /\ p \notin {"idle", "read"} =>
          /\ IsSeen(s)
          /\ j.task \in DOMAIN T => T[j.task].responsible = j.user
          /\ j.op = "complete" => CompleteKnows(T, R, j.task, p, s, o)
          /\ j.op = "reopen"   => ReopenKnows(T, R, j.task, p, s, o)
          /\ j.op = "repeat"   => RepeatKnows(T, R, j.task, p, s, o)
          /\ j.op = "single"   => SingleKnows(T, R, j.task, p, s.recurrence, f, o)
          /\ j.op = "delete"   => DeleteKnows(T, R, j.task, p, s.recurrence, f, o)

\* The rows that o inserts are none that a request j, which has seen s, means.
Unknown(T, R, o, j, s) ==
    /\ \A k \in DOMAIN o.tasks \ DOMAIN T : o.tasks[k] # NULL =>
          /\ j # NULL => k # j.task
          /\ s # NULL => k # s.current
    /\ \A r \in DOMAIN o.recs \ DOMAIN R : o.recs[r] # NULL =>
          (s # NULL => r # s.recurrence)

Apart(j, i) == j # NULL /\ i # NULL => {j.op, i.op} \in SerialOverlaps

SInv ==
    /\ Sound(tasks, recurrences)
    /\ rows = [c \in Connections |-> rows[c]]
    /\ \A c \in Connections :
          Knows(tasks, recurrences, job[c], pc[c], seen[c], rows[c], own[c])
    /\ \A c, d \in Connections : c # d =>
          /\ Apart(job[c], job[d])
          /\ Unknown(tasks, recurrences, own[c], job[d], seen[d])

-----------------------------------------------------------------------------
(* Tables that differ in the rows ks                                       *)

\* U is the table T but for the rows ks.
Near(T, U, ks) ==
    /\ U = [k \in DOMAIN U |-> U[k]]
    /\ \A k \in DOMAIN U : U[k] # NULL
    /\ \A k : k \notin ks => (k \in DOMAIN U <=> k \in DOMAIN T)
    /\ \A k \in DOMAIN U \ ks : U[k] = T[k]

LEMMA NearItself ==
    ASSUME NEW T, T = [k \in DOMAIN T |-> T[k]], \A k \in DOMAIN T : T[k] # NULL, NEW ks
    PROVE  Near(T, T, ks)
BY DEF Near

LEMMA NearNear ==
    ASSUME NEW T, NEW U, NEW V, NEW ks, NEW ls, NEW ms, Near(T, U, ks), Near(U, V, ls),
           ks \cup ls \subseteq ms
    PROVE  Near(T, V, ms)
BY DEF Near

LEMMA NearPut ==
    ASSUME NEW T, \A k \in DOMAIN T : T[k] # NULL, NEW x, NEW row, row # NULL
    PROVE  /\ Near(T, Put(T, x, row), {x})
           /\ DOMAIN Put(T, x, row) = DOMAIN T \cup {x}
           /\ Put(T, x, row)[x] = row
           /\ \A k \in DOMAIN T \ {x} : Put(T, x, row)[k] = T[k]
BY DEF Near, Put

LEMMA NearWithout ==
    ASSUME NEW T, \A k \in DOMAIN T : T[k] # NULL, NEW x
    PROVE  /\ Near(T, Without(T, x), {x} \cap DOMAIN T)
           /\ DOMAIN Without(T, x) = DOMAIN T \ {x}
           /\ \A k \in DOMAIN T \ {x} : Without(T, x)[k] = T[k]
BY DEF Near, Without

LEMMA SetRows ==
    ASSUME NEW T, IsPlain(T), NEW t \in DOMAIN T, NEW b \in BOOLEAN
    PROVE  /\ DOMAIN SetCompleted(T, t, b) = DOMAIN T
           /\ SetCompleted(T, t, b)[t].completed = b
           /\ \A k \in DOMAIN T \ {t} : SetCompleted(T, t, b)[k] = T[k]
           /\ \A k \in DOMAIN T : SetCompleted(T, t, b)[k] \in PlainTask
BY DEF IsPlain, SetCompleted, PlainTask

LEMMA SetFields ==
    ASSUME NEW T, IsPlain(T), NEW t \in DOMAIN T, NEW b \in BOOLEAN, NEW k \in DOMAIN T
    PROVE  /\ SetCompleted(T, t, b)[k].previous = T[k].previous
           /\ SetCompleted(T, t, b)[k].recurrence = T[k].recurrence
           /\ SetCompleted(T, t, b)[k].responsible = T[k].responsible
BY DEF IsPlain, SetCompleted, PlainTask

LEMMA NearSet ==
    ASSUME NEW T, IsPlain(T), NEW t \in DOMAIN T, NEW b \in BOOLEAN
    PROVE  Near(T, SetCompleted(T, t, b), {t})
<1> DEFINE U == SetCompleted(T, t, b)
<1>1. /\ DOMAIN U = DOMAIN T /\ \A k \in DOMAIN T : U[k] \in PlainTask
      /\ \A k \in DOMAIN T \ {t} : U[k] = T[k]
  BY SetRows
<1>2. U = [k \in DOMAIN U |-> U[k]]
  BY DEF SetCompleted
<1>3. \A row \in PlainTask : row # NULL
  BY RowAssumption DEF PlainTask, Task
<1> HIDE DEF U
<1>4. Near(T, U, {t})
  BY <1>1, <1>2, <1>3 DEF Near
<1> QED
  BY <1>4 DEF U

LEMMA NearStart ==
    ASSUME NEW T, IsPlain(T), NEW t \in DOMAIN T, NEW r \in RecIds,
           NEW U, U = StartRecurrence(T, t, r)
    PROVE  /\ Near(T, U, {t})
           /\ DOMAIN U = DOMAIN T
           /\ \A k \in DOMAIN T \ {t} : U[k] = T[k]
           /\ U[t].recurrence = r
           /\ \A k \in DOMAIN T : /\ U[k].previous = T[k].previous
                                 /\ U[k].responsible = T[k].responsible
<1>1. DOMAIN U = DOMAIN T /\ \A k \in DOMAIN T : U[k] \in PlainTask
  BY DEF IsPlain, StartRecurrence, PlainTask
<1>2. /\ U[t].recurrence = r /\ \A k \in DOMAIN T \ {t} : U[k] = T[k]
      /\ \A k \in DOMAIN T : /\ U[k].previous = T[k].previous
                            /\ U[k].responsible = T[k].responsible
  BY DEF IsPlain, StartRecurrence, PlainTask
<1>3. U = [k \in DOMAIN U |-> U[k]]
  BY DEF StartRecurrence
<1>4. \A row \in PlainTask : row # NULL
  BY RowAssumption DEF PlainTask, Task
<1>5. Near(T, U, {t})
  BY <1>1, <1>2, <1>3, <1>4 DEF Near
<1> QED
  BY <1>1, <1>2, <1>5

LEMMA DissolvedRows ==
    ASSUME NEW T, IsPlain(T), NEW r, NEW U, U = Dissolved(T, r)
    PROVE  /\ Near(T, U, Members(T, r))
           /\ DOMAIN U = DOMAIN T
           /\ \A k \in DOMAIN T \ Members(T, r) : U[k] = T[k]
           /\ \A k \in Members(T, r) :
                 /\ U[k].previous = NULL /\ U[k].recurrence = NULL
                 /\ U[k].responsible = T[k].responsible
           /\ Members(U, r) = {}
<1> DEFINE K == Members(T, r)
<1>1. DOMAIN U = DOMAIN T /\ \A k \in DOMAIN T : U[k] \in PlainTask
  BY DEF IsPlain, Dissolved, PlainTask
<1>2. \A k \in DOMAIN T :
         U[k] = IF k \in K THEN [T[k] EXCEPT !.previous = NULL, !.recurrence = NULL] ELSE T[k]
  BY DEF Dissolved
<1>3. U = [k \in DOMAIN U |-> U[k]]
  BY DEF Dissolved
<1>4. \A row \in PlainTask :
         /\ row # NULL
         /\ [row EXCEPT !.previous = NULL, !.recurrence = NULL].previous = NULL
         /\ [row EXCEPT !.previous = NULL, !.recurrence = NULL].recurrence = NULL
         /\ [row EXCEPT !.previous = NULL, !.recurrence = NULL].responsible = row.responsible
  BY RowAssumption DEF PlainTask, Task
<1>5. \A k : k \in K <=> k \in DOMAIN T /\ r # NULL /\ T[k].recurrence = r
  BY DEF Members
<1> HIDE DEF K
<1>6. \A k \in K : /\ U[k].previous = NULL /\ U[k].recurrence = NULL
                  /\ U[k].responsible = T[k].responsible
  <2>1. \A k \in K : T[k] \in PlainTask
    BY <1>5 DEF IsPlain
  <2>2. \A k \in K : U[k] = [T[k] EXCEPT !.previous = NULL, !.recurrence = NULL]
    BY <1>2, <1>5
  <2>3. ASSUME NEW k \in K
        PROVE  U[k].previous = NULL /\ U[k].recurrence = NULL /\ U[k].responsible = T[k].responsible
    <3>1. T[k] \in PlainTask /\ U[k] = [T[k] EXCEPT !.previous = NULL, !.recurrence = NULL]
      BY <2>1, <2>2
    <3> QED
      BY <1>4, <3>1
  <2> QED
    BY <2>3
<1>7. Members(U, r) = {}
  <2> SUFFICES ASSUME NEW k \in DOMAIN U, r # NULL, U[k].recurrence = r PROVE FALSE
    BY DEF Members
  <2>1. CASE k \in K
    BY <1>6, <2>1
  <2>2. CASE k \notin K
    BY <1>1, <1>2, <1>5, <2>2
  <2> QED
    BY <2>1, <2>2
<1>8. Near(T, U, K)
  BY <1>1, <1>2, <1>3, <1>4, <1>5 DEF Near
<1> QED
  BY <1>1, <1>2, <1>5, <1>6, <1>7, <1>8 DEF K

\* What a transaction sees when it wrote the rows in which U differs.
LEMMA ViewOf ==
    ASSUME NEW T, NEW U, NEW ks, NEW w, Near(T, U, ks), Wrote(w, U, ks)
    PROVE  Overlay(T, w) = U
<1>1. DOMAIN w = ks /\ \A k \in ks : w[k] = IF k \in DOMAIN U THEN U[k] ELSE NULL
  BY DEF Wrote
<1>2. \A k : k \in DOMAIN Overlay(T, w) <=> k \in DOMAIN U
  BY <1>1, OverlayRows DEF Near
<1>3. \A k \in DOMAIN U : Overlay(T, w)[k] = U[k]
  BY <1>1, <1>2, OverlayRows DEF Near
<1>4. Overlay(T, w) = [k \in DOMAIN Overlay(T, w) |-> Overlay(T, w)[k]]
  BY DEF Overlay
<1>5. DOMAIN Overlay(T, w) = DOMAIN U
  BY <1>2
<1> QED
  BY <1>3, <1>4, <1>5 DEF Near

LEMMA WroteMore ==
    ASSUME NEW w, NEW U, NEW ks, Wrote(w, U, ks), NEW V, NEW ls
    PROVE  Wrote(Written(w, V, ls), V, ks \cup ls)
<1>1. DOMAIN w = ks
  BY DEF Wrote
<1> QED
  BY <1>1 DEF Wrote, Written

LEMMA NothingOwns == ASSUME NEW U, NEW V PROVE Owns(Nothing, U, {}, V, {})
BY DEF Owns, Wrote, Nothing

\* The same rows of two tables are the same writes.
LEMMA WroteSame ==
    ASSUME NEW w, NEW U, NEW V, NEW ks, Wrote(w, U, ks),
           \A k \in ks : /\ k \in DOMAIN U <=> k \in DOMAIN V
                         /\ k \in DOMAIN U => V[k] = U[k]
    PROVE  Wrote(w, V, ks)
BY DEF Wrote

LEMMA WroteRows ==
    ASSUME NEW w, NEW U, NEW ks, Wrote(w, U, ks)
    PROVE  /\ DOMAIN w = ks
           /\ \A k \in ks : w[k] = IF k \in DOMAIN U THEN U[k] ELSE NULL
BY DEF Wrote

LEMMA ViewOwned ==
    ASSUME NEW c \in Connections, NEW U, NEW ks, NEW V, NEW qs, Owns(own[c], U, ks, V, qs),
           Near(tasks, U, ks), Near(recurrences, V, qs)
    PROVE  Tasks(c) = U /\ Recs(c) = V
BY ViewOf DEF Owns, Tasks, Recs

LEMMA ViewNothing ==
    ASSUME Inv, NEW c \in Connections, own[c] = Nothing
    PROVE  Tasks(c) = tasks /\ Recs(c) = recurrences
<1>1. Refs(tasks, recurrences)
  BY DEF Inv
<1> QED
  BY <1>1, TableRows, OverlayNothing DEF Tasks, Recs, Nothing

LEMMA ExecuteOwns ==
    ASSUME Inv, NEW c \in Connections, NEW T, NEW R, NEW ts, NEW rs, NEW next,
           Execute(c, T, R, ts, rs, next),
           NEW U, NEW ks, NEW V, NEW qs, Owns(own[c], U, ks, V, qs)
    PROVE  Owns(own'[c], T, ks \cup ts, R, qs \cup rs)
<1>1. own'[c].tasks = Written(own[c].tasks, T, ts) /\ own'[c].recs = Written(own[c].recs, R, rs)
  BY DEF Execute, Inv
<1> QED
  BY <1>1, WroteMore DEF Owns

-----------------------------------------------------------------------------
(* The kinds of step, again                                                *)

LEMMA ChangeKnows ==
    ASSUME Inv, SInv, NEW c \in Connections, NEW j, NEW p, NEW s, NEW f, NEW o,
           UNCHANGED <<tasks, recurrences>>,
           job' = [job EXCEPT ![c] = j], pc' = [pc EXCEPT ![c] = p],
           seen' = [seen EXCEPT ![c] = s], rows' = [rows EXCEPT ![c] = f],
           own' = [own EXCEPT ![c] = o],
           Knows(tasks, recurrences, j, p, s, f, o),
           \A d \in Connections \ {c} :
              /\ Apart(j, job[d])
              /\ Unknown(tasks, recurrences, o, job[d], seen[d])
              /\ Unknown(tasks, recurrences, own[d], j, s)
    PROVE  SInv'
<1>1. \A d \in Connections :
         /\ job'[d] = IF d = c THEN j ELSE job[d]
         /\ pc'[d] = IF d = c THEN p ELSE pc[d]
         /\ seen'[d] = IF d = c THEN s ELSE seen[d]
         /\ rows'[d] = IF d = c THEN f ELSE rows[d]
         /\ own'[d] = IF d = c THEN o ELSE own[d]
  BY DEF Inv, SInv
<1>2. rows' = [d \in Connections |-> rows'[d]]
  BY DEF SInv
<1>3. ASSUME NEW d \in Connections
      PROVE  Knows(tasks, recurrences, job'[d], pc'[d], seen'[d], rows'[d], own'[d])
  BY <1>1 DEF SInv
<1>4. \A x, y : Apart(x, y) => Apart(y, x)
  BY DEF Apart, SerialOverlaps
<1>5. ASSUME NEW d \in Connections, NEW e \in Connections, d # e
      PROVE  /\ Apart(job'[d], job'[e])
             /\ Unknown(tasks, recurrences, own'[d], job'[e], seen'[e])
  BY <1>1, <1>4, <1>5 DEF SInv
<1>6. Sound(tasks, recurrences)
  BY DEF SInv
<1> QED
  BY <1>2, <1>3, <1>5, <1>6 DEF SInv

LEMMA RollbackKnows == ASSUME Inv, SInv, NEW c \in Connections, Rollback(c) PROVE SInv'
<1>1. Knows(tasks, recurrences, NULL, "idle", NULL, {}, Nothing)
  BY DEF Knows
<1>2. \A o, j, s : /\ Unknown(tasks, recurrences, Nothing, j, s)
                   /\ Unknown(tasks, recurrences, o, NULL, NULL)
                   /\ Apart(NULL, j)
  BY DEF Unknown, Nothing, Apart
<1> QED
  BY <1>1, <1>2, ChangeKnows DEF Rollback, Release

LEMMA FailKnows == ASSUME Inv, SInv, NEW c \in Connections, Fail(c) PROVE SInv'
BY RollbackKnows DEF Fail

\* A step that writes no row.
LEMMA QuietKnows ==
    ASSUME Inv, SInv, NEW c \in Connections, NEW p, NEW f,
           UNCHANGED <<tasks, recurrences, job, seen, own>>,
           pc' = [pc EXCEPT ![c] = p], rows' = [rows EXCEPT ![c] = f],
           Knows(tasks, recurrences, job[c], p, seen[c], f, own[c])
    PROVE  SInv'
<1>1. /\ job' = [job EXCEPT ![c] = job[c]] /\ seen' = [seen EXCEPT ![c] = seen[c]]
      /\ own' = [own EXCEPT ![c] = own[c]]
  BY DEF Inv
<1>2. \A d \in Connections \ {c} :
         /\ Apart(job[c], job[d])
         /\ Unknown(tasks, recurrences, own[c], job[d], seen[d])
         /\ Unknown(tasks, recurrences, own[d], job[c], seen[c])
  BY DEF SInv
<1> QED
  BY <1>1, <1>2, ChangeKnows

\* A statement that writes rows, and inserts only some that nobody knows.
LEMMA ExecuteKnows ==
    ASSUME Inv, SInv, NEW c \in Connections, NEW T, NEW R, NEW ts, NEW rs, NEW next,
           Execute(c, T, R, ts, rs, next),
           \A k \in DOMAIN T : k \in DOMAIN Tasks(c) \/ UnusedTask(k),
           \A r \in DOMAIN R : r \in DOMAIN Recs(c) \/ UnusedRec(r),
           Knows(tasks, recurrences, job[c], next, seen[c], rows[c], own'[c])
    PROVE  SInv'
<1>1. /\ own' = [own EXCEPT ![c] = own'[c]] /\ pc' = [pc EXCEPT ![c] = next]
      /\ job' = [job EXCEPT ![c] = job[c]] /\ seen' = [seen EXCEPT ![c] = seen[c]]
      /\ rows' = [rows EXCEPT ![c] = rows[c]] /\ UNCHANGED <<tasks, recurrences>>
  BY DEF Execute, Inv, SInv
<1>2. /\ DOMAIN own'[c].tasks = DOMAIN own[c].tasks \cup ts
      /\ DOMAIN own'[c].recs = DOMAIN own[c].recs \cup rs
      /\ \A k \in DOMAIN own'[c].tasks : own'[c].tasks[k] = IF k \in DOMAIN T THEN T[k] ELSE NULL
      /\ \A r \in DOMAIN own'[c].recs : own'[c].recs[r] = IF r \in DOMAIN R THEN R[r] ELSE NULL
  <2>1. own'[c].tasks = Written(own[c].tasks, T, ts) /\ own'[c].recs = Written(own[c].recs, R, rs)
    BY DEF Execute, Inv
  <2> QED
    BY <2>1 DEF Written
<1>3. ASSUME NEW d \in Connections \ {c}
      PROVE  Unknown(tasks, recurrences, own'[c], job[d], seen[d])
  <2>1. Unknown(tasks, recurrences, own[c], job[d], seen[d])
    BY DEF SInv
  <2>2. /\ \A k \in DOMAIN Tasks(c) \ DOMAIN tasks :
              k \in DOMAIN own[c].tasks /\ own[c].tasks[k] # NULL
        /\ \A r \in DOMAIN Recs(c) \ DOMAIN recurrences :
              r \in DOMAIN own[c].recs /\ own[c].recs[r] # NULL
    BY OverlayRows DEF Tasks, Recs
  <2>3. ASSUME NEW k \in DOMAIN own'[c].tasks \ DOMAIN tasks, own'[c].tasks[k] # NULL
        PROVE  /\ job[d] # NULL => k # job[d].task
               /\ seen[d] # NULL => k # seen[d].current
    <3>1. k \in DOMAIN T
      BY <1>2, <2>3
    <3>2. CASE UnusedTask(k)
      BY <3>2 DEF UnusedTask
    <3>3. CASE k \in DOMAIN Tasks(c)
      BY <2>1, <2>2, <3>3 DEF Unknown
    <3> QED
      BY <3>1, <3>2, <3>3
  <2>4. ASSUME NEW r \in DOMAIN own'[c].recs \ DOMAIN recurrences, own'[c].recs[r] # NULL,
               seen[d] # NULL
        PROVE  r # seen[d].recurrence
    <3>1. r \in DOMAIN R
      BY <1>2, <2>4
    <3>2. CASE UnusedRec(r)
      BY <2>4, <3>2 DEF UnusedRec
    <3>3. CASE r \in DOMAIN Recs(c)
      BY <2>1, <2>2, <2>4, <3>3 DEF Unknown
    <3> QED
      BY <3>1, <3>2, <3>3
  <2> QED
    BY <2>3, <2>4 DEF Unknown
<1>4. \A d \in Connections \ {c} :
         /\ Apart(job[c], job[d])
         /\ Unknown(tasks, recurrences, own[d], job[c], seen[c])
  BY DEF SInv
<1> QED
  BY <1>1, <1>3, <1>4, ChangeKnows

-----------------------------------------------------------------------------
(* What the statements do to a table in which Sound holds                  *)

LEMMA DissolveTables ==
    ASSUME NEW T, NEW R, Refs(T, R), NEW r, r # NULL
    PROVE  /\ UnsetRecurrence(T, r) = Dissolved(T, r)
           /\ ClearRecurrence(Dissolved(T, r), r) = Dissolved(T, r)
           /\ DropRecurrence(R, r) = Without(R, r)
<1>1. UnsetRecurrence(T, r) = Dissolved(T, r)
  BY DEF UnsetRecurrence, Dissolved, Members
<1>2. DropRecurrence(R, r) = Without(R, r)
  BY DEF DropRecurrence, Without, Restrict
<1> DEFINE U == Dissolved(T, r)
<1>3. U = [k \in DOMAIN U |-> U[k]] /\ Members(U, r) = {}
  <2>1. Members(U, r) = {}
    BY DissolvedRows DEF Refs
  <2> QED
    BY <2>1 DEF Dissolved
<1> HIDE DEF U
<1>4. ClearRecurrence(U, r) = U
  <2>1. \A k \in DOMAIN U : U[k].recurrence # r
    BY <1>3 DEF Members
  <2>2. ClearRecurrence(U, r) = [k \in DOMAIN U |-> U[k]]
    BY <2>1 DEF ClearRecurrence
  <2> QED
    BY <1>3, <2>2
<1> QED
  BY <1>1, <1>2, <1>4 DEF U

LEMMA NoMembersLeft ==
    ASSUME NEW T, NEW R, Refs(T, R), NEW r, r \notin DOMAIN R
    PROVE  Members(T, r) = {} /\ Dissolved(T, r) = T /\ Without(R, r) = R
<1>1. Members(T, r) = {}
  BY DEF Members, Refs
<1>2. Dissolved(T, r) = T
  BY <1>1, TableRows DEF Dissolved
<1>3. Without(R, r) = R
  BY TableRows DEF Without
<1> QED
  BY <1>1, <1>2, <1>3

\* The current task of recurrence r is moved back from x to t, and x goes.
Reopening(T, R, t, x, r) ==
    /\ Refs(T, R) /\ Sound(T, R)
    /\ t \in DOMAIN T /\ x \in DOMAIN T /\ r # NULL
    /\ T[x].previous = t /\ T[t].recurrence = r /\ R[r] = x

SameRecurrences(T, U) ==
    DOMAIN U = DOMAIN T /\ \A k \in DOMAIN T : U[k].recurrence = T[k].recurrence

LEMMA ReopenTables ==
    ASSUME NEW T, NEW R, NEW t, NEW x, NEW r, Reopening(T, R, t, x, r),
           NEW U, SameRecurrences(T, U)
    PROVE  /\ r \in DOMAIN R /\ x # t
           /\ \A q \in DOMAIN R : R[q] = x <=> q = r
           /\ Revert(R, t, x) = Put(R, r, t)
           /\ \A q \in DOMAIN Put(R, r, t) : Put(R, r, t)[q] # x
           /\ \A k \in DOMAIN U : CurrentOf(U, Put(R, r, t), k) # x
           /\ DeleteRow(U, Put(R, r, t), x) = Without(U, x)
           /\ CascadeRow(Put(R, r, t), x) = Put(R, r, t)
<1> DEFINE V == Put(R, r, t)
<1>1. r \in DOMAIN R /\ x # t /\ x # NULL /\ Refs(T, R)
  BY NullAssumption DEF Reopening, Refs, IsPlain, Sound
<1>2. \A q \in DOMAIN R : R[q] = x <=> q = r
  BY <1>1 DEF Reopening, Sound
<1>3. /\ DOMAIN V = DOMAIN R /\ \A q \in DOMAIN R : V[q] = IF q = r THEN t ELSE R[q]
      /\ V = [q \in DOMAIN V |-> V[q]]
  BY <1>1 DEF Put
<1>4. Revert(R, t, x) = V
  BY <1>1, <1>2 DEF Revert, Put
<1> HIDE DEF V
<1>5. \A q \in DOMAIN V : V[q] # x
  BY <1>1, <1>2, <1>3
<1>6. ASSUME NEW k \in DOMAIN U PROVE CurrentOf(U, V, k) # x
  <2>1. U[k].recurrence = NULL \/ U[k].recurrence \in DOMAIN V
    BY <1>1, <1>3 DEF SameRecurrences, Refs
  <2> QED
    BY <1>1, <1>5, <2>1 DEF CurrentOf
<1>7. DeleteRow(U, V, x) = Without(U, x)
  BY <1>6 DEF DeleteRow, Without
<1>8. CascadeRow(V, x) = V
  <2>1. {q \in DOMAIN V : V[q] # x} = DOMAIN V
    BY <1>5
  <2> QED
    BY <1>3, <2>1 DEF CascadeRow, Restrict
<1> QED
  BY <1>1, <1>2, <1>4, <1>5, <1>6, <1>7, <1>8 DEF V

\* Task t goes, whose recurrence is dissolved.
LEMMA DeleteTables ==
    ASSUME NEW T, NEW R, Refs(T, R), Sound(T, R), NEW t \in DOMAIN T,
           NEW q, q = T[t].recurrence, q # NULL => R[q] = t,
           NEW D, D = Dissolved(T, q), NEW W, W = Without(R, q)
    PROVE  /\ \A a \in DOMAIN W : W[a] # t
           /\ \A k \in DOMAIN D : CurrentOf(D, W, k) # t
           /\ DeleteRow(D, W, t) = Without(D, t)
           /\ CascadeRow(W, t) = W
<1>1. t # NULL
  BY NullAssumption DEF Refs, IsPlain
<1>2. \A a \in DOMAIN W : a \in DOMAIN R /\ a # q /\ W[a] = R[a]
  BY DEF Without
<1>3. \A a \in DOMAIN W : W[a] # t
  BY <1>2 DEF Sound
<1>4. W = [a \in DOMAIN W |-> W[a]] /\ DOMAIN W = DOMAIN R \ {q}
  BY DEF Without
<1>5. /\ DOMAIN D = DOMAIN T
      /\ \A k \in DOMAIN T : D[k].recurrence = IF T[k].recurrence = q THEN NULL ELSE T[k].recurrence
  <2>1. IsPlain(T)
    BY DEF Refs
  <2>2. /\ DOMAIN D = DOMAIN T
        /\ \A k \in DOMAIN T \ Members(T, q) : D[k] = T[k]
        /\ \A k \in Members(T, q) : D[k].recurrence = NULL
    BY <2>1, DissolvedRows
  <2>3. \A k \in DOMAIN T : k \in Members(T, q) <=> q # NULL /\ T[k].recurrence = q
    BY DEF Members
  <2> QED
    BY <2>2, <2>3
<1>6. \A k \in DOMAIN D : CurrentOf(D, W, k) # t
  BY <1>1, <1>3, <1>4, <1>5 DEF CurrentOf, Refs
<1>7. DeleteRow(D, W, t) = Without(D, t)
  BY <1>6 DEF DeleteRow, Without
<1>8. CascadeRow(W, t) = W
  <2>1. {a \in DOMAIN W : W[a] # t} = DOMAIN W
    BY <1>3
  <2> QED
    BY <1>4, <2>1 DEF CascadeRow, Restrict
<1> QED
  BY <1>3, <1>6, <1>7, <1>8

-----------------------------------------------------------------------------
(* The statements, again                                                   *)

LEMMA Known ==
    ASSUME Inv, SInv, NEW c \in Connections
    PROVE  /\ Refs(tasks, recurrences) /\ Sound(tasks, recurrences)
           /\ Knows(tasks, recurrences, job[c], pc[c], seen[c], rows[c], own[c])
           /\ pc[c] # "idle" => job[c] \in Job
BY DEF Inv, SInv, Fits, Flow

LEMMA BeginKnows ==
    ASSUME Overlaps \subseteq SerialOverlaps, Inv, SInv,
           NEW c \in Connections, NEW u \in Users, NEW op \in Ops, NEW t \in TaskIds,
           Begin(c, u, op, t)
    PROVE  SInv'
<1> DEFINE j == [user |-> u, op |-> op, task |-> t]
<1>1. /\ UNCHANGED <<tasks, recurrences>>
      /\ job' = [job EXCEPT ![c] = j] /\ pc' = [pc EXCEPT ![c] = "read"]
      /\ seen' = [seen EXCEPT ![c] = seen[c]] /\ rows' = [rows EXCEPT ![c] = rows[c]]
      /\ own' = [own EXCEPT ![c] = own[c]]
  BY DEF Begin, Inv, SInv
<1>2. Knows(tasks, recurrences, j, "read", seen[c], rows[c], own[c])
  BY Known DEF Begin, Knows
<1>3. ASSUME NEW d \in Connections \ {c} PROVE Apart(j, job[d])
  <2>1. job[d] # NULL => pc[d] # "idle"
    BY DEF Inv, Fits, Flow
  <2>2. pc[d] # "idle" => {op, job[d].op} \in Overlaps
    BY DEF Begin
  <2> QED
    BY <2>1, <2>2 DEF Apart
<1>4. ASSUME NEW d \in Connections \ {c}
      PROVE  /\ Unknown(tasks, recurrences, own[c], job[d], seen[d])
             /\ Unknown(tasks, recurrences, own[d], j, seen[c])
  <2>1. /\ Unknown(tasks, recurrences, own[c], job[d], seen[d])
        /\ Unknown(tasks, recurrences, own[d], job[c], seen[c])
    BY DEF SInv
  <2>2. t \in DOMAIN tasks
    BY DEF Begin
  <2> QED
    BY <2>1, <2>2 DEF Unknown
<1> HIDE DEF j
<1> QED
  BY <1>1, <1>2, <1>3, <1>4, ChangeKnows

\* What a request that may act on task t sees of it.
LEMMA ReadSees ==
    ASSUME Inv, SInv, NEW c \in Connections, Read(c)
    PROVE  LET t == job[c].task
               s == seen'[c]
           IN  /\ t \in DOMAIN tasks /\ t \in TaskIds /\ t # NULL
               /\ own[c] = Nothing
               /\ s.recurrence = tasks[t].recurrence
               /\ s.current = CurrentOf(tasks, recurrences, t)
               /\ s.previous = PreviousOf(tasks, recurrences, t)
               /\ IsSeen(s)
               /\ s.recurrence # NULL =>
                     s.recurrence \in DOMAIN recurrences /\ recurrences[s.recurrence] = s.current
               /\ tasks[t].responsible = job[c].user
<1> DEFINE t == job[c].task
           s == seen'[c]
<1>1. /\ t \in DOMAIN tasks /\ Allowed(c) /\ pc[c] = "read"
      /\ s.recurrence = tasks[t].recurrence
      /\ s.current = CurrentOf(tasks, recurrences, t)
      /\ s.previous = PreviousOf(tasks, recurrences, t)
  BY DEF Read, Inv
<1>2. t \in TaskIds /\ own[c] = Nothing /\ t # NULL
  BY <1>1, Known, NullAssumption DEF Knows, Refs, IsPlain
<1>3. tasks[t].responsible = job[c].user
  BY <1>1 DEF Allowed, CanToggle, CanDelete, CanUpdate, IsFriendTask, Permitted, NoMembers
<1> HIDE DEF s, t
<1>4. Refs(tasks, recurrences)
  BY Known
<1>5. IF tasks[t].recurrence = NULL THEN s.current = NULL
      ELSE s.current = recurrences[s.recurrence] /\ s.recurrence \in DOMAIN recurrences
  BY <1>1, <1>4 DEF CurrentOf, Refs
<1>6. IsSeen(s)
  <2>1. /\ s.recurrence \in RecIds \cup {NULL} /\ s.current \in TaskIds \cup {NULL}
        /\ s.current = NULL <=> s.recurrence = NULL
    BY <1>1, <1>4, <1>5, NullAssumption DEF Refs, IsRecurrenceTable
  <2>2. s.previous \in TaskIds \cup {NULL}
    <3>1. s.current # NULL => s.current \in DOMAIN tasks
      BY <1>4, <1>5 DEF Refs
    <3>2. s.previous = IF s.current = NULL THEN NULL ELSE tasks[s.current].previous
      BY <1>1 DEF PreviousOf
    <3> QED
      BY <1>4, <3>1, <3>2 DEF Refs, IsPlain
  <2>3. s = [recurrence |-> s.recurrence, current |-> s.current, previous |-> s.previous]
    BY DEF Read, Inv, s
  <2>4. s # NULL
    BY <2>1, <2>2, <2>3, RowAssumption DEF SeenTask
  <2> QED
    BY <2>1, <2>4 DEF IsSeen
<1> QED
  BY <1>1, <1>2, <1>3, <1>5, <1>6 DEF s, t

LEMMA ReadKnows == ASSUME Inv, SInv, NEW c \in Connections, Read(c) PROVE SInv'
<1> DEFINE t == job[c].task
           s == seen'[c]
           p == pc'[c]
           op == job[c].op
<1>1. /\ UNCHANGED <<tasks, recurrences>>
      /\ job' = [job EXCEPT ![c] = job[c]] /\ pc' = [pc EXCEPT ![c] = p]
      /\ seen' = [seen EXCEPT ![c] = s] /\ rows' = [rows EXCEPT ![c] = rows[c]]
      /\ own' = [own EXCEPT ![c] = own[c]]
  <2>1. UNCHANGED <<tasks, recurrences, job, rows, own>>
    BY DEF Read
  <2>2. job = [job EXCEPT ![c] = job[c]] /\ rows = [rows EXCEPT ![c] = rows[c]]
    BY DEF Inv, SInv
  <2>3. own = [own EXCEPT ![c] = own[c]]
    BY DEF Inv
  <2>4. \A x : pc' = [pc EXCEPT ![c] = x] => pc'[c] = x
    BY DEF Inv
  <2>5. \A x : seen' = [seen EXCEPT ![c] = x] => seen'[c] = x
    BY DEF Inv
  <2>6. \E x : pc' = [pc EXCEPT ![c] = x]
    BY DEF Read
  <2>7. \E x : seen' = [seen EXCEPT ![c] = x]
    BY DEF Read
  <2> QED
    BY <2>1, <2>2, <2>3, <2>4, <2>5, <2>6, <2>7
<1>2. /\ t \in DOMAIN tasks /\ t # NULL /\ own[c] = Nothing
      /\ s.recurrence = tasks[t].recurrence
      /\ s.current = CurrentOf(tasks, recurrences, t)
      /\ s.previous = PreviousOf(tasks, recurrences, t)
      /\ IsSeen(s)
      /\ s.recurrence # NULL =>
            s.recurrence \in DOMAIN recurrences /\ recurrences[s.recurrence] = s.current
      /\ tasks[t].responsible = job[c].user
  BY ReadSees
<1>3. /\ op \in Toggles => p = "set"
      /\ op \in Updates => p = "assign"
      /\ op = "delete" => p = IF s.recurrence = NULL THEN "remove" ELSE "scan"
  <2>1. p = CASE op \in Toggles -> "set"
              [] op \in Updates -> "assign"
              [] op = "delete" /\ tasks[t].recurrence = NULL -> "remove"
              [] OTHER -> "scan"
    BY DEF Read, Inv
  <2>2. tasks[t].recurrence = s.recurrence
    BY <1>2
  <2> HIDE DEF p, s, op, t
  <2>3. op \in Toggles => p = "set"
    BY <2>1 DEF Toggles, Updates
  <2>4. op \in Updates => p = "assign"
    BY <2>1 DEF Toggles, Updates
  <2>5. op = "delete" => p = IF s.recurrence = NULL THEN "remove" ELSE "scan"
    BY <2>1, <2>2 DEF Toggles, Updates
  <2> QED
    BY <2>3, <2>4, <2>5
<1>4. /\ Allowed(c)
      /\ Refs(tasks, recurrences) /\ Sound(tasks, recurrences)
      /\ op \in Ops
  BY Known DEF Read, Job
<1>5. op \in {"complete", "reopen"} => tasks[t].completed # (op = "complete")
  BY <1>4 DEF Allowed, Toggles
<1>6. op \notin {"complete", "reopen"} => s.current \in {NULL, t}
  BY <1>2, <1>4 DEF Allowed, Toggles, CanDelete, CanUpdate
<1> HIDE DEF s, p, t, op
<1>7. ASSUME op = "complete" PROVE Knows(tasks, recurrences, job[c], p, s, rows[c], own[c])
  <2>1. ~tasks[t].completed
    BY <1>2, <1>4, <1>5, <1>7 DEF Refs, IsPlain, PlainTask
  <2>2. p = "set"
    BY <1>3, <1>7 DEF Toggles
  <2>3. s.current = t => recurrences[s.recurrence] = t
    BY <1>2 DEF IsSeen
  <2>4. CompleteKnows(tasks, recurrences, t, p, s, own[c])
    BY <1>2, <2>1, <2>2, <2>3 DEF CompleteKnows
  <2> QED
    BY <1>2, <1>7, <2>2, <2>4 DEF Knows, op, t
<1>8. ASSUME op = "reopen" PROVE Knows(tasks, recurrences, job[c], p, s, rows[c], own[c])
  <2>1. s.current # NULL /\ s.previous = t => Stays(tasks, recurrences, t, s)
    BY <1>2, <1>4 DEF Stays, PreviousOf, Refs, IsSeen
  <2>2. tasks[t].completed
    BY <1>2, <1>4, <1>5, <1>8 DEF Refs, IsPlain, PlainTask
  <2>3. p = "set"
    BY <1>3, <1>8 DEF Toggles
  <2>4. ReopenKnows(tasks, recurrences, t, p, s, own[c])
    BY <1>2, <2>1, <2>2, <2>3 DEF ReopenKnows
  <2> QED
    BY <1>2, <1>8, <2>3, <2>4 DEF Knows, op, t
<1>9. ASSUME op \in {"repeat", "single", "delete"}
      PROVE  Knows(tasks, recurrences, job[c], p, s, rows[c], own[c])
  <2>1. \A r : r \in DOMAIN recurrences /\ r = s.recurrence => recurrences[r] = t
    BY <1>2, <1>4, <1>6, <1>9, NullAssumption DEF Refs, IsRecurrenceTable
  <2>2. Owns(Nothing, Dissolved(tasks, NULL), Members(tasks, NULL), Without(recurrences, NULL),
             {NULL} \cap DOMAIN recurrences)
    <3>1. Members(tasks, NULL) = {} /\ {NULL} \cap DOMAIN recurrences = {}
      BY <1>4, NullAssumption DEF Members, Refs, IsRecurrenceTable
    <3> QED
      BY <3>1, NothingOwns
  <2>3. p \in {"assign", "remove", "scan"} /\ (op = "delete" <=> p # "assign")
        /\ (p = "remove" <=> op = "delete" /\ s.recurrence = NULL)
    BY <1>3, <1>9 DEF Updates
  <2> QED
    BY <1>2, <1>9, <2>1, <2>2, <2>3
    DEF Knows, RepeatKnows, SingleKnows, DeleteKnows, DissolveKnows, op, t
<1>10. Knows(tasks, recurrences, job[c], p, s, rows[c], own[c])
  BY <1>4, <1>7, <1>8, <1>9 DEF Ops, Toggles, Updates
<1>11. ASSUME NEW d \in Connections \ {c}
       PROVE  /\ Apart(job[c], job[d])
              /\ Unknown(tasks, recurrences, own[c], job[d], seen[d])
              /\ Unknown(tasks, recurrences, own[d], job[c], s)
  <2>1. /\ Apart(job[c], job[d])
        /\ Unknown(tasks, recurrences, own[c], job[d], seen[d])
        /\ Unknown(tasks, recurrences, own[d], job[c], seen[c])
    BY DEF SInv
  <2>2. s.current \in DOMAIN tasks \cup {NULL} /\ s.recurrence \in DOMAIN recurrences \cup {NULL}
    BY <1>2, <1>4 DEF Refs, IsSeen
  <2>3. NULL \notin DOMAIN own[d].tasks \/ own[d].tasks[NULL] = NULL
    BY Seen, OverlayRows, NullAssumption DEF Refs, IsPlain, Tasks
  <2>4. NULL \notin DOMAIN own[d].recs \/ own[d].recs[NULL] = NULL
    BY Seen, OverlayRows, NullAssumption DEF Refs, IsRecurrenceTable, Recs
  <2> QED
    BY <2>1, <2>2, <2>3, <2>4 DEF Unknown
<1> QED
  BY <1>1, <1>10, <1>11, ChangeKnows

LEMMA OpOf ==
    ASSUME Inv, SInv, NEW c \in Connections, pc[c] \notin {"idle", "read"}
    PROVE  /\ job[c] \in Job /\ IsSeen(seen[c])
           /\ job[c].op = "complete" =>
                 CompleteKnows(tasks, recurrences, job[c].task, pc[c], seen[c], own[c])
           /\ job[c].op = "reopen" =>
                 ReopenKnows(tasks, recurrences, job[c].task, pc[c], seen[c], own[c])
           /\ job[c].op = "repeat" =>
                 RepeatKnows(tasks, recurrences, job[c].task, pc[c], seen[c], own[c])
           /\ job[c].op = "single" =>
                 SingleKnows(tasks, recurrences, job[c].task, pc[c], seen[c].recurrence,
                             rows[c], own[c])
           /\ job[c].op = "delete" =>
                 DeleteKnows(tasks, recurrences, job[c].task, pc[c], seen[c].recurrence,
                             rows[c], own[c])
           /\ pc[c] = "set" => job[c].op \in {"complete", "reopen"}
           /\ pc[c] \in {"next", "load"} => job[c].op = "complete"
           /\ pc[c] = "revert" => job[c].op = "reopen"
           /\ pc[c] = "assign" => job[c].op \in {"repeat", "single"}
           /\ pc[c] \in {"attach", "touch"} => job[c].op = "repeat"
           /\ pc[c] \in {"scan", "unset", "unlink"} => job[c].op \in {"single", "delete"}
           /\ pc[c] = "remove" => job[c].op \in {"reopen", "delete"}
           /\ job[c].op \in {"complete", "reopen", "repeat", "single", "delete"}
<1> DEFINE op == job[c].op
<1>1. Knows(tasks, recurrences, job[c], pc[c], seen[c], rows[c], own[c]) /\ job[c] \in Job
  BY Known
<1>2. op \in {"complete", "reopen", "repeat", "single", "delete"}
  BY <1>1 DEF Job, Ops, Toggles, Updates
<1>3. /\ op = "complete" => pc[c] \in {"set", "next", "load", "commit", "fail"}
      /\ op = "reopen" => pc[c] \in {"set", "revert", "remove", "commit", "fail"}
      /\ op = "repeat" => pc[c] \in {"assign", "attach", "touch", "commit"}
      /\ op = "single" => pc[c] \in {"assign", "scan", "unset", "unlink", "commit"}
      /\ op = "delete" => pc[c] \in {"scan", "unset", "unlink", "remove", "commit"}
  BY <1>1 DEF Knows, CompleteKnows, ReopenKnows, RepeatKnows, SingleKnows, DeleteKnows
<1> QED
  BY <1>1, <1>2, <1>3 DEF Knows

LEMMA SetKnows == ASSUME Inv, SInv, NEW c \in Connections, SetStatement(c) PROVE SInv'
<1> DEFINE t == job[c].task
           s == seen[c]
           op == job[c].op
           b == op = "complete"
           U == SetCompleted(tasks, t, b)
           next == CASE s.current = NULL -> "commit"
                     [] s.current = t /\ job[c].op = "complete" -> "next"
                     [] s.current # NULL /\ s.previous = t /\ job[c].op = "reopen" -> "revert"
                     [] OTHER -> "fail"
<1>1. pc[c] = "set"
  BY DEF SetStatement
<1>2. /\ op \in {"complete", "reopen"} /\ t # NULL
      /\ op = "complete" => CompleteKnows(tasks, recurrences, t, "set", s, own[c])
      /\ op = "reopen" => ReopenKnows(tasks, recurrences, t, "set", s, own[c])
      /\ IsSeen(s)
  BY <1>1, OpOf, NullAssumption DEF Job
<1>3. own[c] = Nothing
  BY <1>2 DEF CompleteKnows, ReopenKnows
<1>4. Tasks(c) = tasks /\ Recs(c) = recurrences
  BY <1>3, ViewNothing
<1>5. CASE t \notin DOMAIN tasks
  BY <1>4, <1>5, FailKnows DEF SetStatement
<1>6. CASE t \in DOMAIN tasks
  <2>1. Execute(c, U, recurrences, {t}, {}, next)
    BY <1>1, <1>4, <1>6 DEF SetStatement, WriteTasks, NeededTasks
  <2>2. IsPlain(tasks) /\ b \in BOOLEAN
    BY Known DEF Refs
  <2> HIDE DEF b
  <2>3. DOMAIN U = DOMAIN tasks
    BY DEF SetCompleted
  <2>4. /\ op = "complete" => next = IF s.current = NULL THEN "commit"
                                     ELSE IF s.current = t THEN "next" ELSE "fail"
        /\ op = "reopen" => next = IF s.current = NULL THEN "commit"
                                   ELSE IF s.previous = t THEN "revert" ELSE "fail"
    <3> HIDE DEF t
    <3> QED
      BY <1>2
  <2> HIDE DEF next, U
  <2>5. Owns(own'[c], U, {t}, recurrences, {})
    <3>1. Owns(own[c], U, {}, recurrences, {})
      BY <1>3, NothingOwns
    <3>2. Owns(own'[c], U, {} \cup {t}, recurrences, {} \cup {})
      BY <2>1, <3>1, ExecuteOwns
    <3>3. {} \cup {t} = {t} /\ {} \cup {} = {}
      OBVIOUS
    <3> QED
      BY <3>2, <3>3
  <2>6. ASSUME op = "complete"
        PROVE  CompleteKnows(tasks, recurrences, t, next, s, own'[c])
    BY <1>2, <1>6, <2>4, <2>5, <2>6 DEF CompleteKnows, U, b
  <2>7. ASSUME op = "reopen"
        PROVE  ReopenKnows(tasks, recurrences, t, next, s, own'[c])
    <3>1. U = SetCompleted(tasks, t, FALSE)
      BY <2>7 DEF U, b
    <3> QED
      BY <1>2, <1>6, <2>4, <2>5, <2>7, <3>1 DEF ReopenKnows
  <2>8. Knows(tasks, recurrences, job[c], next, s, rows[c], own'[c])
    <3>1. Knows(tasks, recurrences, job[c], "set", s, rows[c], own[c])
      BY <1>1, Known
    <3>2. next \in {"commit", "next", "revert", "fail"}
      BY <1>2, <2>4
    <3> QED
      BY <1>2, <2>6, <2>7, <3>1, <3>2 DEF Knows
  <2> QED
    BY <1>4, <2>1, <2>3, <2>8, ExecuteKnows
<1> QED
  BY <1>5, <1>6

LEMMA NextKnows ==
    ASSUME Inv, SInv, NEW c \in Connections, NEW n \in TaskIds, NextStatement(c, n)
    PROVE  SInv'
<1> DEFINE t == job[c].task
           s == seen[c]
           r == s.recurrence
           U == SetCompleted(tasks, t, TRUE)
           row == NextOccurrence(tasks, t)
           V == Put(U, n, row)
           Q == Put(recurrences, r, n)
<1>1. pc[c] = "next"
  BY DEF NextStatement
<1>2. /\ job[c].op = "complete"
      /\ CompleteKnows(tasks, recurrences, t, "next", s, own[c])
      /\ IsSeen(s) /\ t # NULL
  BY <1>1, OpOf, NullAssumption DEF Job
<1>3. /\ t \in DOMAIN tasks /\ tasks[t].recurrence = r /\ s.current = t
      /\ Owns(own[c], U, {t}, recurrences, {})
  BY <1>2 DEF CompleteKnows
<1>4. IsPlain(tasks) /\ Refs(tasks, recurrences)
  BY Known DEF Refs
<1>5. /\ Near(tasks, U, {t}) /\ DOMAIN U = DOMAIN tasks
      /\ U[t] = [tasks[t] EXCEPT !.completed = TRUE]
  <2>1. Near(tasks, U, {t}) /\ DOMAIN U = DOMAIN tasks
    BY <1>3, <1>4, NearSet, SetRows
  <2>2. U[t] = [tasks[t] EXCEPT !.completed = TRUE]
    BY <1>3 DEF SetCompleted
  <2> QED
    BY <2>1, <2>2
<1>6. Near(recurrences, recurrences, {})
  BY <1>4, TableRows, NearItself
<1>7. Tasks(c) = U /\ Recs(c) = recurrences
  BY <1>3, <1>5, <1>6, ViewOwned
<1>8. r \in DOMAIN recurrences
  BY <1>2, <1>3, <1>4 DEF IsSeen, Refs
<1>9. U[t].recurrence = r /\ NextOccurrence(U, t) = row
  <2>1. tasks[t] \in PlainTask
    BY <1>3, <1>4 DEF IsPlain
  <2>2. \A x \in PlainTask : LET y == [x EXCEPT !.completed = TRUE] IN
           /\ y.recurrence = x.recurrence
           /\ [y EXCEPT !.completed = FALSE, !.previous = t] = [x EXCEPT !.completed = FALSE, !.previous = t]
    BY DEF PlainTask
  <2> QED
    BY <1>3, <1>5, <2>1, <2>2 DEF NextOccurrence
<1>10. UnusedTask(n) /\ Execute(c, V, Q, {n}, {r}, "load")
  <2> HIDE DEF U, row
  <2> QED
    BY <1>7, <1>8, <1>9 DEF NextStatement
<1>11. n \notin DOMAIN tasks
  BY <1>10 DEF UnusedTask
<1>12. DOMAIN V = DOMAIN U \cup {n} /\ DOMAIN Q = DOMAIN recurrences
  BY <1>8 DEF Put
<1>13. Owns(own'[c], V, {t, n}, Q, {r})
  <2>1. Owns(own'[c], V, {t} \cup {n}, Q, {} \cup {r})
    <3> HIDE DEF U, V, Q, r
    <3> QED
      BY <1>3, <1>10, ExecuteOwns
  <2>2. {t} \cup {n} = {t, n} /\ {} \cup {r} = {r}
    OBVIOUS
  <2> QED
    BY <2>1, <2>2
<1>14. CompleteKnows(tasks, recurrences, t, "load", s, own'[c])
  BY <1>2, <1>3, <1>11, <1>13 DEF CompleteKnows
<1>15. Knows(tasks, recurrences, job[c], "load", s, rows[c], own'[c])
  <2>1. Knows(tasks, recurrences, job[c], "next", s, rows[c], own[c])
    BY <1>1, Known
  <2> QED
    BY <1>2, <1>14, <2>1 DEF Knows
<1> HIDE DEF V, Q
<1> QED
  BY <1>7, <1>10, <1>12, <1>15, ExecuteKnows

LEMMA LoadKnows == ASSUME Inv, SInv, NEW c \in Connections, LoadPrevious(c) PROVE SInv'
<1> DEFINE t == job[c].task
           s == seen[c]
<1>1. pc[c] = "load"
  BY DEF LoadPrevious
<1>2. CASE Rollback(c)
  BY <1>2, RollbackKnows
<1>3. CASE /\ pc' = [pc EXCEPT ![c] = "commit"]
           /\ UNCHANGED <<tasks, recurrences, job, seen, rows, own>>
  <2>1. /\ job[c].op = "complete" /\ t # NULL
        /\ CompleteKnows(tasks, recurrences, t, "load", s, own[c])
    BY <1>1, OpOf, NullAssumption DEF Job
  <2>2. CompleteKnows(tasks, recurrences, t, "commit", s, own[c])
    BY <2>1 DEF CompleteKnows
  <2>3. Knows(tasks, recurrences, job[c], "load", s, rows[c], own[c])
    BY <1>1, Known
  <2>4. Knows(tasks, recurrences, job[c], "commit", s, rows[c], own[c])
    BY <2>1, <2>2, <2>3 DEF Knows
  <2>5. rows' = [rows EXCEPT ![c] = rows[c]]
    BY <1>3 DEF SInv
  <2> QED
    BY <1>3, <2>4, <2>5, QuietKnows
<1> QED
  BY <1>2, <1>3 DEF LoadPrevious

LEMMA RevertKnows == ASSUME Inv, SInv, NEW c \in Connections, RevertStatement(c) PROVE SInv'
<1> DEFINE t == job[c].task
           s == seen[c]
           r == s.recurrence
           x == s.current
           U == SetCompleted(tasks, t, FALSE)
           V == Revert(recurrences, t, x)
           qs == {q \in DOMAIN recurrences : recurrences[q] = x}
<1>1. pc[c] = "revert"
  BY DEF RevertStatement
<1>2. /\ job[c].op = "reopen" /\ IsSeen(s) /\ t # NULL
      /\ ReopenKnows(tasks, recurrences, t, "revert", s, own[c])
  BY <1>1, OpOf, NullAssumption DEF Job
<1>3. /\ t \in DOMAIN tasks /\ tasks[t].recurrence = r /\ x # NULL /\ s.previous = t
      /\ Owns(own[c], U, {t}, recurrences, {})
      /\ IsPrevious(tasks, x) \/ Stays(tasks, recurrences, t, s)
  BY <1>2 DEF ReopenKnows
<1>4. IsPlain(tasks) /\ Refs(tasks, recurrences) /\ Sound(tasks, recurrences)
  BY Known DEF Refs
<1>5. Near(tasks, U, {t})
  BY <1>3, <1>4, NearSet, SetRows
<1>6. Near(recurrences, recurrences, {})
  BY <1>4, TableRows, NearItself
<1>7. Tasks(c) = U /\ Recs(c) = recurrences
  BY <1>3, <1>5, <1>6, ViewOwned
<1>8. Execute(c, U, V, {}, qs, "remove")
  BY <1>1, <1>3, <1>7 DEF RevertStatement, NeededRecs
<1>9. DOMAIN V = DOMAIN recurrences
  BY DEF Revert
<1>10. Owns(own'[c], U, {t}, V, qs)
  <2>1. Owns(own'[c], U, {t} \cup {}, V, {} \cup qs)
    <3> HIDE DEF U, V, qs
    <3> QED
      BY <1>3, <1>8, ExecuteOwns
  <2>2. {t} \cup {} = {t} /\ {} \cup qs = qs
    OBVIOUS
  <2> QED
    BY <2>1, <2>2
<1>11. CASE IsPrevious(tasks, x)
  <2>1. ReopenKnows(tasks, recurrences, t, "remove", s, own'[c])
    BY <1>2, <1>3, <1>10, <1>11 DEF ReopenKnows, Owns
  <2>2. Knows(tasks, recurrences, job[c], "remove", s, rows[c], own'[c])
    <3>1. Knows(tasks, recurrences, job[c], "revert", s, rows[c], own[c])
      BY <1>1, Known
    <3> QED
      BY <1>2, <2>1, <3>1 DEF Knows
  <2> HIDE DEF U, V
  <2> QED
    BY <1>7, <1>8, <1>9, <2>2, ExecuteKnows
<1>12. CASE Stays(tasks, recurrences, t, s)
  <2>1. qs = {r} /\ V = Put(recurrences, r, t)
    <3>1. Reopening(tasks, recurrences, t, x, r)
      BY <1>2, <1>3, <1>4, <1>12 DEF IsSeen, Stays, Reopening
    <3>2. SameRecurrences(tasks, tasks)
      BY DEF SameRecurrences
    <3>3. /\ r \in DOMAIN recurrences /\ \A q \in DOMAIN recurrences : recurrences[q] = x <=> q = r
          /\ Revert(recurrences, t, x) = Put(recurrences, r, t)
      BY <3>1, <3>2, ReopenTables
    <3> QED
      BY <3>3
  <2>2. ReopenKnows(tasks, recurrences, t, "remove", s, own'[c])
    BY <1>2, <1>3, <1>10, <1>12, <2>1 DEF ReopenKnows, Owns
  <2>3. Knows(tasks, recurrences, job[c], "remove", s, rows[c], own'[c])
    <3>1. Knows(tasks, recurrences, job[c], "revert", s, rows[c], own[c])
      BY <1>1, Known
    <3> QED
      BY <1>2, <2>2, <3>1 DEF Knows
  <2> HIDE DEF U, V
  <2> QED
    BY <1>7, <1>8, <1>9, <2>3, ExecuteKnows
<1> QED
  BY <1>3, <1>11, <1>12

LEMMA RemoveReopenKnows ==
    ASSUME Inv, SInv, NEW c \in Connections, RemoveStatement(c), job[c].op = "reopen"
    PROVE  SInv'
<1> DEFINE t == job[c].task
           s == seen[c]
           r == s.recurrence
           x == s.current
           U == SetCompleted(tasks, t, FALSE)
           V == Put(recurrences, r, t)
<1>1. pc[c] = "remove" /\ Doomed(c) = x
  BY DEF RemoveStatement, Doomed
<1>2. /\ IsSeen(s) /\ t # NULL
      /\ ReopenKnows(tasks, recurrences, t, "remove", s, own[c])
  BY <1>1, OpOf, NullAssumption DEF Job
<1>3. /\ t \in DOMAIN tasks /\ tasks[t].recurrence = r /\ x # NULL /\ s.previous = t
      /\ Wrote(own[c].tasks, U, {t})
      /\ IsPrevious(tasks, x) \/ (Stays(tasks, recurrences, t, s) /\ Wrote(own[c].recs, V, {r}))
  BY <1>2 DEF ReopenKnows
<1>4. IsPlain(tasks) /\ Refs(tasks, recurrences) /\ Sound(tasks, recurrences)
  BY Known DEF Refs
<1>5. /\ Near(tasks, U, {t}) /\ DOMAIN U = DOMAIN tasks
      /\ \A k \in DOMAIN tasks : U[k].previous = tasks[k].previous
  <2>1. Near(tasks, U, {t})
    BY <1>3, <1>4, NearSet
  <2>2. DOMAIN U = DOMAIN tasks
    BY <1>3, <1>4, SetRows
  <2>3. \A k \in DOMAIN tasks : U[k].previous = tasks[k].previous
    BY <1>3, <1>4, SetFields
  <2> QED
    BY <2>1, <2>2, <2>3
<1>6. Tasks(c) = U
  BY <1>3, <1>5, ViewOf DEF Tasks
<1>7. CASE Fail(c)
  BY <1>7, FailKnows
<1>8. CASE ~Fail(c)
  <2>1. /\ ~IsPrevious(U, x)
        /\ Execute(c, DeleteRow(U, Recs(c), x), CascadeRow(Recs(c), x), NeededTasks(c),
                   NeededRecs(c), "commit")
    BY <1>1, <1>6, <1>8 DEF RemoveStatement
  <2>2. ~IsPrevious(tasks, x)
    BY <1>5, <2>1 DEF IsPrevious
  <2>3. Stays(tasks, recurrences, t, s) /\ Wrote(own[c].recs, V, {r})
    BY <1>3, <2>2
  <2>4. /\ r \in DOMAIN recurrences
        /\ \A q \in DOMAIN V : V[q] # x
        /\ \A k \in DOMAIN U : CurrentOf(U, V, k) # x
        /\ DeleteRow(U, V, x) = Without(U, x)
        /\ CascadeRow(V, x) = V
    <3>1. Reopening(tasks, recurrences, t, x, r)
      BY <1>2, <1>3, <1>4, <2>3 DEF IsSeen, Stays, Reopening
    <3>2. SameRecurrences(tasks, U)
      <4>1. \A k \in DOMAIN tasks : U[k].recurrence = tasks[k].recurrence
        BY <1>3, <1>4, SetFields
      <4> QED
        BY <1>5, <4>1 DEF SameRecurrences
    <3> HIDE DEF U
    <3> QED
      BY <3>1, <3>2, ReopenTables
  <2>5. Recs(c) = V /\ DOMAIN V = DOMAIN recurrences
    <3>1. Near(recurrences, V, {r})
      <4>1. \A k \in DOMAIN recurrences : recurrences[k] # NULL
        BY <1>4, TableRows
      <4> QED
        BY <1>2, <4>1, NearPut
    <3> QED
      BY <2>3, <2>4, <3>1, ViewOf DEF Recs, Put
  <2>6. Execute(c, Without(U, x), V, {x}, {}, "commit")
    <3>1. NeededTasks(c) = {x} \cup {k \in DOMAIN U : CurrentOf(U, V, k) = x}
      BY <1>1, <1>6, <2>5 DEF NeededTasks
    <3>2. NeededRecs(c) = {q \in DOMAIN V : V[q] = x}
      BY <1>1, <2>5 DEF NeededRecs
    <3> HIDE DEF U, V
    <3> QED
      BY <2>1, <2>4, <2>5, <3>1, <3>2
  <2>7. Owns(own'[c], Without(U, x), {t, x}, V, {r})
    <3>1. Owns(own[c], U, {t}, V, {r})
      BY <1>3, <2>3 DEF Owns
    <3>2. Owns(own'[c], Without(U, x), {t} \cup {x}, V, {r} \cup {})
      <4> HIDE DEF U, V
      <4> QED
        BY <2>6, <3>1, ExecuteOwns
    <3>3. {t} \cup {x} = {t, x} /\ {r} \cup {} = {r}
      OBVIOUS
    <3> QED
      BY <3>2, <3>3
  <2>8. ReopenKnows(tasks, recurrences, t, "commit", s, own'[c])
    BY <1>2, <1>3, <2>2, <2>3, <2>7 DEF ReopenKnows
  <2>9. Knows(tasks, recurrences, job[c], "commit", s, rows[c], own'[c])
    <3>1. Knows(tasks, recurrences, job[c], "remove", s, rows[c], own[c])
      BY <1>1, Known
    <3> QED
      BY <1>2, <2>8, <3>1 DEF Knows
  <2>10. DOMAIN Without(U, x) \subseteq DOMAIN U
    BY DEF Without
  <2> HIDE DEF U, V
  <2> QED
    BY <1>6, <2>5, <2>6, <2>9, <2>10, ExecuteKnows
<1> QED
  BY <1>7, <1>8

LEMMA RemoveDeleteKnows ==
    ASSUME Inv, SInv, NEW c \in Connections, RemoveStatement(c), job[c].op = "delete"
    PROVE  SInv'
<1> DEFINE t == job[c].task
           r == seen[c].recurrence
           q == tasks[t].recurrence
           D == Dissolved(tasks, r)
           W == Without(recurrences, r)
           E == Dissolved(tasks, q)
           F == Without(recurrences, q)
<1>1. pc[c] = "remove" /\ Doomed(c) = t
  BY DEF RemoveStatement, Doomed
<1>2. DeleteKnows(tasks, recurrences, t, "remove", r, rows[c], own[c]) /\ t # NULL /\ t \in TaskIds
  BY <1>1, OpOf, NullAssumption DEF Job
<1>3. /\ r \in DOMAIN recurrences => recurrences[r] = t
      /\ t \in DOMAIN tasks /\ q \notin {NULL, r} => Members(tasks, q) = {t}
      /\ Owns(own[c], D, Members(tasks, r), W, {r} \cap DOMAIN recurrences)
  BY <1>2 DEF DeleteKnows, DissolveKnows
<1>4. IsPlain(tasks) /\ Refs(tasks, recurrences) /\ Sound(tasks, recurrences)
  BY Known DEF Refs
<1>5. /\ Near(tasks, D, Members(tasks, r)) /\ DOMAIN D = DOMAIN tasks
      /\ Near(recurrences, W, {r} \cap DOMAIN recurrences)
  <2>1. D = Dissolved(tasks, r) /\ W = Without(recurrences, r)
    OBVIOUS
  <2>2. \A k \in DOMAIN recurrences : recurrences[k] # NULL
    BY <1>4, TableRows
  <2> HIDE DEF D, W
  <2> QED
    BY <1>4, <2>1, <2>2, DissolvedRows, NearWithout
<1>6. Tasks(c) = D /\ Recs(c) = W
  <2> HIDE DEF D, W
  <2> QED
    BY <1>3, <1>5, ViewOwned
<1>7. CASE Fail(c)
  BY <1>7, FailKnows
<1>8. CASE ~Fail(c)
  <2>1. /\ t \in DOMAIN tasks /\ ~IsPrevious(D, t)
        /\ Execute(c, DeleteRow(D, W, t), CascadeRow(W, t), NeededTasks(c),
                   NeededRecs(c), "commit")
    BY <1>1, <1>5, <1>6, <1>8 DEF RemoveStatement
  <2>2. /\ NeededTasks(c) = {t} \cup {k \in DOMAIN D : CurrentOf(D, W, k) = t}
        /\ NeededRecs(c) = {a \in DOMAIN W : W[a] = t}
    BY <1>1, <1>6 DEF NeededTasks, NeededRecs
  \* Either way the rows written in the end are those of q, and t.
  <2>3. /\ ~IsPrevious(E, t)
        /\ Owns(own'[c], Without(E, t), Members(tasks, q) \cup {t}, F, {q} \cap DOMAIN recurrences)
        /\ Execute(c, Without(E, t), F, NeededTasks(c), NeededRecs(c), "commit")
    <3>1. CASE q \in {NULL, r}
      <4>1. /\ Members(tasks, r) = Members(tasks, q) /\ D = E /\ W = F
            /\ {r} \cap DOMAIN recurrences = {q} \cap DOMAIN recurrences
            /\ q # NULL => recurrences[q] = t
        <5>1. CASE q = r
          BY <1>3, <1>4, <2>1, <5>1 DEF Refs
        <5>2. CASE q # r
          <6>1. q = NULL /\ r \notin DOMAIN recurrences /\ NULL \notin DOMAIN recurrences
            BY <1>3, <1>4, <3>1, <5>2, NullAssumption DEF Sound, Refs, IsRecurrenceTable
          <6>2. /\ Members(tasks, r) = {} /\ D = tasks /\ W = recurrences
                /\ Members(tasks, NULL) = {} /\ E = tasks /\ F = recurrences
            BY <1>4, <6>1, NoMembersLeft
          <6> QED
            BY <6>1, <6>2
        <5> QED
          BY <5>1, <5>2
      <4>2. /\ \A a \in DOMAIN F : F[a] # t
            /\ \A k \in DOMAIN E : CurrentOf(E, F, k) # t
            /\ DeleteRow(E, F, t) = Without(E, t)
            /\ CascadeRow(F, t) = F
        <5>1. q = tasks[t].recurrence /\ E = Dissolved(tasks, q) /\ F = Without(recurrences, q)
          OBVIOUS
        <5> HIDE DEF q, E, F
        <5> QED
          BY <1>4, <2>1, <4>1, <5>1, DeleteTables
      <4> HIDE DEF D, W, E, F
      <4>3. Execute(c, Without(E, t), F, {t}, {}, "commit") /\ NeededTasks(c) = {t} /\ NeededRecs(c) = {}
        BY <2>1, <2>2, <4>1, <4>2
      <4>4. Owns(own[c], E, Members(tasks, q), F, {q} \cap DOMAIN recurrences)
        BY <1>3, <4>1
      <4>5. Owns(own'[c], Without(E, t), Members(tasks, q) \cup {t}, F,
                 ({q} \cap DOMAIN recurrences) \cup {})
        BY <4>3, <4>4, ExecuteOwns
      <4>6. ({q} \cap DOMAIN recurrences) \cup {} = {q} \cap DOMAIN recurrences
        OBVIOUS
      <4> QED
        BY <2>1, <4>1, <4>3, <4>5, <4>6
    <3>2. CASE q \notin {NULL, r}
      <4>1. Members(tasks, q) = {t}
        BY <1>3, <2>1, <3>2
      <4>2. q \in DOMAIN recurrences /\ recurrences[q] = t
        <5>1. q \in DOMAIN recurrences
          BY <1>4, <2>1, <3>2 DEF Refs
        <5>2. recurrences[q] \in Members(tasks, q)
          BY <1>4, <3>2, <5>1 DEF Sound, Refs, Members
        <5> QED
          BY <4>1, <5>1, <5>2
      <4>3. r \notin DOMAIN recurrences
        BY <1>3, <1>4, <3>2 DEF Sound
      <4>4. Members(tasks, r) = {} /\ D = tasks /\ W = recurrences
        BY <1>4, <4>3, NoMembersLeft
      <4>5. \A a \in DOMAIN recurrences : recurrences[a] = t <=> a = q
        BY <1>4, <4>2 DEF Sound
      <4>6. \A k \in DOMAIN tasks \ {t} : CurrentOf(tasks, recurrences, k) # t
        <5>1. \A k \in DOMAIN tasks : tasks[k].recurrence = q => k = t
          BY <3>2, <4>1 DEF Members
        <5> QED
          BY <1>2, <1>4, <4>5, <5>1 DEF CurrentOf, Refs
      <4>7. DeleteRow(tasks, recurrences, t) = Without(E, t)
        BY <4>1, <4>6 DEF DeleteRow, Without, Dissolved
      <4>8. CascadeRow(recurrences, t) = F
        <5>1. {a \in DOMAIN recurrences : recurrences[a] # t} = DOMAIN recurrences \ {q}
          BY <4>5
        <5> QED
          BY <5>1 DEF CascadeRow, Without, Restrict
      <4>9. NeededTasks(c) = {t} /\ NeededRecs(c) = {q}
        <5>1. CurrentOf(tasks, recurrences, t) = t
          BY <3>2, <4>2 DEF CurrentOf
        <5> QED
          BY <2>1, <2>2, <4>2, <4>4, <4>5, <4>6, <5>1
      <4>10. ~IsPrevious(E, t)
        BY <2>1, <4>1, <4>4 DEF IsPrevious, Dissolved
      <4> HIDE DEF D, W, E, F
      <4>11. Execute(c, Without(E, t), F, {t}, {q}, "commit")
        BY <2>1, <4>4, <4>7, <4>8, <4>9
      <4>12. Owns(own'[c], Without(E, t), {} \cup {t}, F,
                  ({r} \cap DOMAIN recurrences) \cup {q})
        BY <1>3, <4>4, <4>11, ExecuteOwns
      <4>13. /\ {} \cup {t} = Members(tasks, q) \cup {t}
             /\ ({r} \cap DOMAIN recurrences) \cup {q} = {q} \cap DOMAIN recurrences
        BY <4>1, <4>2, <4>3
      <4> QED
        BY <4>9, <4>10, <4>11, <4>12, <4>13
    <3> QED
      BY <3>1, <3>2
  <2>4. DeleteKnows(tasks, recurrences, t, "commit", r, rows[c], own'[c])
    BY <1>2, <2>1, <2>3 DEF DeleteKnows, DissolveKnows
  <2>5. Knows(tasks, recurrences, job[c], "commit", seen[c], rows[c], own'[c])
    <3>1. Knows(tasks, recurrences, job[c], "remove", seen[c], rows[c], own[c])
      BY <1>1, Known
    <3> QED
      BY <1>2, <2>4, <3>1 DEF Knows
  <2>6. /\ \A k \in DOMAIN Without(E, t) : k \in DOMAIN D
        /\ \A a \in DOMAIN F : a \in DOMAIN W \/ UnusedRec(a)
    <3>1. DOMAIN Without(E, t) \subseteq DOMAIN tasks
      BY DEF Without, Dissolved
    <3>2. DOMAIN F \subseteq DOMAIN W
      <4>1. CASE q = r
        BY <4>1
      <4>2. CASE q # r
        <5>1. r \notin DOMAIN recurrences
          BY <1>3, <1>4, <4>2 DEF Sound
        <5> QED
          BY <5>1 DEF Without
      <4> QED
        BY <4>1, <4>2
    <3> QED
      BY <1>5, <3>1, <3>2
  <2> HIDE DEF D, W, E, F
  <2> QED
    BY <1>6, <2>3, <2>5, <2>6, ExecuteKnows
<1> QED
  BY <1>7, <1>8

LEMMA RemoveKnows == ASSUME Inv, SInv, NEW c \in Connections, RemoveStatement(c) PROVE SInv'
<1>1. pc[c] = "remove"
  BY DEF RemoveStatement
<1>2. job[c].op \in {"reopen", "delete"}
  BY <1>1, OpOf
<1> QED
  BY <1>2, RemoveReopenKnows, RemoveDeleteKnows

LEMMA AssignKnows == ASSUME Inv, SInv, NEW c \in Connections, AssignStatement(c) PROVE SInv'
<1> DEFINE t == job[c].task
           op == job[c].op
           s == seen[c]
           r == s.recurrence
           next == CASE op = "single" /\ r = NULL -> "commit"
                     [] op = "single" /\ r # NULL -> "scan"
                     [] op = "repeat" /\ r # NULL -> "touch"
                     [] OTHER -> "attach"
<1>1. pc[c] = "assign"
  BY DEF AssignStatement
<1>2. /\ op \in {"repeat", "single"}
      /\ op = "repeat" => RepeatKnows(tasks, recurrences, t, "assign", s, own[c])
      /\ op = "single" => SingleKnows(tasks, recurrences, t, "assign", r, rows[c], own[c])
  BY <1>1, OpOf
<1>3. own[c] = Nothing
  BY <1>2 DEF RepeatKnows, SingleKnows
<1>4. Tasks(c) = tasks /\ Recs(c) = recurrences
  BY <1>3, ViewNothing
<1>5. CASE t \notin DOMAIN tasks
  BY <1>4, <1>5, FailKnows DEF AssignStatement
<1>6. CASE t \in DOMAIN tasks
  <2>1. Execute(c, tasks, recurrences, {t}, {}, next)
    BY <1>1, <1>4, <1>6 DEF AssignStatement, WriteTasks, NeededTasks
  <2>2. /\ op = "single" => next = IF r = NULL THEN "commit" ELSE "scan"
        /\ op = "repeat" => next = IF r = NULL THEN "attach" ELSE "touch"
    <3> HIDE DEF op, r
    <3> QED
      BY <1>2
  <2> HIDE DEF next
  <2>3. Owns(own'[c], tasks, {t}, recurrences, {})
    <3>1. Owns(own[c], tasks, {}, recurrences, {})
      BY <1>3, NothingOwns
    <3>2. Owns(own'[c], tasks, {} \cup {t}, recurrences, {} \cup {})
      BY <2>1, <3>1, ExecuteOwns
    <3>3. {} \cup {t} = {t} /\ {} \cup {} = {}
      OBVIOUS
    <3> QED
      BY <3>2, <3>3
  <2>4. ASSUME op = "repeat"
        PROVE  RepeatKnows(tasks, recurrences, t, next, s, own'[c])
    BY <1>2, <1>6, <2>2, <2>3, <2>4 DEF RepeatKnows
  <2>5. ASSUME op = "single"
        PROVE  SingleKnows(tasks, recurrences, t, next, r, rows[c], own'[c])
    <3>1. ASSUME r = NULL
          PROVE  /\ Dissolved(tasks, r) = tasks /\ Members(tasks, r) \cup {t} = {t}
                 /\ Without(recurrences, r) = recurrences /\ {r} \cap DOMAIN recurrences = {}
      <4>1. Refs(tasks, recurrences) /\ NULL \notin DOMAIN recurrences
        BY Known, NullAssumption DEF Refs, IsRecurrenceTable
      <4> QED
        BY <3>1, <4>1, NoMembersLeft
    <3> QED
      BY <1>2, <1>6, <2>2, <2>3, <2>5, <3>1 DEF SingleKnows, DissolveKnows
  <2>6. Knows(tasks, recurrences, job[c], next, s, rows[c], own'[c])
    <3>1. Knows(tasks, recurrences, job[c], "assign", s, rows[c], own[c])
      BY <1>1, Known
    <3>2. next \in {"commit", "scan", "touch", "attach"}
      BY <1>2, <2>2
    <3> QED
      BY <1>2, <2>4, <2>5, <3>1, <3>2 DEF Knows
  <2> QED
    BY <1>4, <2>1, <2>6, ExecuteKnows
<1> QED
  BY <1>5, <1>6

\* What update_task sees once it has written its task.
LEMMA AssignedView ==
    ASSUME Inv, SInv, NEW c \in Connections, NEW t, Owns(own[c], tasks, {t}, recurrences, {})
    PROVE  Tasks(c) = tasks /\ Recs(c) = recurrences
<1>1. Refs(tasks, recurrences)
  BY Known
<1>2. Near(tasks, tasks, {t}) /\ Near(recurrences, recurrences, {})
  BY <1>1, TableRows, NearItself
<1> QED
  BY <1>2, ViewOwned

LEMMA TouchKnows == ASSUME Inv, SInv, NEW c \in Connections, TouchStatement(c) PROVE SInv'
<1> DEFINE t == job[c].task
           s == seen[c]
           r == s.recurrence
<1>1. pc[c] = "touch"
  BY DEF TouchStatement
<1>2. job[c].op = "repeat" /\ RepeatKnows(tasks, recurrences, t, "touch", s, own[c])
  BY <1>1, OpOf
<1>3. Owns(own[c], tasks, {t}, recurrences, {}) /\ r # NULL /\ t \in DOMAIN tasks
  BY <1>2 DEF RepeatKnows
<1>4. Tasks(c) = tasks /\ Recs(c) = recurrences
  BY <1>3, AssignedView
<1>5. Execute(c, tasks, recurrences, {}, {r}, "commit")
  BY <1>1, <1>4 DEF TouchStatement, NeededRecs
<1>6. Owns(own'[c], tasks, {t}, recurrences, {r})
  <2>1. Owns(own'[c], tasks, {t} \cup {}, recurrences, {} \cup {r})
    BY <1>3, <1>5, ExecuteOwns
  <2>2. {t} \cup {} = {t} /\ {} \cup {r} = {r}
    OBVIOUS
  <2> QED
    BY <2>1, <2>2
<1>7. RepeatKnows(tasks, recurrences, t, "commit", s, own'[c])
  BY <1>2, <1>3, <1>6 DEF RepeatKnows
<1>8. Knows(tasks, recurrences, job[c], "commit", s, rows[c], own'[c])
  <2>1. Knows(tasks, recurrences, job[c], "touch", s, rows[c], own[c])
    BY <1>1, Known
  <2> QED
    BY <1>2, <1>7, <2>1 DEF Knows
<1> QED
  BY <1>4, <1>5, <1>8, ExecuteKnows

LEMMA AttachKnows ==
    ASSUME Inv, SInv, NEW c \in Connections, NEW r \in RecIds, AttachStatement(c, r)
    PROVE  SInv'
<1> DEFINE t == job[c].task
           s == seen[c]
           U == StartRecurrence(tasks, t, r)
           V == Put(recurrences, r, t)
<1>1. pc[c] = "attach"
  BY DEF AttachStatement
<1>2. job[c].op = "repeat" /\ RepeatKnows(tasks, recurrences, t, "attach", s, own[c])
  BY <1>1, OpOf
<1>3. Owns(own[c], tasks, {t}, recurrences, {}) /\ s.recurrence = NULL /\ t \in DOMAIN tasks
  BY <1>2 DEF RepeatKnows
<1>4. Tasks(c) = tasks /\ Recs(c) = recurrences
  BY <1>3, AssignedView
<1>5. Execute(c, U, V, {t}, {r}, "commit") /\ UnusedRec(r)
  BY <1>1, <1>4 DEF AttachStatement
<1>6. r \notin DOMAIN recurrences /\ DOMAIN U = DOMAIN tasks /\ DOMAIN V = DOMAIN recurrences \cup {r}
  BY <1>5 DEF UnusedRec, StartRecurrence, Put
<1>7. Owns(own'[c], U, {t}, V, {r})
  <2>1. Owns(own'[c], U, {t} \cup {t}, V, {} \cup {r})
    <3> HIDE DEF U, V
    <3> QED
      BY <1>3, <1>5, ExecuteOwns
  <2>2. {t} \cup {t} = {t} /\ {} \cup {r} = {r}
    OBVIOUS
  <2> QED
    BY <2>1, <2>2
<1>8. RepeatKnows(tasks, recurrences, t, "commit", s, own'[c])
  BY <1>2, <1>3, <1>6, <1>7 DEF RepeatKnows
<1>9. Knows(tasks, recurrences, job[c], "commit", s, rows[c], own'[c])
  <2>1. Knows(tasks, recurrences, job[c], "attach", s, rows[c], own[c])
    BY <1>1, Known
  <2> QED
    BY <1>2, <1>8, <2>1 DEF Knows
<1> HIDE DEF U, V
<1> QED
  BY <1>4, <1>5, <1>6, <1>9, ExecuteKnows

\* What the requests that dissolve a recurrence know until they do so.
LEMMA DissolveView ==
    ASSUME Inv, SInv, NEW c \in Connections, pc[c] \in {"scan", "unset"}
    PROVE  /\ Tasks(c) = tasks /\ Recs(c) = recurrences /\ seen[c].recurrence # NULL
           /\ Owns(own[c], tasks, IF job[c].op = "single" THEN {job[c].task} ELSE {},
                   recurrences, {})
<1> DEFINE t == job[c].task
           r == seen[c].recurrence
<1>1. /\ job[c].op \in {"single", "delete"}
      /\ job[c].op = "single" => SingleKnows(tasks, recurrences, t, pc[c], r, rows[c], own[c])
      /\ job[c].op = "delete" => DeleteKnows(tasks, recurrences, t, pc[c], r, rows[c], own[c])
  BY OpOf
<1>2. CASE job[c].op = "single"
  <2>1. Owns(own[c], tasks, {t}, recurrences, {}) /\ r # NULL
    BY <1>1, <1>2 DEF SingleKnows
  <2> QED
    BY <1>2, <2>1, AssignedView
<1>3. CASE job[c].op = "delete"
  <2>1. own[c] = Nothing /\ r # NULL
    BY <1>1, <1>3 DEF DeleteKnows
  <2>2. Owns(own[c], tasks, {}, recurrences, {})
    BY <2>1, NothingOwns
  <2> QED
    BY <1>3, <2>1, <2>2, ViewNothing
<1> QED
  BY <1>1, <1>2, <1>3

LEMMA ScanKnows == ASSUME Inv, SInv, NEW c \in Connections, ScanStatement(c) PROVE SInv'
<1> DEFINE t == job[c].task
           s == seen[c]
           r == s.recurrence
           f == {k \in DOMAIN tasks : tasks[k].recurrence = r}
<1>1. pc[c] = "scan"
  BY DEF ScanStatement
<1>2. Tasks(c) = tasks /\ r # NULL
  BY <1>1, DissolveView
<1>3. /\ pc' = [pc EXCEPT ![c] = "unset"] /\ rows' = [rows EXCEPT ![c] = f]
      /\ UNCHANGED <<tasks, recurrences, job, seen, own>>
  BY <1>2 DEF ScanStatement
<1>4. Members(tasks, r) \subseteq f
  BY DEF Members
<1>5. /\ job[c].op \in {"single", "delete"}
      /\ job[c].op = "single" => SingleKnows(tasks, recurrences, t, "scan", r, rows[c], own[c])
      /\ job[c].op = "delete" => DeleteKnows(tasks, recurrences, t, "scan", r, rows[c], own[c])
  BY <1>1, OpOf
<1> HIDE DEF f
<1>6. /\ job[c].op = "single" => SingleKnows(tasks, recurrences, t, "unset", r, f, own[c])
      /\ job[c].op = "delete" => DeleteKnows(tasks, recurrences, t, "unset", r, f, own[c])
  BY <1>4, <1>5 DEF SingleKnows, DeleteKnows, DissolveKnows
<1>7. Knows(tasks, recurrences, job[c], "unset", s, f, own[c])
  <2>1. Knows(tasks, recurrences, job[c], "scan", s, rows[c], own[c])
    BY <1>1, Known
  <2> QED
    BY <1>5, <1>6, <2>1 DEF Knows
<1> QED
  BY <1>3, <1>7, QuietKnows

LEMMA UnsetKnows == ASSUME Inv, SInv, NEW c \in Connections, UnsetStatement(c) PROVE SInv'
<1> DEFINE t == job[c].task
           s == seen[c]
           r == s.recurrence
           K == Members(tasks, r)
           found == {k \in rows[c] \cap DOMAIN tasks : tasks[k].recurrence = r}
           unset == UnsetRecurrence(tasks, r)
           D == Dissolved(tasks, r)
           ks == IF job[c].op = "single" THEN {t} ELSE {}
<1>1. pc[c] = "unset"
  BY DEF UnsetStatement
<1>2. Tasks(c) = tasks /\ Recs(c) = recurrences /\ r # NULL /\ Owns(own[c], tasks, ks, recurrences, {})
  BY <1>1, DissolveView
<1>3. /\ job[c].op \in {"single", "delete"}
      /\ job[c].op = "single" => SingleKnows(tasks, recurrences, t, "unset", r, rows[c], own[c])
      /\ job[c].op = "delete" => DeleteKnows(tasks, recurrences, t, "unset", r, rows[c], own[c])
  BY <1>1, OpOf
<1>4. K \subseteq rows[c]
  BY <1>3 DEF SingleKnows, DeleteKnows, DissolveKnows
<1>5. found = K
  BY <1>2, <1>4 DEF Members
<1>6. [k \in DOMAIN tasks |-> IF k \in found THEN unset[k] ELSE tasks[k]] = D
  <2>1. unset = D
    BY <1>2, Known, DissolveTables
  <2>2. \A k \in DOMAIN tasks \ K : D[k] = tasks[k]
    BY DEF Dissolved
  <2>3. D = [k \in DOMAIN tasks |-> D[k]]
    BY DEF Dissolved
  <2> HIDE DEF unset, D, found, K
  <2> QED
    BY <1>5, <2>1, <2>2, <2>3
<1>7. Execute(c, D, recurrences, K, {}, "unlink")
  <2>1. Execute(c, [k \in DOMAIN tasks |-> IF k \in found THEN unset[k] ELSE tasks[k]],
                recurrences, found, {}, "unlink")
    BY <1>2 DEF UnsetStatement
  <2> HIDE DEF D, found, unset, K
  <2> QED
    BY <1>5, <1>6, <2>1
<1>8. Owns(own'[c], D, ks \cup K, recurrences, {})
  <2>1. Owns(own'[c], D, ks \cup K, recurrences, {} \cup {})
    <3> HIDE DEF D, K, ks
    <3> QED
      BY <1>2, <1>7, ExecuteOwns
  <2> QED
    BY <2>1
<1>9. DOMAIN D = DOMAIN tasks
  BY DEF Dissolved
<1> HIDE DEF D
<1>10. /\ job[c].op = "single" => SingleKnows(tasks, recurrences, t, "unlink", r, rows[c], own'[c])
       /\ job[c].op = "delete" => DeleteKnows(tasks, recurrences, t, "unlink", r, rows[c], own'[c])
  <2>1. ASSUME job[c].op = "single"
        PROVE  SingleKnows(tasks, recurrences, t, "unlink", r, rows[c], own'[c])
    <3>1. ks \cup K = K \cup {t}
      BY <2>1
    <3> QED
      BY <1>2, <1>3, <1>8, <2>1, <3>1 DEF SingleKnows, DissolveKnows, D
  <2>2. ASSUME job[c].op = "delete"
        PROVE  DeleteKnows(tasks, recurrences, t, "unlink", r, rows[c], own'[c])
    <3>1. ks \cup K = K
      BY <2>2
    <3> QED
      BY <1>2, <1>3, <1>8, <2>2, <3>1 DEF DeleteKnows, DissolveKnows, D
  <2> QED
    BY <2>1, <2>2
<1>11. Knows(tasks, recurrences, job[c], "unlink", s, rows[c], own'[c])
  <2>1. Knows(tasks, recurrences, job[c], "unset", s, rows[c], own[c])
    BY <1>1, Known
  <2> QED
    BY <1>3, <1>10, <2>1 DEF Knows
<1> QED
  BY <1>2, <1>7, <1>9, <1>11, ExecuteKnows

LEMMA UnlinkKnows == ASSUME Inv, SInv, NEW c \in Connections, UnlinkStatement(c) PROVE SInv'
<1> DEFINE t == job[c].task
           s == seen[c]
           r == s.recurrence
           K == Members(tasks, r)
           D == Dissolved(tasks, r)
           W == Without(recurrences, r)
           qs == {r} \cap DOMAIN recurrences
           ks == IF job[c].op = "single" THEN K \cup {t} ELSE K
           next == IF job[c].op = "delete" THEN "remove" ELSE "commit"
<1>1. pc[c] = "unlink"
  BY DEF UnlinkStatement
<1>2. /\ job[c].op \in {"single", "delete"}
      /\ job[c].op = "single" => SingleKnows(tasks, recurrences, t, "unlink", r, rows[c], own[c])
      /\ job[c].op = "delete" => DeleteKnows(tasks, recurrences, t, "unlink", r, rows[c], own[c])
  BY <1>1, OpOf
<1>3. r # NULL /\ Owns(own[c], D, ks, recurrences, {})
  BY <1>2 DEF SingleKnows, DeleteKnows
<1>4. Refs(tasks, recurrences) /\ IsPlain(tasks)
  BY Known DEF Refs
<1>5. /\ Near(tasks, D, K) /\ DOMAIN D = DOMAIN tasks /\ Members(D, r) = {}
  <2>1. D = Dissolved(tasks, r)
    OBVIOUS
  <2> HIDE DEF D
  <2> QED
    BY <1>4, <2>1, DissolvedRows
<1>6. Near(tasks, D, ks) /\ Near(recurrences, recurrences, {})
  BY <1>4, <1>5, TableRows, NearItself DEF Near
<1>7. Tasks(c) = D /\ Recs(c) = recurrences
  <2> HIDE DEF D, ks
  <2> QED
    BY <1>3, <1>6, ViewOwned
<1>8. ClearRecurrence(D, r) = D /\ DropRecurrence(recurrences, r) = W
  BY <1>3, <1>4, DissolveTables
<1> HIDE DEF D, W
<1>9. NeededTasks(c) = {}
  <2>1. NeededTasks(c) = {k \in DOMAIN D : D[k].recurrence = r}
    BY <1>1, <1>7 DEF NeededTasks
  <2> QED
    BY <1>3, <1>5, <2>1 DEF Members
<1>10. Execute(c, D, W, {}, qs, next)
  BY <1>7, <1>8, <1>9 DEF UnlinkStatement
<1>11. Owns(own'[c], D, ks, W, qs)
  <2>1. Owns(own'[c], D, ks \cup {}, W, {} \cup qs)
    <3> HIDE DEF ks, qs, next
    <3> QED
      BY <1>3, <1>10, ExecuteOwns
  <2>2. ks \cup {} = ks /\ {} \cup qs = qs
    OBVIOUS
  <2> QED
    BY <2>1, <2>2
<1>12. DOMAIN W \subseteq DOMAIN recurrences
  BY DEF W, Without
<1>13. /\ job[c].op = "single" => SingleKnows(tasks, recurrences, t, next, r, rows[c], own'[c])
       /\ job[c].op = "delete" => DeleteKnows(tasks, recurrences, t, next, r, rows[c], own'[c])
  <2>1. ASSUME job[c].op = "single"
        PROVE  SingleKnows(tasks, recurrences, t, "commit", r, rows[c], own'[c])
    BY <1>2, <1>11, <2>1 DEF SingleKnows, DissolveKnows, D, W
  <2>2. ASSUME job[c].op = "delete"
        PROVE  DeleteKnows(tasks, recurrences, t, "remove", r, rows[c], own'[c])
    BY <1>2, <1>11, <2>2 DEF DeleteKnows, DissolveKnows, D, W
  <2> QED
    BY <2>1, <2>2
<1>14. Knows(tasks, recurrences, job[c], next, s, rows[c], own'[c])
  <2>1. Knows(tasks, recurrences, job[c], "unlink", s, rows[c], own[c])
    BY <1>1, Known
  <2> QED
    BY <1>2, <1>13, <2>1 DEF Knows
<1> HIDE DEF next, qs
<1> QED
  BY <1>5, <1>7, <1>10, <1>12, <1>14, ExecuteKnows

-----------------------------------------------------------------------------
(* What a request knows when another one changes the tables T and R to U   *)
(* and V                                                                   *)

\* The rows that w holds locked do not change.
Frozen(T, U, w) ==
    \A k \in DOMAIN w : /\ k \in DOMAIN U <=> k \in DOMAIN T
                        /\ k \in DOMAIN U => U[k] = T[k]

Moved(T, R, U, V, o) ==
    /\ Refs(T, R) /\ Sound(T, R) /\ Refs(U, V)
    /\ Frozen(T, U, o.tasks) /\ Frozen(R, V, o.recs)

\* No row gets the id t, and none another responsible user.
Keeps(T, U, t) ==
    \A k \in DOMAIN U :
        \/ k \in DOMAIN T /\ U[k].responsible = T[k].responsible
        \/ k \notin DOMAIN T /\ k # t

\* What others do while a request completes task t, ...
BesideComplete(T, R, U, V, t) ==
    /\ \A k \in DOMAIN T \cap DOMAIN U :
          /\ U[k].recurrence = T[k].recurrence
          /\ ~T[k].completed => ~U[k].completed
    /\ \A a \in DOMAIN R : R[a] = t /\ t \in DOMAIN U => V[a] = t

\* ... reopens it and has written w, ...
BesideReopen(T, R, U, V, w) ==
    /\ \A k \in DOMAIN T :
          /\ k \in DOMAIN U
          /\ U[k].recurrence = T[k].recurrence /\ U[k].previous = T[k].previous
          /\ T[k].completed => U[k].completed
    /\ \A k \in DOMAIN U \ DOMAIN T :
          U[k].previous = NULL \/ U[k].previous \notin DOMAIN w
    /\ \A a \in DOMAIN R :
          \/ V[a] = R[a]
          \/ V[a] \in DOMAIN U /\ V[a] # R[a] /\ U[V[a]].previous = R[a]

\* ... gives it a recurrence, ...
BesideRepeat(T, U) ==
    \A k \in DOMAIN T \cap DOMAIN U : U[k].recurrence \in {T[k].recurrence, NULL}

\* ... or dissolves recurrence r.
BesideDissolve(T, R, U, V, r) ==
    /\ \A k \in DOMAIN T \cap DOMAIN U :
          /\ U[k].previous \in {T[k].previous, NULL}
          /\ \/ U[k].recurrence \in {T[k].recurrence, NULL}
             \/ U[k].recurrence \notin DOMAIN R \cup {r} /\ Members(U, U[k].recurrence) = {k}
    /\ \A k \in DOMAIN U \ DOMAIN T : U[k].previous = NULL /\ U[k].recurrence = NULL
    /\ \A a \in DOMAIN V : IF a \in DOMAIN R THEN V[a] = R[a] ELSE a # r

Beside(T, R, U, V, j, s, o) ==
    /\ Keeps(T, U, j.task)
    /\ j.op = "complete" => BesideComplete(T, R, U, V, j.task)
    /\ j.op = "reopen" => BesideReopen(T, R, U, V, o.tasks)
    /\ j.op = "repeat" => BesideRepeat(T, U)
    /\ j.op \in {"single", "delete"} => BesideDissolve(T, R, U, V, s.recurrence)

LEMMA WroteFrozen ==
    ASSUME NEW T, NEW U, NEW w, Frozen(T, U, w), NEW A, NEW B, NEW ks, Wrote(w, A, ks),
           \A k \in ks : (k \in DOMAIN U <=> k \in DOMAIN T)
                         /\ (k \in DOMAIN U => U[k] = T[k])
                         => /\ k \in DOMAIN A <=> k \in DOMAIN B
                            /\ k \in DOMAIN A => B[k] = A[k]
    PROVE  Wrote(w, B, ks)
<1>1. DOMAIN w = ks
  BY WroteRows
<1>2. \A k \in ks : /\ k \in DOMAIN A <=> k \in DOMAIN B
                    /\ k \in DOMAIN A => B[k] = A[k]
  BY <1>1 DEF Frozen
<1> QED
  BY <1>2, WroteSame

LEMMA WroteItself ==
    ASSUME NEW T, NEW U, NEW w, Frozen(T, U, w), NEW ks, Wrote(w, T, ks)
    PROVE  Wrote(w, U, ks)
BY WroteFrozen

LEMMA SetFrozen ==
    ASSUME NEW T, NEW U, NEW w, Frozen(T, U, w), NEW t, NEW b, IsPlain(T), IsPlain(U),
           Wrote(w, SetCompleted(T, t, b), {t}), t \in DOMAIN T
    PROVE  Wrote(w, SetCompleted(U, t, b), {t}) /\ t \in DOMAIN U /\ U[t] = T[t]
<1>1. t \in DOMAIN w
  BY WroteRows
<1>2. t \in DOMAIN U /\ U[t] = T[t]
  BY <1>1 DEF Frozen
<1> DEFINE A == SetCompleted(T, t, b)
           B == SetCompleted(U, t, b)
<1>3. /\ DOMAIN A = DOMAIN T /\ DOMAIN B = DOMAIN U
      /\ A[t] = [T[t] EXCEPT !.completed = b] /\ B[t] = [U[t] EXCEPT !.completed = b]
  BY <1>2 DEF SetCompleted
<1> HIDE DEF A, B
<1>4. Wrote(w, A, {t})
  BY DEF A
<1>5. A[t] = B[t]
  BY <1>2, <1>3
<1>6. Wrote(w, B, {t})
  BY <1>2, <1>3, <1>4, <1>5, WroteSame
<1> QED
  BY <1>2, <1>6 DEF B

LEMMA BesideCompleteKnows ==
    ASSUME NEW T, NEW R, NEW U, NEW V, NEW o, Moved(T, R, U, V, o),
           NEW t, NEW p, NEW s, IsSeen(s), CompleteKnows(T, R, t, p, s, o),
           Keeps(T, U, t), BesideComplete(T, R, U, V, t)
    PROVE  CompleteKnows(U, V, t, p, s, o)
<1> DEFINE r == s.recurrence
<1>1. /\ IsPlain(T) /\ IsPlain(U) /\ Frozen(T, U, o.tasks) /\ Frozen(R, V, o.recs)
      /\ Refs(T, R)
  BY DEF Moved, Refs
<1>2. ASSUME t \in DOMAIN U
      PROVE  ~U[t].completed /\ U[t].recurrence = r /\ (s.current = t => V[r] = t)
  <2>1. /\ t \in DOMAIN T /\ ~T[t].completed /\ T[t].recurrence = r
        /\ s.current = t => R[r] = t
    BY <1>2 DEF Keeps, CompleteKnows
  <2>2. s.current = t => r \in DOMAIN R
    BY <1>1, <2>1, TableRows, NullAssumption DEF Refs, IsPlain, IsSeen
  <2> QED
    BY <1>2, <2>1, <2>2 DEF BesideComplete
<1>3. ASSUME p = "next" \/ (p = "commit" /\ s.current = NULL)
      PROVE  Owns(o, SetCompleted(U, t, TRUE), {t}, V, {}) /\ t \in DOMAIN U
  <2>1. Owns(o, SetCompleted(T, t, TRUE), {t}, R, {}) /\ t \in DOMAIN T
    BY <1>3 DEF CompleteKnows
  <2>2. Wrote(o.tasks, SetCompleted(U, t, TRUE), {t}) /\ t \in DOMAIN U
    BY <1>1, <2>1, SetFrozen DEF Owns
  <2>3. Wrote(o.recs, V, {})
    BY <1>1, <2>1, WroteItself DEF Owns
  <2> QED
    BY <2>2, <2>3 DEF Owns
<1>4. ASSUME p = "load" \/ (p = "commit" /\ s.current # NULL)
      PROVE  /\ t \in DOMAIN U
             /\ \E n \in TaskIds \ DOMAIN U :
                   Owns(o, Put(SetCompleted(U, t, TRUE), n, NextOccurrence(U, t)), {t, n},
                        Put(V, r, n), {r})
  <2>1. PICK n \in TaskIds \ DOMAIN T :
           Owns(o, Put(SetCompleted(T, t, TRUE), n, NextOccurrence(T, t)), {t, n},
                Put(R, r, n), {r})
    BY <1>4 DEF CompleteKnows
  <2>2. t \in DOMAIN T /\ t # n
    BY <1>4 DEF CompleteKnows
  <2> DEFINE A == Put(SetCompleted(T, t, TRUE), n, NextOccurrence(T, t))
             B == Put(SetCompleted(U, t, TRUE), n, NextOccurrence(U, t))
  <2>3. t \in DOMAIN o.tasks /\ n \in DOMAIN o.tasks
    <3>1. Wrote(o.tasks, A, {t, n})
      BY <2>1 DEF Owns
    <3> HIDE DEF A
    <3>2. DOMAIN o.tasks = {t, n}
      BY <3>1, WroteRows
    <3> QED
      BY <3>2
  <2>4. t \in DOMAIN U /\ U[t] = T[t] /\ n \notin DOMAIN U
    BY <1>1, <2>2, <2>3 DEF Frozen
  <2>5. /\ t \in DOMAIN A /\ t \in DOMAIN B /\ A[t] = B[t]
        /\ n \in DOMAIN A /\ n \in DOMAIN B /\ A[n] = B[n]
    BY <2>2, <2>4 DEF Put, SetCompleted, NextOccurrence
  <2>6. r \in DOMAIN Put(R, r, n) /\ r \in DOMAIN Put(V, r, n) /\ Put(R, r, n)[r] = Put(V, r, n)[r]
    BY DEF Put
  <2>7. Wrote(o.tasks, A, {t, n}) /\ Wrote(o.recs, Put(R, r, n), {r})
    BY <2>1 DEF Owns
  <2> HIDE DEF A, B
  <2>8. Wrote(o.tasks, B, {t, n})
    BY <2>5, <2>7, WroteSame
  <2>9. Wrote(o.recs, Put(V, r, n), {r})
    BY <2>6, <2>7, WroteSame
  <2> QED
    BY <2>4, <2>8, <2>9 DEF Owns, B
<1> QED
  BY <1>2, <1>3, <1>4 DEF CompleteKnows

LEMMA BesideReopenKnows ==
    ASSUME NEW T, NEW R, NEW U, NEW V, NEW o, Moved(T, R, U, V, o),
           NEW t \in TaskIds, NEW p, NEW s, IsSeen(s), ReopenKnows(T, R, t, p, s, o),
           Keeps(T, U, t), BesideReopen(T, R, U, V, o.tasks)
    PROVE  ReopenKnows(U, V, t, p, s, o)
<1> DEFINE r == s.recurrence
           x == s.current
<1>1. /\ IsPlain(T) /\ IsPlain(U) /\ Frozen(T, U, o.tasks) /\ Frozen(R, V, o.recs)
      /\ Refs(T, R) /\ Sound(T, R) /\ t # NULL
  BY NullAssumption DEF Moved, Refs
<1>2. ASSUME t \in DOMAIN U PROVE U[t].completed /\ U[t].recurrence = r
  BY <1>2 DEF Keeps, ReopenKnows, BesideReopen
<1>3. ASSUME IsPrevious(T, x) PROVE IsPrevious(U, x)
  BY <1>3 DEF IsPrevious, BesideReopen
<1>4. ASSUME x # NULL, Stays(T, R, t, s)
      PROVE  Stays(U, V, t, s) \/ IsPrevious(U, x)
  <2>1. x \in DOMAIN T /\ R[r] = x /\ T[x].previous = t
    BY <1>4 DEF Stays
  <2>2. t \in DOMAIN T
    BY <1>1, <2>1 DEF Refs
  <2>3. r \in DOMAIN R
    BY <1>1, <1>4, <2>2 DEF ReopenKnows, Refs, IsSeen
  <2>4. x \in DOMAIN U /\ U[x].previous = t
    BY <2>1 DEF BesideReopen
  <2>5. \/ V[r] = x
        \/ V[r] \in DOMAIN U /\ V[r] # x /\ U[V[r]].previous = x
    BY <2>1, <2>3 DEF BesideReopen
  <2> QED
    BY <2>4, <2>5 DEF Stays, IsPrevious
<1>5. ASSUME p = "revert" \/ (p = "commit" /\ x = NULL)
      PROVE  Owns(o, SetCompleted(U, t, FALSE), {t}, V, {})
  <2>1. Owns(o, SetCompleted(T, t, FALSE), {t}, R, {}) /\ t \in DOMAIN T
    BY <1>5 DEF ReopenKnows
  <2>2. Wrote(o.tasks, SetCompleted(U, t, FALSE), {t}) /\ Wrote(o.recs, V, {})
    BY <1>1, <2>1, SetFrozen, WroteItself DEF Owns
  <2> QED
    BY <2>2 DEF Owns
<1>6. ASSUME Wrote(o.recs, Put(R, r, t), {r}) PROVE Wrote(o.recs, Put(V, r, t), {r})
  <2>1. r \in DOMAIN Put(R, r, t) /\ r \in DOMAIN Put(V, r, t) /\ Put(R, r, t)[r] = Put(V, r, t)[r]
    BY DEF Put
  <2> QED
    BY <1>6, <2>1, WroteSame
<1>7. ASSUME p = "remove"
      PROVE  /\ Wrote(o.tasks, SetCompleted(U, t, FALSE), {t})
             /\ IsPrevious(U, x) \/ Wrote(o.recs, Put(V, r, t), {r})
  <2>1. /\ Wrote(o.tasks, SetCompleted(T, t, FALSE), {t}) /\ t \in DOMAIN T
        /\ IsPrevious(T, x) \/ Wrote(o.recs, Put(R, r, t), {r})
    BY <1>7 DEF ReopenKnows
  <2> QED
    BY <1>1, <1>3, <1>6, <2>1, SetFrozen
<1>8. ASSUME p = "commit", x # NULL
      PROVE  /\ s.previous = t
             /\ Stays(U, V, t, s) /\ ~IsPrevious(U, x)
             /\ Owns(o, Without(SetCompleted(U, t, FALSE), x), {t, x}, Put(V, r, t), {r})
  <2> DEFINE A == Without(SetCompleted(T, t, FALSE), x)
             B == Without(SetCompleted(U, t, FALSE), x)
  <2>1. /\ s.previous = t /\ Stays(T, R, t, s) /\ ~IsPrevious(T, x)
        /\ Wrote(o.tasks, A, {t, x}) /\ Wrote(o.recs, Put(R, r, t), {r}) /\ t \in DOMAIN T
    BY <1>8 DEF ReopenKnows, Owns
  <2>2. t \in DOMAIN o.tasks /\ x \in DOMAIN o.tasks
    <3> HIDE DEF A, x
    <3>1. DOMAIN o.tasks = {t, x}
      BY <2>1, WroteRows
    <3> QED
      BY <3>1
  <2>3. ~IsPrevious(U, x)
    <3> SUFFICES ASSUME NEW k \in DOMAIN U \ {x}, U[k].previous = x PROVE FALSE
      BY DEF IsPrevious
    <3>1. CASE k \in DOMAIN T
      BY <2>1, <3>1 DEF BesideReopen, IsPrevious
    <3>2. CASE k \notin DOMAIN T
      BY <1>8, <2>2, <3>2 DEF BesideReopen
    <3> QED
      BY <3>1, <3>2
  <2>4. Stays(U, V, t, s)
    BY <1>4, <1>8, <2>1, <2>3
  <2>5. t \in DOMAIN U /\ U[t] = T[t] /\ t # x
    BY <1>1, <2>1, <2>2 DEF Frozen, Stays, Sound
  <2>6. /\ t \in DOMAIN A /\ t \in DOMAIN B /\ A[t] = B[t]
        /\ x \notin DOMAIN A /\ x \notin DOMAIN B
    BY <2>1, <2>5 DEF Without, SetCompleted
  <2> HIDE DEF A, B
  <2>7. Wrote(o.tasks, B, {t, x})
    BY <2>1, <2>6, WroteSame
  <2> QED
    BY <1>6, <2>1, <2>3, <2>4, <2>7 DEF Owns, B
<1>9. ASSUME p \notin {"set", "fail"} PROVE t \in DOMAIN U
  BY <1>9 DEF ReopenKnows, BesideReopen
<1> QED
  BY <1>2, <1>3, <1>4, <1>5, <1>7, <1>8, <1>9 DEF ReopenKnows

LEMMA BesideRepeatKnows ==
    ASSUME NEW T, NEW R, NEW U, NEW V, NEW o, Moved(T, R, U, V, o),
           NEW t, NEW p, NEW s, RepeatKnows(T, R, t, p, s, o),
           Keeps(T, U, t), BesideRepeat(T, U)
    PROVE  RepeatKnows(U, V, t, p, s, o)
<1>1. IsPlain(T) /\ IsPlain(U) /\ Frozen(T, U, o.tasks) /\ Frozen(R, V, o.recs)
  BY DEF Moved, Refs
<1>2. ASSUME t \in DOMAIN U, s.recurrence = NULL PROVE U[t].recurrence = NULL
  BY <1>2 DEF Keeps, BesideRepeat, RepeatKnows
<1>3. ASSUME t \in DOMAIN T, t \in DOMAIN o.tasks PROVE t \in DOMAIN U /\ U[t] = T[t]
  BY <1>1, <1>3 DEF Frozen
<1>4. ASSUME p \in {"attach", "touch"} PROVE Owns(o, U, {t}, V, {}) /\ t \in DOMAIN U
  <2>1. Wrote(o.tasks, T, {t}) /\ Wrote(o.recs, R, {}) /\ t \in DOMAIN T
    BY <1>4 DEF RepeatKnows, Owns
  <2>2. t \in DOMAIN o.tasks
    BY <2>1, WroteRows
  <2> QED
    BY <1>1, <1>3, <2>1, <2>2, WroteItself DEF Owns
<1>5. ASSUME p = "commit", s.recurrence # NULL
      PROVE  Owns(o, U, {t}, V, {s.recurrence}) /\ t \in DOMAIN U
  <2>1. Wrote(o.tasks, T, {t}) /\ Wrote(o.recs, R, {s.recurrence}) /\ t \in DOMAIN T
    BY <1>5 DEF RepeatKnows, Owns
  <2>2. t \in DOMAIN o.tasks
    BY <2>1, WroteRows
  <2> QED
    BY <1>1, <1>3, <2>1, <2>2, WroteItself DEF Owns
<1>6. ASSUME p = "commit", s.recurrence = NULL
      PROVE  /\ t \in DOMAIN U
             /\ \E r \in RecIds \ DOMAIN V :
                   Owns(o, StartRecurrence(U, t, r), {t}, Put(V, r, t), {r})
  <2>1. PICK r \in RecIds \ DOMAIN R : Owns(o, StartRecurrence(T, t, r), {t}, Put(R, r, t), {r})
    BY <1>6 DEF RepeatKnows
  <2> DEFINE A == StartRecurrence(T, t, r)
             B == StartRecurrence(U, t, r)
             C == Put(R, r, t)
             D == Put(V, r, t)
  <2>2. Wrote(o.tasks, A, {t}) /\ Wrote(o.recs, C, {r}) /\ t \in DOMAIN T
    BY <1>6, <2>1 DEF RepeatKnows, Owns
  <2>3. t \in DOMAIN o.tasks /\ r \in DOMAIN o.recs
    <3> HIDE DEF A, C
    <3>1. DOMAIN o.tasks = {t} /\ DOMAIN o.recs = {r}
      BY <2>2, WroteRows
    <3> QED
      BY <3>1
  <2>4. t \in DOMAIN U /\ U[t] = T[t] /\ r \notin DOMAIN V
    BY <1>1, <1>3, <2>2, <2>3 DEF Frozen
  <2>5. t \in DOMAIN A /\ t \in DOMAIN B /\ A[t] = B[t]
    BY <2>2, <2>4 DEF StartRecurrence
  <2>6. r \in DOMAIN C /\ r \in DOMAIN D /\ C[r] = D[r]
    BY DEF Put
  <2> HIDE DEF A, B, C, D
  <2>7. Wrote(o.tasks, B, {t})
    BY <2>2, <2>5, WroteSame
  <2>8. Wrote(o.recs, D, {r})
    BY <2>2, <2>6, WroteSame
  <2> QED
    BY <2>4, <2>7, <2>8 DEF Owns, B, D
<1>7. p \notin {"assign", "attach", "touch", "commit"} => FALSE
  BY DEF RepeatKnows
<1> QED
  BY <1>2, <1>4, <1>5, <1>6, <1>7 DEF RepeatKnows

\* The tasks of a recurrence that somebody else does not start.
LEMMA MembersShrink ==
    ASSUME NEW T, NEW R, NEW U, NEW V, NEW r, BesideDissolve(T, R, U, V, r),
           NEW q, q \in DOMAIN R \cup {r, NULL}
    PROVE  Members(U, q) \subseteq Members(T, q)
BY DEF BesideDissolve, Members

LEMMA MembersFrozen ==
    ASSUME NEW T, NEW R, NEW U, NEW V, NEW o, Moved(T, R, U, V, o),
           NEW r, BesideDissolve(T, R, U, V, r), NEW q, q \in DOMAIN R \cup {r, NULL},
           Members(T, q) \subseteq DOMAIN o.tasks
    PROVE  /\ Members(U, q) = Members(T, q)
           /\ \A k \in Members(T, q) : k \in DOMAIN U /\ k \in DOMAIN T /\ U[k] = T[k]
<1>1. \A k \in Members(T, q) : k \in DOMAIN T /\ T[k].recurrence = q /\ q # NULL
  BY DEF Members
<1>2. \A k \in Members(T, q) : k \in DOMAIN U /\ U[k] = T[k]
  BY <1>1 DEF Moved, Frozen
<1>3. Members(T, q) \subseteq Members(U, q)
  BY <1>1, <1>2 DEF Members
<1> QED
  BY <1>1, <1>2, <1>3, MembersShrink

\* The same rows are locked, and dissolved the same way.
LEMMA DissolvedFrozen ==
    ASSUME NEW T, NEW U, NEW w, Frozen(T, U, w), NEW r, NEW ks,
           Members(U, r) = Members(T, r), Wrote(w, Dissolved(T, r), ks)
    PROVE  Wrote(w, Dissolved(U, r), ks)
<1> DEFINE A == Dissolved(T, r)
           B == Dissolved(U, r)
           K == Members(T, r)
           Free(row) == [row EXCEPT !.previous = NULL, !.recurrence = NULL]
<1>1. /\ DOMAIN A = DOMAIN T /\ DOMAIN B = DOMAIN U
      /\ \A k \in DOMAIN T : A[k] = IF k \in K THEN Free(T[k]) ELSE T[k]
      /\ \A k \in DOMAIN U : B[k] = IF k \in K THEN Free(U[k]) ELSE U[k]
  BY DEF Dissolved
<1> HIDE DEF A, B, K, Free
<1>2. Wrote(w, A, ks)
  BY DEF A
<1>3. Wrote(w, B, ks)
  BY <1>1, <1>2, WroteFrozen
<1> QED
  BY <1>3 DEF B

LEMMA WithoutFrozen ==
    ASSUME NEW R, NEW V, NEW w, Frozen(R, V, w), NEW r, NEW ks, Wrote(w, Without(R, r), ks)
    PROVE  Wrote(w, Without(V, r), ks)
<1> DEFINE A == Without(R, r)
           B == Without(V, r)
<1>1. /\ DOMAIN A = DOMAIN R \ {r} /\ DOMAIN B = DOMAIN V \ {r}
      /\ \A k \in DOMAIN A : A[k] = R[k]
      /\ \A k \in DOMAIN B : B[k] = V[k]
  BY DEF Without
<1> HIDE DEF A, B
<1>2. Wrote(w, A, ks)
  BY DEF A
<1>3. Wrote(w, B, ks)
  BY <1>1, <1>2, WroteFrozen
<1> QED
  BY <1>3 DEF B

\* The row of a recurrence that is deleted is locked.
LEMMA DroppedFrozen ==
    ASSUME NEW R, NEW V, NEW w, Frozen(R, V, w), NEW r, Wrote(w, Without(R, r), {r} \cap DOMAIN R),
           r \in DOMAIN V => r \in DOMAIN R
    PROVE  Wrote(w, Without(V, r), {r} \cap DOMAIN V)
<1>1. DOMAIN w = {r} \cap DOMAIN R
  BY WroteRows
<1>2. {r} \cap DOMAIN R = {r} \cap DOMAIN V
  BY <1>1 DEF Frozen
<1> QED
  BY <1>2, WithoutFrozen

LEMMA BesideDissolveKnows ==
    ASSUME NEW T, NEW R, NEW U, NEW V, NEW o, Moved(T, R, U, V, o),
           NEW t, NEW p, NEW r, NEW f, DissolveKnows(T, R, t, p, r, f),
           BesideDissolve(T, R, U, V, r)
    PROVE  DissolveKnows(U, V, t, p, r, f) /\ (r \in DOMAIN V => r \in DOMAIN R)
<1>1. r \in DOMAIN V => r \in DOMAIN R /\ V[r] = R[r]
  BY DEF BesideDissolve
<1>2. Members(U, r) \subseteq Members(T, r)
  BY MembersShrink
<1> QED
  BY <1>1, <1>2 DEF DissolveKnows

LEMMA BesideSingleKnows ==
    ASSUME NEW T, NEW R, NEW U, NEW V, NEW o, Moved(T, R, U, V, o),
           NEW t, NEW p, NEW r, NEW f, SingleKnows(T, R, t, p, r, f, o),
           BesideDissolve(T, R, U, V, r)
    PROVE  SingleKnows(U, V, t, p, r, f, o)
<1> DEFINE K == Members(T, r)
<1>1. /\ IsPlain(T) /\ IsPlain(U) /\ Frozen(T, U, o.tasks) /\ Frozen(R, V, o.recs)
      /\ DissolveKnows(U, V, t, p, r, f) /\ (r \in DOMAIN V => r \in DOMAIN R)
  BY BesideDissolveKnows DEF Moved, Refs, SingleKnows
<1>2. ASSUME p \in {"scan", "unset"} PROVE Owns(o, U, {t}, V, {}) /\ t \in DOMAIN U
  <2>1. Wrote(o.tasks, T, {t}) /\ Wrote(o.recs, R, {}) /\ t \in DOMAIN T
    BY <1>2 DEF SingleKnows, Owns
  <2>2. t \in DOMAIN o.tasks
    BY <2>1, WroteRows
  <2> QED
    BY <1>1, <2>1, <2>2, WroteItself DEF Owns, Frozen
<1>3. ASSUME p \in {"unlink", "commit"}
      PROVE  /\ Wrote(o.tasks, Dissolved(U, r), Members(U, r) \cup {t}) /\ t \in DOMAIN U
             /\ Members(U, r) = K
  <2>1. Wrote(o.tasks, Dissolved(T, r), K \cup {t}) /\ t \in DOMAIN T
    BY <1>3 DEF SingleKnows, Owns
  <2>2. Members(U, r) = K
    <3>1. K \subseteq DOMAIN o.tasks
      BY <2>1, WroteRows
    <3> QED
      BY <3>1, MembersFrozen
  <2>3. Wrote(o.tasks, Dissolved(U, r), K \cup {t})
    BY <1>1, <2>1, <2>2, DissolvedFrozen
  <2>4. t \in DOMAIN o.tasks
    BY <2>1, WroteRows
  <2> QED
    BY <1>1, <2>1, <2>2, <2>3, <2>4 DEF Frozen
<1>4. ASSUME p = "unlink" PROVE Owns(o, Dissolved(U, r), Members(U, r) \cup {t}, V, {})
  <2>1. Wrote(o.recs, R, {})
    BY <1>4 DEF SingleKnows, Owns
  <2>2. Wrote(o.recs, V, {})
    BY <1>1, <2>1, WroteItself
  <2> QED
    BY <1>3, <1>4, <2>2 DEF Owns
<1>5. ASSUME p = "commit"
      PROVE  Owns(o, Dissolved(U, r), Members(U, r) \cup {t}, Without(V, r), {r} \cap DOMAIN V)
  <2>1. Wrote(o.recs, Without(R, r), {r} \cap DOMAIN R)
    BY <1>5 DEF SingleKnows, Owns
  <2>2. Wrote(o.recs, Without(V, r), {r} \cap DOMAIN V)
    BY <1>1, <2>1, DroppedFrozen
  <2> QED
    BY <1>3, <1>5, <2>2 DEF Owns
<1> QED
  BY <1>1, <1>2, <1>3, <1>4, <1>5 DEF SingleKnows

LEMMA BesideDeleteKnows ==
    ASSUME NEW T, NEW R, NEW U, NEW V, NEW o, Moved(T, R, U, V, o),
           NEW t \in TaskIds, NEW p, NEW r, NEW f, DeleteKnows(T, R, t, p, r, f, o),
           Keeps(T, U, t), BesideDissolve(T, R, U, V, r)
    PROVE  DeleteKnows(U, V, t, p, r, f, o)
<1> DEFINE K == Members(T, r)
<1>1. /\ IsPlain(T) /\ IsPlain(U) /\ Frozen(T, U, o.tasks) /\ Frozen(R, V, o.recs)
      /\ DissolveKnows(U, V, t, p, r, f) /\ (r \in DOMAIN V => r \in DOMAIN R)
      /\ Refs(T, R) /\ Refs(U, V) /\ t # NULL
  BY BesideDissolveKnows, NullAssumption DEF Moved, Refs, DeleteKnows
<1>2. ASSUME t \in DOMAIN U, U[t].recurrence \notin {NULL, r}
      PROVE  Members(U, U[t].recurrence) = {t}
  <2>1. t \in DOMAIN T
    BY <1>2 DEF Keeps
  <2>2. U[t].recurrence = T[t].recurrence \/ Members(U, U[t].recurrence) = {t}
    BY <1>2, <2>1 DEF BesideDissolve
  <2>3. ASSUME U[t].recurrence = T[t].recurrence
        PROVE  Members(U, U[t].recurrence) = {t}
    <3>1. Members(T, T[t].recurrence) = {t}
      BY <1>2, <2>1, <2>3 DEF DeleteKnows
    <3>2. T[t].recurrence \in DOMAIN R
      BY <1>1, <1>2, <2>1, <2>3 DEF Refs
    <3>3. Members(U, T[t].recurrence) \subseteq {t}
      BY <3>1, <3>2, MembersShrink
    <3>4. t \in Members(U, U[t].recurrence)
      BY <1>2 DEF Members
    <3> QED
      BY <2>3, <3>3, <3>4
  <2> QED
    BY <2>2, <2>3
<1>3. ASSUME p \in {"unlink", "remove"}
      PROVE  Wrote(o.tasks, Dissolved(U, r), Members(U, r)) /\ Members(U, r) = K
  <2>1. Wrote(o.tasks, Dissolved(T, r), K)
    BY <1>3 DEF DeleteKnows, Owns
  <2>2. Members(U, r) = K
    <3>1. K \subseteq DOMAIN o.tasks
      BY <2>1, WroteRows
    <3> QED
      BY <3>1, MembersFrozen
  <2> QED
    BY <1>1, <2>1, <2>2, DissolvedFrozen
<1>4. ASSUME p = "unlink" PROVE Owns(o, Dissolved(U, r), Members(U, r), V, {})
  <2>1. Wrote(o.recs, R, {})
    BY <1>4 DEF DeleteKnows, Owns
  <2>2. Wrote(o.recs, V, {})
    BY <1>1, <2>1, WroteItself
  <2> QED
    BY <1>3, <1>4, <2>2 DEF Owns
<1>5. ASSUME p = "remove"
      PROVE  Owns(o, Dissolved(U, r), Members(U, r), Without(V, r), {r} \cap DOMAIN V)
  <2>1. Wrote(o.recs, Without(R, r), {r} \cap DOMAIN R)
    BY <1>5 DEF DeleteKnows, Owns
  <2>2. Wrote(o.recs, Without(V, r), {r} \cap DOMAIN V)
    BY <1>1, <2>1, DroppedFrozen
  <2> QED
    BY <1>3, <1>5, <2>2 DEF Owns
<1>6. ASSUME p = "commit"
      PROVE  LET q == U[t].recurrence IN
             /\ t \in DOMAIN U
             /\ ~IsPrevious(Dissolved(U, q), t)
             /\ Owns(o, Without(Dissolved(U, q), t), Members(U, q) \cup {t},
                     Without(V, q), {q} \cap DOMAIN V)
  <2> DEFINE q == T[t].recurrence
             A == Without(Dissolved(T, q), t)
             B == Without(Dissolved(U, q), t)
  <2>1. /\ t \in DOMAIN T /\ ~IsPrevious(Dissolved(T, q), t)
        /\ Wrote(o.tasks, A, Members(T, q) \cup {t})
        /\ Wrote(o.recs, Without(R, q), {q} \cap DOMAIN R)
    BY <1>6 DEF DeleteKnows, Owns
  <2>2. t \in DOMAIN o.tasks
    <3> HIDE DEF A, q
    <3> QED
      BY <2>1, WroteRows
  <2>3. t \in DOMAIN U /\ U[t] = T[t] /\ q \in DOMAIN R \cup {NULL}
    BY <1>1, <2>1, <2>2 DEF Frozen, Refs
  <2>4. /\ Members(U, q) = Members(T, q)
        /\ \A k \in Members(T, q) : k \in DOMAIN U /\ k \in DOMAIN T /\ U[k] = T[k]
    <3> HIDE DEF A, q
    <3>1. Members(T, q) \subseteq DOMAIN o.tasks
      BY <2>1, WroteRows
    <3> QED
      BY <2>3, <3>1, MembersFrozen
  <2> DEFINE K2 == Members(T, q)
             Free(row) == [row EXCEPT !.previous = NULL, !.recurrence = NULL]
  <2>5. /\ DOMAIN Dissolved(T, q) = DOMAIN T /\ DOMAIN Dissolved(U, q) = DOMAIN U
        /\ \A k \in DOMAIN T : Dissolved(T, q)[k] = IF k \in K2 THEN Free(T[k]) ELSE T[k]
        /\ \A k \in DOMAIN U : Dissolved(U, q)[k] = IF k \in K2 THEN Free(U[k]) ELSE U[k]
    BY <2>4 DEF Dissolved
  <2>6. ~IsPrevious(Dissolved(U, q), t)
    <3> SUFFICES ASSUME NEW k \in DOMAIN U \ {t}, Dissolved(U, q)[k].previous = t PROVE FALSE
      BY <2>5 DEF IsPrevious
    <3>1. CASE k \in K2
      <4>1. U[k] \in PlainTask
        BY <1>1 DEF IsPlain
      <4>2. \A row \in PlainTask : Free(row).previous = NULL
        BY DEF PlainTask
      <4> HIDE DEF Free
      <4> QED
        BY <1>1, <2>5, <3>1, <4>1, <4>2
    <3>2. CASE k \notin K2
      <4> HIDE DEF Free
      <4>1. U[k].previous = t
        BY <2>5, <3>2
      <4>2. k \in DOMAIN T /\ T[k].previous = t
        BY <1>1, <4>1 DEF BesideDissolve
      <4> QED
        BY <2>1, <2>5, <3>2, <4>2 DEF IsPrevious
    <3> QED
      BY <3>1, <3>2
  <2>7. /\ DOMAIN A = DOMAIN T \ {t} /\ DOMAIN B = DOMAIN U \ {t}
        /\ \A k \in DOMAIN A : A[k] = IF k \in K2 THEN Free(T[k]) ELSE T[k]
        /\ \A k \in DOMAIN B : B[k] = IF k \in K2 THEN Free(U[k]) ELSE U[k]
    BY <2>5 DEF Without
  <2>8. q \in DOMAIN V => q \in DOMAIN R
    BY <1>1, <2>3, NullAssumption DEF Refs, IsRecurrenceTable
  <2>9. Wrote(o.recs, Without(V, q), {q} \cap DOMAIN V)
    BY <1>1, <2>1, <2>8, DroppedFrozen
  <2> HIDE DEF A, B, Free
  <2>10. Wrote(o.tasks, B, Members(U, q) \cup {t})
    <3>1. Wrote(o.tasks, B, K2 \cup {t})
      BY <1>1, <2>1, <2>7, WroteFrozen
    <3> QED
      BY <2>4, <3>1
  <2> QED
    BY <2>3, <2>6, <2>9, <2>10 DEF Owns, B
<1> QED
  BY <1>1, <1>2, <1>3, <1>4, <1>5, <1>6 DEF DeleteKnows

\* What a request knows stays true.
LEMMA BesideKnows ==
    ASSUME NEW T, NEW R, NEW U, NEW V, NEW j, NEW p, NEW s, NEW f, NEW o,
           Moved(T, R, U, V, o), Knows(T, R, j, p, s, f, o), p # "idle" => j \in Job,
           p \notin {"idle", "read"} => Beside(T, R, U, V, j, s, o)
    PROVE  Knows(U, V, j, p, s, f, o)
<1>1. CASE p \in {"idle", "read"}
  BY <1>1 DEF Knows
<1>2. CASE p \notin {"idle", "read"}
  <2>1. Beside(T, R, U, V, j, s, o) /\ IsSeen(s) /\ j.task \in TaskIds
    BY <1>2 DEF Knows, Job
  <2>2. j.task \in DOMAIN U => U[j.task].responsible = j.user
    BY <1>2, <2>1 DEF Knows, Beside, Keeps
  <2>3. j.op = "complete" => CompleteKnows(U, V, j.task, p, s, o)
    BY <1>2, <2>1, BesideCompleteKnows DEF Knows, Beside
  <2>4. j.op = "reopen" => ReopenKnows(U, V, j.task, p, s, o)
    BY <1>2, <2>1, BesideReopenKnows DEF Knows, Beside
  <2>5. j.op = "repeat" => RepeatKnows(U, V, j.task, p, s, o)
    BY <1>2, <2>1, BesideRepeatKnows DEF Knows, Beside
  <2>6. j.op = "single" => SingleKnows(U, V, j.task, p, s.recurrence, f, o)
    BY <1>2, <2>1, BesideSingleKnows DEF Knows, Beside
  <2>7. j.op = "delete" => DeleteKnows(U, V, j.task, p, s.recurrence, f, o)
    BY <1>2, <2>1, BesideDeleteKnows DEF Knows, Beside
  <2> QED
    BY <1>2, <2>1, <2>2, <2>3, <2>4, <2>5, <2>6, <2>7 DEF Knows
<1> QED
  BY <1>1, <1>2

-----------------------------------------------------------------------------
(* What each request leaves behind: tables that are still sound, and what  *)
(* the others know still true                                              *)

LEMMA SetLeaves ==
    ASSUME NEW T, NEW R, Refs(T, R), Sound(T, R), NEW t \in DOMAIN T, NEW b \in BOOLEAN,
           NEW U, U = SetCompleted(T, t, b)
    PROVE  /\ Sound(U, R)
           /\ \A x : Keeps(T, U, x)
           /\ b = FALSE => \A x : BesideComplete(T, R, U, R, x)
           /\ b = TRUE => \A w : BesideReopen(T, R, U, R, w)
<1>1. IsPlain(T)
  BY DEF Refs
<1>2. /\ DOMAIN U = DOMAIN T /\ U[t].completed = b
      /\ \A k \in DOMAIN T \ {t} : U[k] = T[k]
  BY <1>1, SetRows
<1>3. \A k \in DOMAIN T : /\ U[k].previous = T[k].previous
                          /\ U[k].recurrence = T[k].recurrence
                          /\ U[k].responsible = T[k].responsible
  BY <1>1, SetFields
<1>4. Sound(U, R)
  <2>1. \A r \in DOMAIN R : R[r] \in DOMAIN T
    BY DEF Refs
  <2>2. \A s \in DOMAIN T : T[s].recurrence # NULL => T[s].recurrence \in DOMAIN R
    BY DEF Refs
  <2> QED
    BY <1>2, <1>3, <2>1, <2>2 DEF Sound
<1>5. \A x : Keeps(T, U, x)
  BY <1>2, <1>3 DEF Keeps
<1>6. b = FALSE => \A x : BesideComplete(T, R, U, R, x)
  BY <1>2, <1>3 DEF BesideComplete
<1>7. b = TRUE => \A w : BesideReopen(T, R, U, R, w)
  BY <1>2, <1>3 DEF BesideReopen
<1> QED
  BY <1>4, <1>5, <1>6, <1>7

\* The current task of recurrence r is completed, and n comes next.
Completing(T, R, t, n, r, U, V) ==
    /\ Refs(T, R) /\ Sound(T, R)
    /\ t \in DOMAIN T /\ n \in TaskIds /\ n \notin DOMAIN T
    /\ r \in DOMAIN R /\ r = T[t].recurrence /\ R[r] = t
    /\ U = Put(SetCompleted(T, t, TRUE), n, NextOccurrence(T, t))
    /\ V = Put(R, r, n)

LEMMA NextLeaves ==
    ASSUME NEW T, NEW R, NEW t, NEW n, NEW r, NEW U, NEW V, Completing(T, R, t, n, r, U, V)
    PROVE  /\ Sound(U, V)
           /\ \A x : x # n => Keeps(T, U, x)
           /\ \A w : t \notin DOMAIN w => BesideReopen(T, R, U, V, w)
<1> DEFINE S == SetCompleted(T, t, TRUE)
           row == NextOccurrence(T, t)
<1>0. /\ Refs(T, R) /\ Sound(T, R)
      /\ t \in DOMAIN T /\ n \in TaskIds /\ n \notin DOMAIN T
      /\ r \in DOMAIN R /\ r = T[t].recurrence /\ R[r] = t
      /\ U = Put(S, n, row) /\ V = Put(R, r, n)
  BY DEF Completing
<1>1. IsPlain(T) /\ n # t /\ n # NULL /\ t # NULL
  BY <1>0, NullAssumption DEF Refs, IsPlain
<1>2. /\ DOMAIN S = DOMAIN T /\ S[t].completed = TRUE
      /\ \A k \in DOMAIN T \ {t} : S[k] = T[k]
  BY <1>0, <1>1 DEF SetCompleted, IsPlain, PlainTask
<1>3. \A k \in DOMAIN T : /\ S[k].previous = T[k].previous
                          /\ S[k].recurrence = T[k].recurrence
                          /\ S[k].responsible = T[k].responsible
  BY <1>0, <1>1, SetFields
<1>4. row.previous = t /\ row.recurrence = r /\ row.responsible = T[t].responsible
  BY <1>0 DEF NextOccurrence, Refs, IsPlain, PlainTask
<1> HIDE DEF S, row
<1>5. /\ DOMAIN U = DOMAIN T \cup {n} /\ U[n] = row
      /\ \A k \in DOMAIN T : U[k] = S[k]
  BY <1>0, <1>2 DEF Put, S, row
<1>6. /\ DOMAIN V = DOMAIN R /\ V[r] = n
      /\ \A q \in DOMAIN R \ {r} : V[q] = R[q]
  BY <1>0 DEF Put
<1>7. \A q \in DOMAIN R \ {r} : R[q] \in DOMAIN T /\ R[q] # n
  BY <1>0 DEF Refs
<1>8. \A k \in DOMAIN T : T[k].recurrence # NULL => T[k].recurrence \in DOMAIN R
  BY <1>0 DEF Refs
<1>9. Sound(U, V)
  <2> DEFINE Same(k) == /\ U[k].previous = T[k].previous
                        /\ U[k].recurrence = T[k].recurrence
                        /\ U[k].responsible = T[k].responsible
  <2>0. \A k \in DOMAIN T : Same(k)
    BY <1>0, <1>3, <1>5
  <2>1. ASSUME NEW q \in DOMAIN V PROVE U[V[q]].recurrence = q
    <3>1. CASE q = r
      BY <1>0, <1>4, <1>5, <1>6, <3>1
    <3>2. CASE q # r
      <4>1. q \in DOMAIN R /\ V[q] = R[q] /\ R[q] \in DOMAIN T /\ T[R[q]].recurrence = q
        BY <1>0, <1>6, <1>7, <3>2 DEF Sound
      <4> QED
        BY <1>0, <2>0, <4>1
    <3> QED
      BY <1>0, <3>1, <3>2
  <2>2. ASSUME NEW s \in DOMAIN U PROVE U[s].previous # s
    <3>1. CASE s = n
      BY <1>0, <1>1, <1>4, <1>5, <3>1
    <3>2. CASE s # n
      BY <1>0, <1>5, <2>0, <3>2 DEF Sound
    <3> QED
      BY <1>0, <3>1, <3>2
  <2>3. ASSUME NEW s \in DOMAIN U, U[s].recurrence # NULL
        PROVE  U[V[U[s].recurrence]].responsible = U[s].responsible
    <3>1. T[t].responsible = U[n].responsible
      BY <1>0, <1>4, <1>5
    <3>2. CASE s = n
      <4>1. U[s].recurrence = r
        BY <1>0, <1>4, <1>5, <3>2
      <4>2. V[U[s].recurrence] = s
        BY <1>0, <1>6, <3>2, <4>1
      <4> QED
        BY <1>0, <4>2
    <3>3. CASE s # n
      <4>1. /\ s \in DOMAIN T /\ U[s].recurrence = T[s].recurrence
            /\ U[s].responsible = T[s].responsible
        BY <1>0, <1>3, <1>5, <3>3
      <4>2. T[R[T[s].recurrence]].responsible = T[s].responsible /\ T[s].recurrence \in DOMAIN R
        BY <1>0, <1>8, <2>3, <4>1 DEF Sound
      <4>3. CASE T[s].recurrence = r
        BY <1>0, <1>6, <3>1, <4>1, <4>2, <4>3
      <4>4. CASE T[s].recurrence # r
        <5>1. V[T[s].recurrence] = R[T[s].recurrence] /\ R[T[s].recurrence] \in DOMAIN T
          BY <1>0, <1>6, <1>7, <4>2, <4>4
        <5>2. U[R[T[s].recurrence]].responsible = T[R[T[s].recurrence]].responsible
          BY <1>0, <2>0, <5>1
        <5> QED
          BY <1>0, <4>1, <4>2, <5>1, <5>2
      <4> QED
        BY <1>0, <4>3, <4>4
    <3> QED
      BY <1>0, <3>2, <3>3
  <2> QED
    BY <1>0, <2>1, <2>2, <2>3 DEF Sound
<1>10. ASSUME NEW x, x # n PROVE Keeps(T, U, x)
  BY <1>0, <1>3, <1>5, <1>10 DEF Keeps
<1>11. ASSUME NEW w, t \notin DOMAIN w PROVE BesideReopen(T, R, U, V, w)
  <2>1. \A k \in DOMAIN T :
          /\ k \in DOMAIN U
          /\ U[k].recurrence = T[k].recurrence /\ U[k].previous = T[k].previous
          /\ T[k].completed => U[k].completed
    BY <1>0, <1>2, <1>3, <1>5
  <2>2. \A k \in DOMAIN U \ DOMAIN T : U[k].previous \notin DOMAIN w
    BY <1>0, <1>4, <1>5, <1>11
  <2>3. \A a \in DOMAIN R :
          \/ V[a] = R[a]
          \/ V[a] \in DOMAIN U /\ V[a] # R[a] /\ U[V[a]].previous = R[a]
    BY <1>0, <1>1, <1>4, <1>5, <1>6
  <2> QED
    BY <1>0, <2>1, <2>2, <2>3 DEF BesideReopen
<1> QED
  BY <1>0, <1>9, <1>10, <1>11

LEMMA ReopenLeaves ==
    ASSUME NEW T, NEW R, NEW t, NEW x, NEW r, Reopening(T, R, t, x, r),
           NEW U, U = Without(SetCompleted(T, t, FALSE), x), NEW V, V = Put(R, r, t)
    PROVE  /\ Sound(U, V)
           /\ \A y : Keeps(T, U, y)
           /\ \A y : BesideComplete(T, R, U, V, y)
<1> DEFINE S == SetCompleted(T, t, FALSE)
<1>1. /\ IsPlain(T) /\ Refs(T, R) /\ Sound(T, R)
      /\ t \in DOMAIN T /\ x \in DOMAIN T /\ r # NULL /\ T[t].recurrence = r /\ R[r] = x
  BY DEF Reopening, Refs
<1>2. r \in DOMAIN R /\ x # t /\ \A q \in DOMAIN R : R[q] = x <=> q = r
  <2>1. SameRecurrences(T, T)
    BY DEF SameRecurrences
  <2> QED
    BY <2>1, ReopenTables
<1>3. /\ DOMAIN S = DOMAIN T /\ S[t].completed = FALSE
      /\ \A k \in DOMAIN T \ {t} : S[k] = T[k]
  BY <1>1 DEF SetCompleted, IsPlain, PlainTask
<1>4. \A k \in DOMAIN T : /\ S[k].previous = T[k].previous
                          /\ S[k].recurrence = T[k].recurrence
                          /\ S[k].responsible = T[k].responsible
  BY <1>1, SetFields
<1> HIDE DEF S
<1>5. DOMAIN U = DOMAIN T \ {x} /\ \A k \in DOMAIN U : U[k] = S[k]
  BY <1>3 DEF Without, S
<1>6. /\ DOMAIN V = DOMAIN R /\ V[r] = t
      /\ \A q \in DOMAIN R \ {r} : V[q] = R[q] /\ R[q] \in DOMAIN U
  BY <1>1, <1>2, <1>5 DEF Put, Refs
<1>7. \A k \in DOMAIN T : T[k].recurrence # NULL => T[k].recurrence \in DOMAIN R
  BY <1>1 DEF Refs
<1>8. Sound(U, V)
  <2> DEFINE Same(k) == /\ U[k].previous = T[k].previous
                        /\ U[k].recurrence = T[k].recurrence
                        /\ U[k].responsible = T[k].responsible
  <2>0. \A k \in DOMAIN U : k \in DOMAIN T /\ Same(k)
    BY <1>4, <1>5
  <2>1. ASSUME NEW q \in DOMAIN V PROVE U[V[q]].recurrence = q
    <3>1. CASE q = r
      <4>1. t \in DOMAIN U /\ V[q] = t
        BY <1>1, <1>2, <1>5, <1>6, <3>1
      <4>2. U[t].recurrence = T[t].recurrence
        BY <2>0, <4>1
      <4> QED
        BY <1>1, <3>1, <4>1, <4>2
    <3>2. CASE q # r
      <4>1. q \in DOMAIN R /\ V[q] = R[q] /\ R[q] \in DOMAIN U /\ T[R[q]].recurrence = q
        BY <1>1, <1>6, <3>2 DEF Sound
      <4> QED
        BY <2>0, <4>1
    <3> QED
      BY <3>1, <3>2
  <2>2. ASSUME NEW k \in DOMAIN U PROVE U[k].previous # k
    <3>1. k \in DOMAIN T /\ U[k].previous = T[k].previous
      BY <2>0
    <3>2. T[k].previous # k
      BY <1>1, <3>1 DEF Sound
    <3> QED
      BY <3>1, <3>2
  <2>3. ASSUME NEW s \in DOMAIN U, U[s].recurrence # NULL
        PROVE  U[V[U[s].recurrence]].responsible = U[s].responsible
    <3>1. /\ s \in DOMAIN T /\ U[s].recurrence = T[s].recurrence
          /\ U[s].responsible = T[s].responsible
      BY <1>4, <1>5
    <3>2. T[R[T[s].recurrence]].responsible = T[s].responsible /\ T[s].recurrence \in DOMAIN R
      BY <1>1, <1>7, <2>3, <3>1 DEF Sound
    <3>3. T[x].responsible = T[t].responsible
      BY <1>1 DEF Sound
    <3>4. U[t].responsible = T[t].responsible
      BY <1>1, <1>2, <1>4, <1>5
    <3>5. CASE T[s].recurrence = r
      <4>1. R[T[s].recurrence] = x /\ V[U[s].recurrence] = t
        BY <1>1, <1>6, <3>1, <3>5
      <4> QED
        BY <3>1, <3>2, <3>3, <3>4, <4>1
    <3>6. CASE T[s].recurrence # r
      <4>1. V[T[s].recurrence] = R[T[s].recurrence] /\ R[T[s].recurrence] \in DOMAIN U
        BY <1>6, <3>2, <3>6
      <4>2. U[R[T[s].recurrence]].responsible = T[R[T[s].recurrence]].responsible
        BY <2>0, <4>1
      <4> QED
        BY <3>1, <3>2, <4>1, <4>2
    <3> QED
      BY <3>5, <3>6
  <2> QED
    BY <2>1, <2>2, <2>3 DEF Sound
<1>9. \A y : Keeps(T, U, y)
  BY <1>4, <1>5 DEF Keeps
<1>10. ASSUME NEW y PROVE BesideComplete(T, R, U, V, y)
  <2>1. ASSUME NEW k \in DOMAIN T \cap DOMAIN U
        PROVE  U[k].recurrence = T[k].recurrence /\ (~T[k].completed => ~U[k].completed)
    BY <1>3, <1>4, <1>5
  <2>2. ASSUME NEW a \in DOMAIN R, R[a] = y, y \in DOMAIN U PROVE V[a] = y
    BY <1>1, <1>5, <1>6, <2>2
  <2> QED
    BY <2>1, <2>2 DEF BesideComplete
<1> QED
  BY <1>8, <1>9, <1>10

LEMMA NoneLeaves ==
    ASSUME NEW T, NEW R
    PROVE  /\ \A x : Keeps(T, T, x)
           /\ \A x : BesideComplete(T, R, T, R, x)
           /\ \A w : BesideReopen(T, R, T, R, w)
           /\ BesideRepeat(T, T)
           /\ \A r : BesideDissolve(T, R, T, R, r)
BY DEF Keeps, BesideComplete, BesideReopen, BesideRepeat, BesideDissolve

LEMMA AttachLeaves ==
    ASSUME NEW T, NEW R, Refs(T, R), Sound(T, R), NEW t \in DOMAIN T,
           NEW r \in RecIds, r \notin DOMAIN R, T[t].recurrence = NULL,
           NEW U, U = StartRecurrence(T, t, r), NEW V, V = Put(R, r, t)
    PROVE  /\ Sound(U, V)
           /\ \A x : Keeps(T, U, x)
           /\ \A q : q # r => BesideDissolve(T, R, U, V, q)
<1>1. IsPlain(T) /\ r # NULL
  BY NullAssumption DEF Refs
<1>2. /\ DOMAIN U = DOMAIN T
      /\ \A k \in DOMAIN T \ {t} : U[k] = T[k]
      /\ U[t].recurrence = r
      /\ \A k \in DOMAIN T : U[k].previous = T[k].previous /\ U[k].responsible = T[k].responsible
  BY <1>1 DEF StartRecurrence, IsPlain, PlainTask
<1>3. DOMAIN V = DOMAIN R \cup {r} /\ V[r] = t /\ \A q \in DOMAIN R : V[q] = R[q]
  BY DEF Put
<1>4. \A q \in DOMAIN R : R[q] \in DOMAIN T /\ R[q] # t /\ q # NULL
  BY NullAssumption DEF Refs, Sound, IsRecurrenceTable
<1>5. \A k \in DOMAIN T : T[k].recurrence # NULL => T[k].recurrence \in DOMAIN R
  BY DEF Refs
<1>6. Sound(U, V)
  <2>1. \A q \in DOMAIN V : U[V[q]].recurrence = q
    BY <1>2, <1>3, <1>4 DEF Sound
  <2>2. \A s \in DOMAIN U : U[s].previous # s
    BY <1>2 DEF Sound
  <2>3. ASSUME NEW s \in DOMAIN U, U[s].recurrence # NULL
        PROVE  U[V[U[s].recurrence]].responsible = U[s].responsible
    <3>1. CASE s = t
      BY <1>2, <1>3, <3>1
    <3>2. CASE s # t
      BY <1>2, <1>3, <1>4, <1>5, <2>3, <3>2 DEF Sound
    <3> QED
      BY <3>1, <3>2
  <2> QED
    BY <2>1, <2>2, <2>3 DEF Sound
<1>7. \A x : Keeps(T, U, x)
  BY <1>2 DEF Keeps
<1>8. ASSUME NEW q, q # r PROVE BesideDissolve(T, R, U, V, q)
  <2>1. Members(U, r) = {t}
    BY <1>1, <1>2, <1>5 DEF Members
  <2> QED
    BY <1>2, <1>3, <1>8, <2>1 DEF BesideDissolve
<1> QED
  BY <1>6, <1>7, <1>8

LEMMA SingleLeaves ==
    ASSUME NEW T, NEW R, Refs(T, R), Sound(T, R), NEW r,
           NEW U, U = Dissolved(T, r), NEW V, V = Without(R, r)
    PROVE  /\ Sound(U, V)
           /\ \A x : Keeps(T, U, x)
           /\ BesideRepeat(T, U)
           /\ \A q : BesideDissolve(T, R, U, V, q)
<1> DEFINE K == Members(T, r)
<1>1. IsPlain(T)
  BY DEF Refs
<1>2. /\ DOMAIN U = DOMAIN T
      /\ \A k \in DOMAIN T \ K : U[k] = T[k]
      /\ \A k \in K : /\ U[k].previous = NULL /\ U[k].recurrence = NULL
                      /\ U[k].responsible = T[k].responsible
  BY <1>1, DissolvedRows
<1>3. DOMAIN V = DOMAIN R \ {r} /\ \A q \in DOMAIN V : V[q] = R[q]
  BY DEF Without
<1>4. \A k : k \in K <=> k \in DOMAIN T /\ r # NULL /\ T[k].recurrence = r
  BY DEF Members
<1>5. \A k \in DOMAIN T : T[k].recurrence # NULL => T[k].recurrence \in DOMAIN R
  BY DEF Refs
<1>6. \A q \in DOMAIN V : R[q] \in DOMAIN T \ K
  BY <1>3, <1>4 DEF Refs, Sound
<1> HIDE DEF K
<1>7. Sound(U, V)
  <2>1. \A q \in DOMAIN V : U[V[q]].recurrence = q
    BY <1>2, <1>3, <1>6 DEF Sound
  <2>2. \A s \in DOMAIN U : U[s].previous # s
    <3>1. \A s \in DOMAIN T : s # NULL
      BY <1>1, NullAssumption DEF IsPlain
    <3> QED
      BY <1>2, <3>1 DEF Sound
  <2>3. ASSUME NEW s \in DOMAIN U, U[s].recurrence # NULL
        PROVE  U[V[U[s].recurrence]].responsible = U[s].responsible
    <3>1. s \notin K /\ U[s] = T[s] /\ s \in DOMAIN T
      BY <1>2, <2>3
    <3>2. T[s].recurrence \in DOMAIN V
      BY <1>3, <1>4, <1>5, <2>3, <3>1
    <3>3. T[R[T[s].recurrence]].responsible = T[s].responsible
      BY <2>3, <3>1 DEF Sound
    <3> QED
      BY <1>2, <1>3, <1>6, <3>1, <3>2, <3>3
  <2> QED
    BY <2>1, <2>2, <2>3 DEF Sound
<1>8. \A x : Keeps(T, U, x)
  BY <1>2 DEF Keeps
<1>9. BesideRepeat(T, U)
  BY <1>2 DEF BesideRepeat
<1>10. ASSUME NEW q PROVE BesideDissolve(T, R, U, V, q)
  BY <1>2, <1>3 DEF BesideDissolve
<1> QED
  BY <1>7, <1>8, <1>9, <1>10

LEMMA DeleteLeaves ==
    ASSUME NEW T, NEW R, Refs(T, R), Sound(T, R), NEW t \in DOMAIN T,
           NEW q, q = T[t].recurrence, q # NULL => R[q] = t,
           NEW U, U = Without(Dissolved(T, q), t), NEW V, V = Without(R, q)
    PROVE  /\ Sound(U, V)
           /\ \A x : Keeps(T, U, x)
           /\ BesideRepeat(T, U)
           /\ \A r : BesideDissolve(T, R, U, V, r)
<1> DEFINE D == Dissolved(T, q)
<1>1. /\ Sound(D, V)
      /\ \A x : Keeps(T, D, x)
      /\ BesideRepeat(T, D)
      /\ \A r : BesideDissolve(T, R, D, V, r)
  <2> HIDE DEF D
  <2>1. D = Dissolved(T, q)
    BY DEF D
  <2> QED
    BY <2>1, SingleLeaves
<1>2. DOMAIN D = DOMAIN T /\ Members(D, q) = {}
  <2>1. IsPlain(T)
    BY DEF Refs
  <2> QED
    BY <2>1, DissolvedRows
<1> HIDE DEF D
<1>3. DOMAIN U = DOMAIN T \ {t} /\ \A k \in DOMAIN U : U[k] = D[k]
  BY <1>2 DEF Without, D
<1>4. \A a \in DOMAIN V : V[a] \in DOMAIN U
  <2>1. \A a \in DOMAIN V : a \in DOMAIN R /\ a # q /\ V[a] = R[a]
    BY DEF Without
  <2>2. \A a \in DOMAIN R : R[a] \in DOMAIN T /\ T[R[a]].recurrence = a
    BY DEF Refs, Sound
  <2> QED
    BY <1>3, <2>1, <2>2
<1>5. \A k \in DOMAIN D : D[k].recurrence # NULL => D[k].recurrence \in DOMAIN V
  <2>1. ASSUME NEW k \in DOMAIN D, D[k].recurrence # NULL
        PROVE  D[k].recurrence \in DOMAIN R \ {q}
    <3>1. D[k].recurrence = T[k].recurrence
      BY <1>1, <1>2, <2>1 DEF BesideRepeat
    <3>2. D[k].recurrence # q
      BY <1>2, <2>1 DEF Members
    <3> QED
      BY <1>2, <2>1, <3>1, <3>2 DEF Refs
  <2>2. DOMAIN V = DOMAIN R \ {q}
    BY DEF Without
  <2> QED
    BY <2>1, <2>2
<1>6. Sound(U, V)
  BY <1>1, <1>2, <1>3, <1>4, <1>5 DEF Sound
<1>7. \A x : Keeps(T, U, x)
  BY <1>1, <1>2, <1>3 DEF Keeps
<1>8. BesideRepeat(T, U)
  BY <1>1, <1>2, <1>3 DEF BesideRepeat
<1>9. ASSUME NEW r PROVE BesideDissolve(T, R, U, V, r)
  <2>1. \A k \in DOMAIN T \cap DOMAIN U :
          /\ U[k].previous \in {T[k].previous, NULL}
          /\ U[k].recurrence \in {T[k].recurrence, NULL}
    <3>1. \A k \in DOMAIN T \cap DOMAIN D : D[k].previous \in {T[k].previous, NULL}
      BY <1>1 DEF BesideDissolve
    <3> QED
      BY <1>1, <1>2, <1>3, <3>1 DEF BesideRepeat
  <2>2. \A a \in DOMAIN V : IF a \in DOMAIN R THEN V[a] = R[a] ELSE a # r
    BY <1>1 DEF BesideDissolve
  <2>3. DOMAIN U \ DOMAIN T = {}
    BY <1>3
  <2> QED
    BY <2>1, <2>2, <2>3 DEF BesideDissolve
<1> QED
  BY <1>6, <1>7, <1>8, <1>9

LEMMA CreateLeaves ==
    ASSUME NEW T, NEW R, Refs(T, R), Sound(T, R), NEW t \in TaskIds, t \notin DOMAIN T,
           NEW u, NEW U, U = Put(T, t, NewTask(u, NULL))
    PROVE  /\ Sound(U, R)
           /\ \A x : x # t => Keeps(T, U, x)
           /\ \A x : x # t => BesideComplete(T, R, U, R, x)
           /\ \A w : BesideReopen(T, R, U, R, w)
           /\ BesideRepeat(T, U)
           /\ \A r : BesideDissolve(T, R, U, R, r)
<1>1. /\ DOMAIN U = DOMAIN T \cup {t}
      /\ \A k \in DOMAIN T : U[k] = T[k]
      /\ U[t].previous = NULL /\ U[t].recurrence = NULL
  BY DEF Put, NewTask
<1>2. t # NULL /\ \A r \in DOMAIN R : R[r] \in DOMAIN T
  BY NullAssumption DEF Refs
<1>3. \A k \in DOMAIN T : T[k].recurrence # NULL => T[k].recurrence \in DOMAIN R
  BY DEF Refs
<1>4. Sound(U, R)
  BY <1>1, <1>2, <1>3 DEF Sound
<1>5. \A x : x # t => Keeps(T, U, x)
  BY <1>1 DEF Keeps
<1>6. \A x : x # t => BesideComplete(T, R, U, R, x)
  BY <1>1 DEF BesideComplete
<1>7. \A w : BesideReopen(T, R, U, R, w)
  BY <1>1 DEF BesideReopen
<1>8. BesideRepeat(T, U) /\ \A r : BesideDissolve(T, R, U, R, r)
  BY <1>1 DEF BesideRepeat, BesideDissolve
<1> QED
  BY <1>4, <1>5, <1>6, <1>7, <1>8

-----------------------------------------------------------------------------
(* The requests of SurvivalDb that the commits are                         *)

LEMMA SerialPlain ==
    ASSUME Refs(tasks, recurrences), NEW t \in DOMAIN tasks, NEW u \in Users, NEW b \in BOOLEAN,
           tasks[t].responsible = u, tasks[t].recurrence = NULL, tasks[t].completed # b,
           tasks' = SetCompleted(tasks, t, b), recurrences' = recurrences
    PROVE  Serial!Next
<1>1. t \in TaskIds /\ b = ~tasks[t].completed
  BY DEF Refs, IsPlain, PlainTask
<1>2. Serial!MayToggle(u, t)
  BY DEF Serial!MayToggle, Serial!CanToggle, Serial!IsFriendTask, Serial!Permitted,
         Serial!PreviousOf, Serial!CurrentOf
<1>3. Serial!PlainArm(t)
  BY DEF Serial!PlainArm, Serial!Current, Serial!CurrentOf
<1>4. tasks' = Serial!SetCompleted(tasks, t, ~tasks[t].completed)
  BY <1>1 DEF SetCompleted, Serial!SetCompleted
<1>5. Serial!TogglePlain(u, t)
  BY <1>2, <1>3, <1>4 DEF Serial!TogglePlain
<1> QED
  BY <1>1, <1>5 DEF Serial!Next, Serial!ToggleStep

LEMMA SerialComplete ==
    ASSUME Refs(tasks, recurrences), NEW t \in DOMAIN tasks, NEW u \in Users,
           NEW n \in TaskIds \ DOMAIN tasks, NEW r \in DOMAIN recurrences, r # NULL,
           tasks[t].responsible = u, tasks[t].recurrence = r, recurrences[r] = t,
           ~tasks[t].completed,
           tasks' = Put(SetCompleted(tasks, t, TRUE), n, NextOccurrence(tasks, t)),
           recurrences' = Put(recurrences, r, n)
    PROVE  Serial!Next
<1>1. t \in TaskIds
  BY DEF Refs, IsPlain
<1>2. Serial!CurrentOf(tasks, recurrences, t) = t
  BY DEF Serial!CurrentOf
<1>3. Serial!MayToggle(u, t)
  BY <1>2 DEF Serial!MayToggle, Serial!CanToggle, Serial!IsFriendTask, Serial!Permitted
<1>4. Serial!CompleteArm(t)
  BY <1>2 DEF Serial!CompleteArm, Serial!Current
<1>5. tasks' = Serial!Put(Serial!SetCompleted(tasks, t, TRUE), n, Serial!NextOccurrence(tasks, t))
  BY DEF Put, Serial!Put, SetCompleted, Serial!SetCompleted, NextOccurrence, Serial!NextOccurrence
<1>6. recurrences' = [recurrences EXCEPT ![tasks[t].recurrence] = n]
  <2>1. DOMAIN recurrences \cup {r} = DOMAIN recurrences
    OBVIOUS
  <2> QED
    BY <2>1 DEF Put
<1>7. Serial!CompleteCurrent(u, t, n)
  BY <1>3, <1>4, <1>5, <1>6 DEF Serial!CompleteCurrent
<1> QED
  BY <1>1, <1>7 DEF Serial!Next, Serial!ToggleStep

LEMMA SerialReopen ==
    ASSUME NEW t, NEW x, NEW r, Reopening(tasks, recurrences, t, x, r), NEW u \in Users,
           tasks[t].responsible = u, tasks[t].completed, ~IsPrevious(tasks, x),
           tasks' = Without(SetCompleted(tasks, t, FALSE), x),
           recurrences' = Put(recurrences, r, t)
    PROVE  Serial!Next
<1> DEFINE S == SetCompleted(tasks, t, FALSE)
<1>1. /\ t \in DOMAIN tasks /\ x \in DOMAIN tasks /\ t \in TaskIds /\ x # NULL
      /\ tasks[x].previous = t /\ tasks[t].recurrence = r /\ recurrences[r] = x /\ r # NULL
      /\ Sound(tasks, recurrences) /\ Refs(tasks, recurrences)
  BY NullAssumption DEF Reopening, Refs, IsPlain
<1>2. SameRecurrences(tasks, S)
  BY <1>1 DEF SameRecurrences, SetCompleted, Refs, IsPlain, PlainTask
<1> HIDE DEF S
<1>3. /\ Revert(recurrences, t, x) = Put(recurrences, r, t)
      /\ DeleteRow(S, Put(recurrences, r, t), x) = Without(S, x)
      /\ CascadeRow(Put(recurrences, r, t), x) = Put(recurrences, r, t)
  BY <1>2, ReopenTables
<1>4. Serial!CurrentOf(tasks, recurrences, t) = x /\ Serial!PreviousOf(tasks, recurrences, t) = t
  BY <1>1 DEF Serial!CurrentOf, Serial!PreviousOf
<1>5. Serial!MayToggle(u, t)
  BY <1>4 DEF Serial!MayToggle, Serial!CanToggle, Serial!IsFriendTask, Serial!Permitted
<1>6. Serial!ReopenArm(t)
  BY <1>1, <1>4 DEF Serial!ReopenArm, Serial!Current, Serial!Previous
<1>7. tasks[x].responsible = u
  BY <1>1 DEF Sound
<1>8. Serial!CanDropCurrent(u, t)
  BY <1>4, <1>7 DEF Serial!CanDropCurrent, Serial!Current, Serial!MayAct, Serial!Permitted,
                    Serial!IsPrevious, IsPrevious
<1>9. S = Serial!SetCompleted(tasks, t, FALSE)
  BY DEF S, SetCompleted, Serial!SetCompleted
<1>10. Serial!Revert(recurrences, t, x) = Put(recurrences, r, t)
  BY <1>3 DEF Revert, Serial!Revert
<1>11. tasks' = Serial!DeleteRow(S, Put(recurrences, r, t), x)
  BY <1>3 DEF S, DeleteRow, Serial!DeleteRow, CurrentOf, Serial!CurrentOf
<1>12. recurrences' = Serial!CascadeRow(Put(recurrences, r, t), x)
  BY <1>3 DEF CascadeRow, Serial!CascadeRow, Restrict, Serial!Restrict
<1>13. Serial!ReopenPrevious(u, t)
  BY <1>1, <1>4, <1>5, <1>6, <1>8, <1>9, <1>10, <1>11, <1>12
  DEF Serial!ReopenPrevious, Serial!Current
<1> QED
  BY <1>1, <1>13 DEF Serial!Next, Serial!ToggleStep

LEMMA SerialDissolves ==
    ASSUME NEW T, NEW R, NEW r, r # NULL
    PROVE  /\ Serial!UnsetRecurrence(T, r) = Dissolved(T, r)
           /\ Serial!DropRecurrence(R, r) = Without(R, r)
<1>1. Serial!UnsetRecurrence(T, r) = Dissolved(T, r)
  BY DEF Serial!UnsetRecurrence, Dissolved, Members
<1>2. Serial!DropRecurrence(R, r) = Without(R, r)
  BY DEF Serial!DropRecurrence, Without, Serial!Restrict
<1> QED
  BY <1>1, <1>2

LEMMA SerialUpdate ==
    ASSUME Refs(tasks, recurrences), NEW t \in DOMAIN tasks, NEW u \in Users,
           tasks[t].responsible = u,
           NEW r \in RecIds \cup {NULL}, r = NULL <=> tasks[t].recurrence # NULL,
           tasks[t].recurrence # NULL => recurrences[tasks[t].recurrence] = t,
           IF r = NULL
           THEN /\ tasks' = Dissolved(tasks, tasks[t].recurrence)
                /\ recurrences' = Without(recurrences, tasks[t].recurrence)
           ELSE /\ r \notin DOMAIN recurrences
                /\ tasks' = StartRecurrence(tasks, t, r)
                /\ recurrences' = Put(recurrences, r, t)
    PROVE  Serial!Next
<1> DEFINE old == tasks[t].recurrence
<1>1. t \in TaskIds /\ tasks[t] \in PlainTask
  BY DEF Refs, IsPlain
<1>2. Serial!MayUpdate(u, t)
  BY DEF Serial!MayUpdate, Serial!CanUpdate, Serial!IsFriendTask, Serial!Permitted, Serial!CurrentOf
<1>3. Serial!ValidAssignment(NoMembers, u, u, NULL)
  BY DEF Serial!ValidAssignment
<1>4. Serial!Reassign(tasks, t, u, NULL) = tasks
  <2>1. tasks[t].group = NULL
    BY <1>1 DEF PlainTask
  <2>2. [tasks[t] EXCEPT !.responsible = u] = tasks[t]
    BY <1>1 DEF PlainTask
  <2>3. [tasks[t] EXCEPT !.group = NULL] = tasks[t]
    BY <1>1, <2>1 DEF PlainTask
  <2>4. tasks = [s \in DOMAIN tasks |-> tasks[s]]
    BY TableRows
  <2> QED
    BY <2>2, <2>3, <2>4 DEF Serial!Reassign
<1>5. CASE r = NULL
  <2>1. /\ Serial!UnsetRecurrence(tasks, old) = Dissolved(tasks, old)
        /\ Serial!DropRecurrence(recurrences, old) = Without(recurrences, old)
    BY <1>5, SerialDissolves
  <2>2. /\ tasks' = Serial!UnsetRecurrence(tasks, old)
        /\ recurrences' = Serial!DropRecurrence(recurrences, old)
    BY <1>5, <2>1
  <2>3. Serial!UpdateTask(u, t, u, NULL, NULL)
    BY <1>2, <1>3, <1>4, <1>5, <2>2 DEF Serial!UpdateTask
  <2> QED
    BY <1>1, <2>3 DEF Serial!Next, Serial!WriteStep
<1>6. CASE r # NULL
  <2>1. Serial!AttachRecurrence(tasks, t, r)
    BY <1>6 DEF Serial!AttachRecurrence, StartRecurrence, Serial!StartRecurrence, Put, Serial!Put
  <2>2. Serial!UpdateTask(u, t, u, NULL, r)
    BY <1>2, <1>3, <1>4, <1>6, <2>1 DEF Serial!UpdateTask
  <2> QED
    BY <1>1, <2>2 DEF Serial!Next, Serial!WriteStep
<1> QED
  BY <1>5, <1>6

LEMMA SerialDelete ==
    ASSUME Refs(tasks, recurrences), Sound(tasks, recurrences),
           NEW t \in DOMAIN tasks, NEW u \in Users, tasks[t].responsible = u,
           NEW q, q = tasks[t].recurrence, q # NULL => recurrences[q] = t,
           ~IsPrevious(Dissolved(tasks, q), t),
           tasks' = Without(Dissolved(tasks, q), t), recurrences' = Without(recurrences, q)
    PROVE  Serial!Next
<1> DEFINE D == Dissolved(tasks, q)
           W == Without(recurrences, q)
<1>1. t \in TaskIds
  BY DEF Refs, IsPlain
<1>2. Serial!MayDelete(u, t)
  BY DEF Serial!MayDelete, Serial!CanDelete, Serial!CanUpdate, Serial!IsFriendTask,
         Serial!Permitted, Serial!CurrentOf
<1>3. /\ DeleteRow(D, W, t) = Without(D, t)
      /\ CascadeRow(W, t) = W
  BY DeleteTables
<1>4. /\ D = IF q = NULL THEN tasks ELSE Serial!UnsetRecurrence(tasks, q)
      /\ W = IF q = NULL THEN recurrences ELSE Serial!DropRecurrence(recurrences, q)
  <2>1. CASE q = NULL
    <3>1. q \notin DOMAIN recurrences
      BY <2>1, NullAssumption DEF Refs, IsRecurrenceTable
    <3> QED
      BY <2>1, <3>1, NoMembersLeft
  <2>2. CASE q # NULL
    BY <2>2, SerialDissolves
  <2> QED
    BY <2>1, <2>2
<1>5. ~IsPrevious(D, t) /\ tasks' = Without(D, t) /\ recurrences' = W
  OBVIOUS
<1> HIDE DEF D, W
<1>6. tasks' = Serial!DeleteRow(D, W, t)
  BY <1>3, <1>5 DEF DeleteRow, Serial!DeleteRow, CurrentOf, Serial!CurrentOf
<1>7. recurrences' = Serial!CascadeRow(W, t)
  BY <1>3, <1>5 DEF CascadeRow, Serial!CascadeRow, Restrict, Serial!Restrict
<1>8. ~Serial!IsPrevious(D, t)
  BY <1>5 DEF IsPrevious, Serial!IsPrevious
<1>9. Serial!DeleteTask(u, t)
  BY <1>2, <1>4, <1>6, <1>7, <1>8 DEF Serial!DeleteTask
<1> QED
  BY <1>1, <1>9 DEF Serial!Next, Serial!WriteStep

LEMMA SerialCreate ==
    ASSUME NEW u \in Users, NEW t \in TaskIds, CreateTask(u, t)
    PROVE  Serial!Next
<1>1. t \notin DOMAIN tasks
  BY DEF CreateTask, UnusedTask
<1>2. tasks' = Serial!Put(tasks, t, Serial!NewTask(u, NULL)) /\ recurrences' = recurrences
  BY DEF CreateTask, Put, Serial!Put, NewTask, Serial!NewTask
<1>3. Serial!ValidAssignment(NoMembers, u, u, NULL)
  BY DEF Serial!ValidAssignment
<1>4. Serial!CreateTask(u, t, u, NULL, NULL)
  BY <1>1, <1>2, <1>3 DEF Serial!CreateTask
<1> QED
  BY <1>4 DEF Serial!Next, Serial!WriteStep

-----------------------------------------------------------------------------
(* Commits                                                                 *)

\* Connection c commits what its request means, and disturbs no other.
Serialises(c) ==
    /\ Serial!Next \/ UNCHANGED <<tasks, recurrences>>
    /\ Sound(tasks', recurrences')
    /\ \A d \in Connections \ {c} : pc[d] \notin {"idle", "read"} =>
          Beside(tasks, recurrences, tasks', recurrences', job[d], seen[d], own[d])

LEMMA Overlapping ==
    ASSUME Inv, SInv, NEW c \in Connections, NEW d \in Connections \ {c},
           pc[c] \notin {"idle", "read"}, pc[d] \notin {"idle", "read"}
    PROVE  /\ job[c].op = "complete" => job[d].op = "reopen"
           /\ job[c].op = "reopen" => job[d].op = "complete"
           /\ job[c].op = "repeat" => job[d].op \in {"single", "delete"}
           /\ job[c].op \in {"single", "delete"} => job[d].op \in {"repeat", "single", "delete"}
<1>1. job[c] # NULL /\ job[d] # NULL
  BY DEF Inv, Fits, Flow
<1>2. {job[c].op, job[d].op} \in SerialOverlaps
  BY <1>1 DEF SInv, Apart
<1> DEFINE p == job[c].op
           q == job[d].op
<1>3. \E S \in SerialOverlaps : {p, q} = S
  BY <1>2
<1> HIDE DEF p, q
<1> QED
  BY <1>3 DEF SerialOverlaps, p, q

LEMMA CommitMoves ==
    ASSUME Inv, SInv, NEW c \in Connections, Commit(c), NEW d \in Connections \ {c}
    PROVE  Moved(tasks, recurrences, tasks', recurrences', own[d])
<1>1. tasks' = Tasks(c) /\ recurrences' = Recs(c)
  BY DEF Commit
<1>2. Refs(tasks, recurrences) /\ Sound(tasks, recurrences) /\ Refs(Tasks(c), Recs(c))
  BY Known, Seen
<1>3. Excludes(own[c], own[d])
  BY Seen
<1>4. Frozen(tasks, Tasks(c), own[d].tasks)
  BY <1>3, OverlayRows DEF Frozen, Excludes, Tasks
<1>5. Frozen(recurrences, Recs(c), own[d].recs)
  BY <1>3, OverlayRows DEF Frozen, Excludes, Recs
<1> QED
  BY <1>1, <1>2, <1>4, <1>5 DEF Moved

LEMMA FrozenUnknown ==
    ASSUME NEW T, NEW R, NEW U, NEW V, NEW o, Frozen(T, U, o.tasks), Frozen(R, V, o.recs),
           NEW j, NEW s, Unknown(T, R, o, j, s)
    PROVE  Unknown(U, V, o, j, s)
BY DEF Frozen, Unknown

LEMMA CommitKnows ==
    ASSUME Inv, SInv, NEW c \in Connections, Commit(c), Serialises(c)
    PROVE  SInv'
<1> DEFINE T == tasks'
           R == recurrences'
<1>1. \A d \in Connections :
         /\ job'[d] = IF d = c THEN NULL ELSE job[d]
         /\ pc'[d] = IF d = c THEN "idle" ELSE pc[d]
         /\ seen'[d] = IF d = c THEN NULL ELSE seen[d]
         /\ rows'[d] = IF d = c THEN {} ELSE rows[d]
         /\ own'[d] = IF d = c THEN Nothing ELSE own[d]
  BY DEF Commit, Release, Inv, SInv
<1>2. rows' = [d \in Connections |-> rows'[d]]
  BY DEF Commit, Release, SInv
<1>3. ASSUME NEW d \in Connections
      PROVE  Knows(T, R, job'[d], pc'[d], seen'[d], rows'[d], own'[d])
  <2>1. CASE d = c
    BY <1>1, <2>1 DEF Knows
  <2>2. CASE d # c
    <3>1. Knows(tasks, recurrences, job[d], pc[d], seen[d], rows[d], own[d])
      BY Known
    <3>2. pc[d] # "idle" => job[d] \in Job
      BY Known
    <3>3. Moved(tasks, recurrences, T, R, own[d])
      BY <2>2, CommitMoves
    <3>4. pc[d] \notin {"idle", "read"} =>
             Beside(tasks, recurrences, T, R, job[d], seen[d], own[d])
      BY <2>2 DEF Serialises
    <3> HIDE DEF T, R
    <3>5. Knows(T, R, job[d], pc[d], seen[d], rows[d], own[d])
      BY <3>1, <3>2, <3>3, <3>4, BesideKnows
    <3> QED
      BY <1>1, <2>2, <3>5
  <2> QED
    BY <2>1, <2>2
<1>4. ASSUME NEW d \in Connections, NEW e \in Connections, d # e
      PROVE  /\ Apart(job'[d], job'[e])
             /\ Unknown(T, R, own'[d], job'[e], seen'[e])
  <2>1. /\ Apart(job[d], job[e])
        /\ Unknown(tasks, recurrences, own[d], job[e], seen[e])
    BY <1>4 DEF SInv
  <2>2. Apart(job'[d], job'[e])
    BY <1>1, <2>1 DEF Apart
  <2>3. CASE d = c
    BY <1>1, <2>2, <2>3 DEF Unknown, Nothing
  <2>4. CASE d # c
    <3>1. Moved(tasks, recurrences, T, R, own[d])
      BY <2>4, CommitMoves
    <3> HIDE DEF T, R
    <3>2. Unknown(T, R, own[d], job[e], seen[e])
      BY <2>1, <3>1, FrozenUnknown DEF Moved
    <3>3. CASE e = c
      BY <1>1, <2>2, <2>4, <3>3 DEF Unknown
    <3>4. CASE e # c
      BY <1>1, <2>2, <2>4, <3>2, <3>4
    <3> QED
      BY <3>3, <3>4
  <2> QED
    BY <2>3, <2>4
<1>5. Sound(T, R)
  BY DEF Serialises
<1> QED
  BY <1>2, <1>3, <1>4, <1>5 DEF SInv

LEMMA CommitSees ==
    ASSUME Inv, SInv, NEW c \in Connections, Commit(c)
    PROVE  /\ job[c] \in Job /\ job[c].user \in Users /\ job[c].task \in TaskIds
           /\ job[c].task # NULL /\ IsSeen(seen[c])
           /\ Refs(tasks, recurrences) /\ Sound(tasks, recurrences) /\ IsPlain(tasks)
           /\ job[c].task \in DOMAIN tasks => tasks[job[c].task].responsible = job[c].user
           /\ Near(recurrences, recurrences, {})
           /\ tasks' = Tasks(c) /\ recurrences' = Recs(c)
           /\ pc[c] = "commit"
<1>1. pc[c] = "commit" /\ tasks' = Tasks(c) /\ recurrences' = Recs(c)
  BY DEF Commit
<1>2. Refs(tasks, recurrences) /\ Sound(tasks, recurrences) /\ IsPlain(tasks)
      /\ Knows(tasks, recurrences, job[c], "commit", seen[c], rows[c], own[c])
  BY <1>1, Known DEF Refs
<1>3. job[c] \in Job /\ job[c].user \in Users /\ job[c].task \in TaskIds /\ job[c].task # NULL
  BY <1>1, Known, NullAssumption DEF Job
<1>4. Near(recurrences, recurrences, {})
  BY <1>2, TableRows, NearItself
<1> QED
  BY <1>1, <1>2, <1>3, <1>4 DEF Knows

\* The rows that a commit inserts are not those of another request.
LEMMA CommitInserts ==
    ASSUME Inv, SInv, NEW c \in Connections, NEW d \in Connections \ {c},
           NEW U, NEW ks, NEW V, NEW qs, Owns(own[c], U, ks, V, qs)
    PROVE  /\ \A k \in ks : k \notin DOMAIN own[d].tasks
           /\ \A k \in ks \cap DOMAIN U : k \notin DOMAIN tasks /\ U[k] # NULL /\ job[d] # NULL =>
                 k # job[d].task
<1>1. /\ DOMAIN own[c].tasks = ks /\ \A k \in ks \cap DOMAIN U : own[c].tasks[k] = U[k]
  BY WroteRows DEF Owns
<1>2. Unknown(tasks, recurrences, own[c], job[d], seen[d])
  BY DEF SInv
<1>3. Excludes(own[c], own[d])
  BY Seen
<1> QED
  BY <1>1, <1>2, <1>3 DEF Unknown, Excludes

LEMMA CommitComplete ==
    ASSUME Inv, SInv, NEW c \in Connections, Commit(c), job[c].op = "complete"
    PROVE  Serialises(c)
<1> DEFINE t == job[c].task
           s == seen[c]
           r == s.recurrence
<1>1. /\ CompleteKnows(tasks, recurrences, t, "commit", s, own[c]) /\ IsSeen(s)
      /\ pc[c] = "commit"
  BY CommitSees, OpOf
<1>2. t \in DOMAIN tasks /\ ~tasks[t].completed /\ tasks[t].recurrence = r
  BY <1>1 DEF CompleteKnows
<1>3. /\ Refs(tasks, recurrences) /\ Sound(tasks, recurrences) /\ IsPlain(tasks)
      /\ tasks' = Tasks(c) /\ recurrences' = Recs(c)
      /\ tasks[t].responsible = job[c].user /\ job[c].user \in Users
      /\ Near(recurrences, recurrences, {})
  BY <1>2, CommitSees
<1>4. \A d \in Connections \ {c} : pc[d] \notin {"idle", "read"} =>
         job[d].op = "reopen" /\ job[d] # NULL
  BY <1>1, Overlapping DEF Inv, Fits, Flow
<1>5. CASE s.current = NULL
  <2> DEFINE U == SetCompleted(tasks, t, TRUE)
  <2>1. Owns(own[c], U, {t}, recurrences, {})
    BY <1>1, <1>5 DEF CompleteKnows
  <2>2. Near(tasks, U, {t})
    BY <1>2, <1>3, NearSet
  <2>3. tasks' = U /\ recurrences' = recurrences
    <3> HIDE DEF U, t
    <3> QED
      BY <1>3, <2>1, <2>2, ViewOwned
  <2>4. /\ Sound(U, recurrences) /\ \A x : Keeps(tasks, U, x)
        /\ \A w : BesideReopen(tasks, recurrences, U, recurrences, w)
    <3>1. \A V : V = U => /\ Sound(V, recurrences) /\ \A x : Keeps(tasks, V, x)
                          /\ \A w : BesideReopen(tasks, recurrences, V, recurrences, w)
      BY <1>2, <1>3, SetLeaves
    <3> QED
      BY <3>1
  <2>5. Serial!Next
    <3>1. tasks[t].recurrence = NULL /\ tasks[t].completed # TRUE
      BY <1>1, <1>2, <1>5 DEF IsSeen
    <3> QED
      BY <1>2, <1>3, <2>3, <3>1, SerialPlain
  <2> HIDE DEF U
  <2>6. ASSUME NEW d \in Connections \ {c}, pc[d] \notin {"idle", "read"}
        PROVE  Beside(tasks, recurrences, tasks', recurrences', job[d], seen[d], own[d])
    BY <1>4, <2>3, <2>4, <2>6 DEF Beside
  <2> QED
    BY <2>3, <2>4, <2>5, <2>6 DEF Serialises
<1>6. CASE s.current # NULL
  <2>1. s.current = t /\ recurrences[r] = t /\ r # NULL /\ r \in DOMAIN recurrences
    BY <1>1, <1>2, <1>3, <1>6 DEF CompleteKnows, IsSeen, Refs
  <2>2. PICK n \in TaskIds \ DOMAIN tasks :
           Owns(own[c], Put(SetCompleted(tasks, t, TRUE), n, NextOccurrence(tasks, t)), {t, n},
                Put(recurrences, r, n), {r})
    BY <1>1, <1>6 DEF CompleteKnows
  <2> DEFINE S == SetCompleted(tasks, t, TRUE)
             row == NextOccurrence(tasks, t)
             U == Put(S, n, row)
             V == Put(recurrences, r, n)
  <2>3. Near(tasks, U, {t, n}) /\ Near(recurrences, V, {r}) /\ U[n] # NULL /\ n \in DOMAIN U
    <3>1. Near(tasks, S, {t})
      BY <1>2, <1>3, NearSet
    <3>2. row # NULL
      <4>1. row \in PlainTask
        BY <1>2, <1>3, NextOccurrenceRow
      <4> QED
        BY <4>1, RowAssumption DEF PlainTask, Task
    <3> HIDE DEF S, row
    <3>3. Near(S, U, {n}) /\ U[n] = row /\ n \in DOMAIN U
      <4>1. \A k \in DOMAIN S : S[k] # NULL
        BY <3>1 DEF Near
      <4>2. Near(S, U, {n})
        BY <3>2, <4>1, NearPut
      <4> QED
        BY <4>2 DEF Put
    <3> HIDE DEF U
    <3>4. Near(tasks, U, {t, n})
      BY <3>1, <3>3, NearNear
    <3>5. Near(recurrences, V, {r})
      <4>1. n # NULL /\ \A k \in DOMAIN recurrences : recurrences[k] # NULL
        BY <1>3, TableRows, NullAssumption
      <4> QED
        BY <4>1, NearPut
    <3> QED
      BY <3>2, <3>3, <3>4, <3>5
  <2>4. Owns(own[c], U, {t, n}, V, {r})
    BY <2>2
  <2>5. tasks' = U /\ recurrences' = V
    <3> HIDE DEF U, V
    <3> QED
      BY <1>3, <2>3, <2>4, ViewOwned
  <2>6. /\ Sound(U, V) /\ \A x : x # n => Keeps(tasks, U, x)
        /\ \A w : t \notin DOMAIN w => BesideReopen(tasks, recurrences, U, V, w)
    <3>1. n \in TaskIds /\ n \notin DOMAIN tasks
      OBVIOUS
    <3>2. U = Put(SetCompleted(tasks, t, TRUE), n, NextOccurrence(tasks, t)) /\ V = Put(recurrences, r, n)
      OBVIOUS
    <3>3. r = tasks[t].recurrence
      BY <1>2
    <3> HIDE DEF U, V, r, t
    <3>4. Completing(tasks, recurrences, t, n, r, U, V)
      BY <1>2, <1>3, <2>1, <3>1, <3>2, <3>3 DEF Completing
    <3> QED
      BY <3>4, NextLeaves
  <2>7. Serial!Next
    BY <1>2, <1>3, <2>1, <2>5, SerialComplete
  <2> HIDE DEF U, V
  <2>8. ASSUME NEW d \in Connections \ {c}, pc[d] \notin {"idle", "read"}
        PROVE  Beside(tasks, recurrences, tasks', recurrences', job[d], seen[d], own[d])
    <3>1. job[d] # NULL /\ n \notin DOMAIN tasks
      BY <1>4, <2>8
    <3>2. /\ \A k \in {t, n} : k \notin DOMAIN own[d].tasks
          /\ \A k \in {t, n} \cap DOMAIN U :
                k \notin DOMAIN tasks /\ U[k] # NULL /\ job[d] # NULL => k # job[d].task
      <4> DEFINE ks == {t, n}
                 qs == {r}
      <4>1. Owns(own[c], U, ks, V, qs)
        BY <2>4
      <4> HIDE DEF ks, qs
      <4>2. /\ \A k \in ks : k \notin DOMAIN own[d].tasks
            /\ \A k \in ks \cap DOMAIN U :
                  k \notin DOMAIN tasks /\ U[k] # NULL /\ job[d] # NULL => k # job[d].task
        BY <4>1, CommitInserts
      <4> QED
        BY <4>2 DEF ks
    <3>3. t \notin DOMAIN own[d].tasks /\ n # job[d].task
      BY <2>3, <3>1, <3>2
    <3> QED
      BY <1>4, <2>5, <2>6, <2>8, <3>3 DEF Beside
  <2> QED
    BY <2>5, <2>6, <2>7, <2>8 DEF Serialises
<1> QED
  BY <1>5, <1>6

LEMMA CommitReopen ==
    ASSUME Inv, SInv, NEW c \in Connections, Commit(c), job[c].op = "reopen"
    PROVE  Serialises(c)
<1> DEFINE t == job[c].task
           s == seen[c]
           r == s.recurrence
           x == s.current
<1>1. /\ ReopenKnows(tasks, recurrences, t, "commit", s, own[c]) /\ IsSeen(s)
      /\ pc[c] = "commit"
  BY CommitSees, OpOf
<1>2. t \in DOMAIN tasks /\ tasks[t].completed /\ tasks[t].recurrence = r
  BY <1>1 DEF ReopenKnows
<1>3. /\ Refs(tasks, recurrences) /\ Sound(tasks, recurrences) /\ IsPlain(tasks)
      /\ tasks' = Tasks(c) /\ recurrences' = Recs(c)
      /\ tasks[t].responsible = job[c].user /\ job[c].user \in Users
      /\ Near(recurrences, recurrences, {})
  BY <1>2, CommitSees
<1>4. \A d \in Connections \ {c} : pc[d] \notin {"idle", "read"} => job[d].op = "complete"
  BY <1>1, Overlapping
<1>5. CASE x = NULL
  <2> DEFINE U == SetCompleted(tasks, t, FALSE)
  <2>1. Owns(own[c], U, {t}, recurrences, {})
    BY <1>1, <1>5 DEF ReopenKnows
  <2>2. Near(tasks, U, {t})
    BY <1>2, <1>3, NearSet
  <2>3. tasks' = U /\ recurrences' = recurrences
    <3> HIDE DEF U, t
    <3> QED
      BY <1>3, <2>1, <2>2, ViewOwned
  <2>4. /\ Sound(U, recurrences) /\ \A y : Keeps(tasks, U, y)
        /\ \A y : BesideComplete(tasks, recurrences, U, recurrences, y)
    <3>1. \A V : V = U => /\ Sound(V, recurrences) /\ \A y : Keeps(tasks, V, y)
                          /\ \A y : BesideComplete(tasks, recurrences, V, recurrences, y)
      BY <1>2, <1>3, SetLeaves
    <3> QED
      BY <3>1
  <2>5. Serial!Next
    <3>1. tasks[t].recurrence = NULL /\ tasks[t].completed # FALSE
      BY <1>1, <1>2, <1>5 DEF IsSeen
    <3> QED
      BY <1>2, <1>3, <2>3, <3>1, SerialPlain
  <2> HIDE DEF U
  <2>6. ASSUME NEW d \in Connections \ {c}, pc[d] \notin {"idle", "read"}
        PROVE  Beside(tasks, recurrences, tasks', recurrences', job[d], seen[d], own[d])
    BY <1>4, <2>3, <2>4, <2>6 DEF Beside
  <2> QED
    BY <2>3, <2>4, <2>5, <2>6 DEF Serialises
<1>6. CASE x # NULL
  <2> DEFINE S == SetCompleted(tasks, t, FALSE)
             U == Without(S, x)
             V == Put(recurrences, r, t)
  <2>1. /\ Stays(tasks, recurrences, t, s) /\ ~IsPrevious(tasks, x)
        /\ Owns(own[c], U, {t, x}, V, {r})
    BY <1>1, <1>6 DEF ReopenKnows
  <2>2. Reopening(tasks, recurrences, t, x, r)
    BY <1>1, <1>2, <1>3, <1>6, <2>1 DEF Reopening, Stays, IsSeen
  <2>3. Near(tasks, U, {t, x}) /\ Near(recurrences, V, {r})
    <3>1. Near(tasks, S, {t})
      BY <1>2, <1>3, NearSet
    <3> HIDE DEF S
    <3>2. Near(S, U, {x} \cap DOMAIN S)
      <4>1. \A k \in DOMAIN S : S[k] # NULL
        BY <3>1 DEF Near
      <4> QED
        BY <4>1, NearWithout
    <3> HIDE DEF U
    <3>3. Near(tasks, U, {t, x})
      BY <3>1, <3>2, NearNear
    <3>4. Near(recurrences, V, {r})
      <4>1. t # NULL /\ \A k \in DOMAIN recurrences : recurrences[k] # NULL
        BY <1>3, CommitSees, TableRows
      <4> QED
        BY <4>1, NearPut
    <3> QED
      BY <3>3, <3>4
  <2>4. tasks' = U /\ recurrences' = V
    <3> HIDE DEF U, V, x
    <3> QED
      BY <1>3, <2>1, <2>3, ViewOwned
  <2>5. /\ Sound(U, V) /\ \A y : Keeps(tasks, U, y)
        /\ \A y : BesideComplete(tasks, recurrences, U, V, y)
    <3>1. U = Without(SetCompleted(tasks, t, FALSE), x) /\ V = Put(recurrences, r, t)
      OBVIOUS
    <3> HIDE DEF U, V
    <3> QED
      BY <2>2, <3>1, ReopenLeaves
  <2>6. Serial!Next
    BY <1>2, <1>3, <2>1, <2>2, <2>4, SerialReopen
  <2> HIDE DEF U, V
  <2>7. ASSUME NEW d \in Connections \ {c}, pc[d] \notin {"idle", "read"}
        PROVE  Beside(tasks, recurrences, tasks', recurrences', job[d], seen[d], own[d])
    BY <1>4, <2>4, <2>5, <2>7 DEF Beside
  <2> QED
    BY <2>4, <2>5, <2>6, <2>7 DEF Serialises
<1> QED
  BY <1>5, <1>6

LEMMA CommitRepeat ==
    ASSUME Inv, SInv, NEW c \in Connections, Commit(c), job[c].op = "repeat"
    PROVE  Serialises(c)
<1> DEFINE t == job[c].task
           s == seen[c]
<1>1. /\ RepeatKnows(tasks, recurrences, t, "commit", s, own[c])
      /\ pc[c] = "commit"
  BY CommitSees, OpOf
<1>2. t \in DOMAIN tasks
  BY <1>1 DEF RepeatKnows
<1>3. /\ Refs(tasks, recurrences) /\ Sound(tasks, recurrences) /\ IsPlain(tasks)
      /\ tasks' = Tasks(c) /\ recurrences' = Recs(c) /\ t # NULL
      /\ tasks[t].responsible = job[c].user /\ job[c].user \in Users
  BY <1>2, CommitSees
<1>4. \A d \in Connections \ {c} : pc[d] \notin {"idle", "read"} =>
         job[d].op \in {"single", "delete"} /\ seen[d] # NULL
  BY <1>1, Overlapping, OpOf DEF IsSeen
<1>5. CASE s.recurrence # NULL
  <2> DEFINE ks == {t}
             qs == {s.recurrence}
  <2>1. Owns(own[c], tasks, ks, recurrences, qs)
    BY <1>1, <1>5 DEF RepeatKnows
  <2> HIDE DEF ks, qs
  <2>2. Near(tasks, tasks, ks) /\ Near(recurrences, recurrences, qs)
    BY <1>3, TableRows, NearItself
  <2>3. tasks' = tasks /\ recurrences' = recurrences
    BY <1>3, <2>1, <2>2, ViewOwned
  <2>4. ASSUME NEW d \in Connections \ {c}, pc[d] \notin {"idle", "read"}
        PROVE  Beside(tasks, recurrences, tasks', recurrences', job[d], seen[d], own[d])
    BY <2>3, NoneLeaves DEF Beside
  <2> QED
    BY <1>3, <2>3, <2>4 DEF Serialises
<1>6. CASE s.recurrence = NULL
  <2>1. tasks[t].recurrence = NULL
    BY <1>1, <1>2, <1>6 DEF RepeatKnows
  <2>2. PICK r \in RecIds \ DOMAIN recurrences :
           Owns(own[c], StartRecurrence(tasks, t, r), {t}, Put(recurrences, r, t), {r})
    BY <1>1, <1>6 DEF RepeatKnows
  <2> DEFINE U == StartRecurrence(tasks, t, r)
             V == Put(recurrences, r, t)
             ks == {t}
             qs == {r}
  <2>3. Owns(own[c], U, ks, V, qs)
    BY <2>2
  <2>4. /\ Near(tasks, U, ks) /\ Near(recurrences, V, qs)
        /\ V[r] # NULL /\ r \in DOMAIN V
    <3>1. \A X : X = U => Near(tasks, X, {t})
      <4>1. r \in RecIds
        OBVIOUS
      <4> HIDE DEF t
      <4>2. ASSUME NEW X, X = StartRecurrence(tasks, t, r) PROVE Near(tasks, X, {t})
        BY <1>2, <1>3, <4>1, <4>2, NearStart
      <4> QED
        BY <4>2
    <3>2. \A k \in DOMAIN recurrences : recurrences[k] # NULL
      BY <1>3, TableRows
    <3>3. Near(recurrences, V, {r}) /\ V[r] = t /\ r \in DOMAIN V
      <4>1. Near(recurrences, V, {r})
        BY <1>3, <3>2, NearPut
      <4> QED
        BY <4>1 DEF Put
    <3> QED
      BY <1>3, <3>1, <3>3
  <2>5. /\ Sound(U, V) /\ \A x : Keeps(tasks, U, x)
        /\ \A q : q # r => BesideDissolve(tasks, recurrences, U, V, q)
    <3>1. U = StartRecurrence(tasks, t, r) /\ V = Put(recurrences, r, t)
      OBVIOUS
    <3> HIDE DEF U, V
    <3> QED
      BY <1>2, <1>3, <2>1, <3>1, AttachLeaves
  <2> HIDE DEF ks, qs
  <2>6. tasks' = U /\ recurrences' = V
    <3> HIDE DEF U, V
    <3> QED
      BY <1>3, <2>3, <2>4, ViewOwned
  <2>7. Serial!Next
    <3>1. r # NULL /\ r \in RecIds \cup {NULL} /\ r \notin DOMAIN recurrences
      BY NullAssumption
    <3> QED
      BY <1>2, <1>3, <2>1, <2>6, <3>1, SerialUpdate
  <2> HIDE DEF U, V
  <2>8. ASSUME NEW d \in Connections \ {c}, pc[d] \notin {"idle", "read"}
        PROVE  Beside(tasks, recurrences, tasks', recurrences', job[d], seen[d], own[d])
    <3>1. \A q \in qs \cap DOMAIN V :
             q \notin DOMAIN recurrences /\ V[q] # NULL /\ seen[d] # NULL => q # seen[d].recurrence
      <4>1. /\ DOMAIN own[c].recs = qs
            /\ \A q \in qs \cap DOMAIN V : own[c].recs[q] = V[q]
        BY <2>3, WroteRows DEF Owns
      <4>2. Unknown(tasks, recurrences, own[c], job[d], seen[d])
        BY DEF SInv
      <4> QED
        BY <4>1, <4>2 DEF Unknown
    <3>2. r # seen[d].recurrence
      BY <1>4, <2>4, <2>8, <3>1 DEF qs
    <3> QED
      BY <1>4, <2>5, <2>6, <2>8, <3>2 DEF Beside
  <2> QED
    BY <2>5, <2>6, <2>7, <2>8 DEF Serialises
<1> QED
  BY <1>5, <1>6

LEMMA CommitSingle ==
    ASSUME Inv, SInv, NEW c \in Connections, Commit(c), job[c].op = "single"
    PROVE  Serialises(c)
<1> DEFINE t == job[c].task
           r == seen[c].recurrence
           K == Members(tasks, r)
           U == Dissolved(tasks, r)
           V == Without(recurrences, r)
           ks == K \cup {t}
           qs == {r} \cap DOMAIN recurrences
<1>1. /\ SingleKnows(tasks, recurrences, t, "commit", r, rows[c], own[c])
      /\ pc[c] = "commit"
  BY CommitSees, OpOf
<1>2. /\ t \in DOMAIN tasks /\ Owns(own[c], U, ks, V, qs)
      /\ r \in DOMAIN recurrences => recurrences[r] = t
  BY <1>1 DEF SingleKnows, DissolveKnows
<1>3. /\ Refs(tasks, recurrences) /\ Sound(tasks, recurrences) /\ IsPlain(tasks)
      /\ tasks' = Tasks(c) /\ recurrences' = Recs(c)
      /\ tasks[t].responsible = job[c].user /\ job[c].user \in Users
  BY <1>2, CommitSees
<1>4. \A d \in Connections \ {c} : pc[d] \notin {"idle", "read"} =>
         job[d].op \in {"repeat", "single", "delete"}
  BY <1>1, Overlapping
<1>5. Near(tasks, U, ks) /\ Near(recurrences, V, qs)
  <2>1. \A X : X = U => Near(tasks, X, K)
    BY <1>3, DissolvedRows
  <2>2. Near(tasks, U, ks)
    BY <2>1 DEF Near
  <2>3. \A k \in DOMAIN recurrences : recurrences[k] # NULL
    BY <1>3, TableRows
  <2>4. Near(recurrences, V, qs)
    BY <2>3, NearWithout
  <2> QED
    BY <2>2, <2>4
<1>6. tasks' = U /\ recurrences' = V
  <2> HIDE DEF U, V, ks, qs
  <2> QED
    BY <1>2, <1>3, <1>5, ViewOwned
<1>7. /\ Sound(U, V) /\ \A x : Keeps(tasks, U, x)
      /\ BesideRepeat(tasks, U)
      /\ \A q : BesideDissolve(tasks, recurrences, U, V, q)
  <2>1. U = Dissolved(tasks, r) /\ V = Without(recurrences, r)
    OBVIOUS
  <2> HIDE DEF U, V
  <2> QED
    BY <1>3, <2>1, SingleLeaves
<1>8. Serial!Next \/ UNCHANGED <<tasks, recurrences>>
  <2>1. CASE r \in DOMAIN recurrences
    <3>1. tasks[t].recurrence = r /\ r # NULL
      BY <1>2, <1>3, <2>1, NullAssumption DEF Sound, Refs, IsRecurrenceTable
    <3> QED
      BY <1>2, <1>3, <1>6, <2>1, <3>1, SerialUpdate
  <2>2. CASE r \notin DOMAIN recurrences
    BY <1>3, <1>6, <2>2, NoMembersLeft
  <2> QED
    BY <2>1, <2>2
<1> HIDE DEF U, V
<1>9. ASSUME NEW d \in Connections \ {c}, pc[d] \notin {"idle", "read"}
      PROVE  Beside(tasks, recurrences, tasks', recurrences', job[d], seen[d], own[d])
  BY <1>4, <1>6, <1>7, <1>9 DEF Beside
<1> QED
  BY <1>6, <1>7, <1>8, <1>9 DEF Serialises

LEMMA CommitDelete ==
    ASSUME Inv, SInv, NEW c \in Connections, Commit(c), job[c].op = "delete"
    PROVE  Serialises(c)
<1> DEFINE t == job[c].task
           r == seen[c].recurrence
           q == tasks[t].recurrence
           K == Members(tasks, q)
           D == Dissolved(tasks, q)
           U == Without(D, t)
           V == Without(recurrences, q)
           ks == K \cup {t}
           qs == {q} \cap DOMAIN recurrences
<1>1. /\ DeleteKnows(tasks, recurrences, t, "commit", r, rows[c], own[c])
      /\ pc[c] = "commit"
  BY CommitSees, OpOf
<1>2. t \in DOMAIN tasks /\ ~IsPrevious(D, t) /\ Owns(own[c], U, ks, V, qs)
  BY <1>1 DEF DeleteKnows
<1>3. /\ Refs(tasks, recurrences) /\ Sound(tasks, recurrences) /\ IsPlain(tasks)
      /\ tasks' = Tasks(c) /\ recurrences' = Recs(c)
      /\ tasks[t].responsible = job[c].user /\ job[c].user \in Users
  BY <1>2, CommitSees
<1>4. \A d \in Connections \ {c} : pc[d] \notin {"idle", "read"} =>
         job[d].op \in {"repeat", "single", "delete"}
  BY <1>1, Overlapping
<1>5. q # NULL => recurrences[q] = t
  <2> SUFFICES ASSUME q # NULL PROVE recurrences[q] = t
    OBVIOUS
  <2>1. /\ q \in DOMAIN recurrences /\ recurrences[q] \in DOMAIN tasks
        /\ tasks[recurrences[q]].recurrence = q
    BY <1>2, <1>3 DEF Refs, Sound
  <2>2. CASE q = r
    BY <1>1, <2>1, <2>2 DEF DeleteKnows, DissolveKnows
  <2>3. CASE q # r
    <3>1. K = {t}
      BY <1>1, <1>2, <2>3 DEF DeleteKnows
    <3>2. recurrences[q] \in K
      BY <2>1 DEF Members
    <3> QED
      BY <3>1, <3>2
  <2> QED
    BY <2>2, <2>3
<1>6. Near(tasks, U, ks) /\ Near(recurrences, V, qs)
  <2>1. \A X : X = D => Near(tasks, X, K)
    BY <1>3, DissolvedRows
  <2>2. Near(tasks, D, K)
    BY <2>1
  <2>3. \A k \in DOMAIN D : D[k] # NULL
    BY <2>2 DEF Near
  <2> HIDE DEF D, K
  <2>4. Near(D, U, {t} \cap DOMAIN D)
    BY <2>3, NearWithout
  <2>5. K \cup ({t} \cap DOMAIN D) \subseteq ks
    OBVIOUS
  <2> HIDE DEF U, ks
  <2>6. Near(tasks, U, ks)
    BY <2>2, <2>4, <2>5, NearNear
  <2>7. \A k \in DOMAIN recurrences : recurrences[k] # NULL
    BY <1>3, TableRows
  <2>8. Near(recurrences, V, qs)
    BY <2>7, NearWithout
  <2> QED
    BY <2>6, <2>8
<1>7. tasks' = U /\ recurrences' = V
  <2> HIDE DEF U, V, ks, qs
  <2> QED
    BY <1>2, <1>3, <1>6, ViewOwned
<1>8. /\ Sound(U, V) /\ \A x : Keeps(tasks, U, x)
      /\ BesideRepeat(tasks, U)
      /\ \A a : BesideDissolve(tasks, recurrences, U, V, a)
  <2>1. U = Without(Dissolved(tasks, q), t) /\ V = Without(recurrences, q) /\ q = tasks[t].recurrence
    OBVIOUS
  <2> HIDE DEF U, V, q
  <2> QED
    BY <1>2, <1>3, <1>5, <2>1, DeleteLeaves
<1>9. Serial!Next
  <2>1. /\ q = tasks[t].recurrence
        /\ tasks' = Without(Dissolved(tasks, q), t) /\ recurrences' = Without(recurrences, q)
        /\ ~IsPrevious(Dissolved(tasks, q), t)
    BY <1>2, <1>7
  <2> HIDE DEF U, V, D, q
  <2> QED
    BY <1>2, <1>3, <1>5, <2>1, SerialDelete
<1> HIDE DEF U, V
<1>10. ASSUME NEW d \in Connections \ {c}, pc[d] \notin {"idle", "read"}
      PROVE  Beside(tasks, recurrences, tasks', recurrences', job[d], seen[d], own[d])
  BY <1>4, <1>7, <1>8, <1>10 DEF Beside
<1> QED
  BY <1>7, <1>8, <1>9, <1>10 DEF Serialises

LEMMA CommitSerialises ==
    ASSUME Inv, SInv, NEW c \in Connections, Commit(c)
    PROVE  SInv' /\ (Serial!Next \/ UNCHANGED <<tasks, recurrences>>)
<1>1. job[c].op \in {"complete", "reopen", "repeat", "single", "delete"}
  BY OpOf DEF Commit
<1>2. Serialises(c)
  BY <1>1, CommitComplete, CommitReopen, CommitRepeat, CommitSingle, CommitDelete
<1> QED
  BY <1>2, CommitKnows DEF Serialises

-----------------------------------------------------------------------------
(* All steps                                                               *)

LEMMA CreateTaskKnows ==
    ASSUME Inv, SInv, NEW u \in Users, NEW t \in TaskIds, CreateTask(u, t)
    PROVE  SInv'
<1>1. /\ tasks' = Put(tasks, t, NewTask(u, NULL))
      /\ UNCHANGED <<recurrences, job, pc, seen, rows, own>> /\ t \notin DOMAIN tasks
  BY DEF CreateTask, UnusedTask
<1>2. Refs(tasks, recurrences) /\ Sound(tasks, recurrences) /\ Refs(tasks', recurrences)
  <2>1. Inv'
    BY CreateTaskKeeps
  <2> QED
    BY <1>1, <2>1 DEF Inv, SInv
<1>3. /\ Sound(tasks', recurrences)
      /\ \A x : x # t => Keeps(tasks, tasks', x)
      /\ \A x : x # t => BesideComplete(tasks, recurrences, tasks', recurrences, x)
      /\ \A w : BesideReopen(tasks, recurrences, tasks', recurrences, w)
      /\ BesideRepeat(tasks, tasks')
      /\ \A r : BesideDissolve(tasks, recurrences, tasks', recurrences, r)
  BY <1>1, <1>2, CreateLeaves
<1>4. ASSUME NEW d \in Connections
      PROVE  Moved(tasks, recurrences, tasks', recurrences, own[d])
  <2>1. t \notin DOMAIN own[d].tasks
    BY DEF CreateTask, UnusedTask
  <2>2. Frozen(tasks, tasks', own[d].tasks)
    BY <1>1, <2>1 DEF Frozen, Put
  <2>3. Frozen(recurrences, recurrences, own[d].recs)
    BY DEF Frozen
  <2> QED
    BY <1>2, <2>2, <2>3 DEF Moved
<1>5. ASSUME NEW d \in Connections
      PROVE  Knows(tasks', recurrences, job[d], pc[d], seen[d], rows[d], own[d])
  <2>1. /\ Knows(tasks, recurrences, job[d], pc[d], seen[d], rows[d], own[d])
        /\ pc[d] # "idle" => job[d] \in Job
    BY Known
  <2>2. job[d] \in Job => job[d].task # t
    BY RowAssumption DEF CreateTask, UnusedTask
  <2>3. pc[d] \notin {"idle", "read"} =>
           Beside(tasks, recurrences, tasks', recurrences, job[d], seen[d], own[d])
    BY <1>3, <2>1, <2>2 DEF Beside
  <2>4. Moved(tasks, recurrences, tasks', recurrences, own[d])
    BY <1>4
  <2> QED
    BY <2>1, <2>3, <2>4, BesideKnows
<1>6. ASSUME NEW d \in Connections, NEW e \in Connections, d # e
      PROVE  /\ Apart(job[d], job[e])
             /\ Unknown(tasks', recurrences, own[d], job[e], seen[e])
  <2>1. Apart(job[d], job[e]) /\ Unknown(tasks, recurrences, own[d], job[e], seen[e])
    BY <1>6 DEF SInv
  <2>2. Frozen(tasks, tasks', own[d].tasks) /\ Frozen(recurrences, recurrences, own[d].recs)
    BY <1>4 DEF Moved
  <2> QED
    BY <2>1, <2>2, FrozenUnknown
<1>7. rows = [c \in Connections |-> rows[c]]
  BY DEF SInv
<1> QED
  BY <1>1, <1>3, <1>5, <1>6, <1>7 DEF SInv

LEMMA InitKnows == Init => SInv
<1> SUFFICES ASSUME Init PROVE SInv
  OBVIOUS
<1>1. Sound(tasks, recurrences)
  BY DEF Init, Sound
<1>2. \A c \in Connections : Knows(tasks, recurrences, job[c], pc[c], seen[c], rows[c], own[c])
  BY DEF Init, Knows
<1>3. \A c, d \in Connections : /\ Apart(job[c], job[d])
                                /\ Unknown(tasks, recurrences, own[c], job[d], seen[d])
  BY DEF Init, Apart, Unknown, Nothing
<1> QED
  BY <1>1, <1>2, <1>3 DEF Init, SInv

LEMMA StatementsKnow ==
    ASSUME Inv, SInv, NEW c \in Connections, Statement(c)
    PROVE  SInv' /\ (Serial!Next \/ UNCHANGED <<tasks, recurrences>>)
<1>1. CASE Refuse(c) \/ Unexpected(c)
  BY <1>1, RollbackKnows DEF Refuse, Unexpected, Rollback
<1>2. CASE Commit(c)
  BY <1>2, CommitSerialises
<1>3. ASSUME Statement(c), ~Refuse(c), ~Unexpected(c), ~Commit(c)
      PROVE  SInv'
  BY <1>3, ReadKnows, SetKnows, NextKnows, LoadKnows, RevertKnows, AssignKnows, TouchKnows,
     AttachKnows, ScanKnows, UnsetKnows, UnlinkKnows, RemoveKnows
  DEF Statement
<1>4. ASSUME Statement(c), ~Commit(c) PROVE UNCHANGED <<tasks, recurrences>>
  BY <1>4 DEF Statement, Read, Refuse, SetStatement, RevertStatement, LoadPrevious,
     AssignStatement, TouchStatement, ScanStatement, UnsetStatement, UnlinkStatement,
     RemoveStatement, Unexpected, NextStatement, AttachStatement, WriteTasks, Execute, Fail,
     Rollback
<1> QED
  BY <1>1, <1>2, <1>3, <1>4

LEMMA StepSerialises ==
    Overlaps \subseteq SerialOverlaps /\ Inv /\ SInv /\ [Next]_vars
      => SInv' /\ [Serial!Next]_(Serial!vars)
<1> SUFFICES ASSUME Overlaps \subseteq SerialOverlaps, Inv, SInv, [Next]_vars
             PROVE  SInv' /\ (Serial!Next \/ UNCHANGED <<tasks, recurrences>>)
  BY DEF Serial!vars, NoMembers
<1>1. ASSUME NEW u \in Users, NEW t \in TaskIds, CreateTask(u, t)
      PROVE  SInv' /\ Serial!Next
  BY <1>1, CreateTaskKnows, SerialCreate
<1>2. ASSUME NEW u \in Users, NEW t \in TaskIds, NEW c \in Connections, NEW op \in Ops,
             Begin(c, u, op, t)
      PROVE  SInv' /\ UNCHANGED <<tasks, recurrences>>
  BY <1>2, BeginKnows DEF Begin
<1>3. ASSUME NEW c \in Connections, Statement(c)
      PROVE  SInv' /\ (Serial!Next \/ UNCHANGED <<tasks, recurrences>>)
  BY <1>3, StatementsKnow
<1>4. ASSUME NEW c \in Connections, Drop(c) \/ BreakDeadlock(c)
      PROVE  SInv' /\ UNCHANGED <<tasks, recurrences>>
  BY <1>4, RollbackKnows DEF Drop, BreakDeadlock, Rollback
<1>5. CASE UNCHANGED vars
  BY <1>5 DEF vars, SInv
<1> QED
  BY <1>1, <1>2, <1>3, <1>4, <1>5 DEF Next

\* However their statements interleave, the requests that SerialOverlaps lets
\* overlap leave the tables as if each had run alone when it commits: what is
\* committed is a behaviour of SurvivalDb.  So all that holds there of the
\* tables holds of the overlapping transactions, for any number of them.
THEOREM SerialImplemented ==
    ASSUME Overlaps \subseteq SerialOverlaps
    PROVE  Spec => ImplementsSerial
<1>1. Init => Serial!Init
  BY DEF Init, Serial!Init, NoMembers
<1>2. Overlaps \subseteq SerialOverlaps /\ Inv /\ SInv /\ [Next]_vars
        => SInv' /\ [Serial!Next]_(Serial!vars)
  BY StepSerialises
<1> QED
  BY <1>1, <1>2, InitKnows, InvHolds, PTL DEF Spec, ImplementsSerial, Serial!Spec

-----------------------------------------------------------------------------
(* What is proved of SurvivalDb holds of the requests of SerialOverlaps    *)

Alone == INSTANCE SurvivalDbProofs WITH groups <- {}, members <- NoMembers

\* Alone is Serial, with its theorems.
LEMMA SameSerial == Serial!Spec => Alone!Spec
<1>1. Serial!Init => Alone!Init
  BY DEF Serial!Init, Alone!Init
<1>2. Serial!Next => Alone!Next
  <2>1. \A u, g : Serial!CreateGroup(u, g) <=> Alone!CreateGroup(u, g)
    BY DEF
      Serial!CreateGroup, Alone!CreateGroup
  <2>2. \A u, g : Serial!JoinGroup(u, g) <=> Alone!JoinGroup(u, g)
    BY DEF
      Serial!JoinGroup, Alone!JoinGroup
  <2>3. \A u, g : Serial!LeaveGroup(u, g) <=> Alone!LeaveGroup(u, g)
    BY DEF
      Serial!LeaveGroup, Serial!UnsetGroup, Serial!IsEmptyGroup, Serial!ClearGroup,
      Alone!LeaveGroup, Alone!UnsetGroup, Alone!IsEmptyGroup, Alone!ClearGroup
  <2>4. \A u, t, v, g, r : Serial!CreateTask(u, t, v, g, r) <=> Alone!CreateTask(u, t, v, g, r)
    BY DEF
      Serial!CreateTask, Serial!Put, Serial!NewTask, Serial!ValidAssignment,
      Serial!AttachRecurrence, Serial!StartRecurrence, Alone!CreateTask, Alone!Put,
      Alone!NewTask, Alone!ValidAssignment, Alone!AttachRecurrence, Alone!StartRecurrence
  <2>5. \A u, t, v, g, r : Serial!UpdateTask(u, t, v, g, r) <=> Alone!UpdateTask(u, t, v, g, r)
    <3>1. \A T, x, w, h : Serial!Reassign(T, x, w, h) = Alone!Reassign(T, x, w, h)
      BY DEF
        Serial!Reassign, Alone!Reassign
    <3>2. \A T, x : Serial!UnsetRecurrence(T, x) = Alone!UnsetRecurrence(T, x)
      BY DEF
        Serial!UnsetRecurrence, Alone!UnsetRecurrence
    <3>3. \A R, x : Serial!DropRecurrence(R, x) = Alone!DropRecurrence(R, x)
      BY DEF
        Serial!DropRecurrence, Serial!Restrict, Alone!DropRecurrence, Alone!Restrict
    <3>4. \A T, x, q : Serial!AttachRecurrence(T, x, q) <=> Alone!AttachRecurrence(T, x, q)
      BY DEF
        Serial!AttachRecurrence, Serial!StartRecurrence, Serial!Put, Alone!AttachRecurrence,
        Alone!StartRecurrence, Alone!Put
    <3>5. \A x, y : Serial!MayUpdate(x, y) <=> Alone!MayUpdate(x, y)
      BY DEF
        Serial!MayUpdate, Serial!CanUpdate, Serial!IsFriendTask, Serial!Permitted,
        Serial!CurrentOf, Alone!MayUpdate, Alone!CanUpdate, Alone!IsFriendTask, Alone!Permitted,
        Alone!CurrentOf
    <3>6. \A M, x, y, h : Serial!ValidAssignment(M, x, y, h) <=> Alone!ValidAssignment(M, x, y, h)
      BY DEF
        Serial!ValidAssignment, Alone!ValidAssignment
    <3>7. ASSUME NEW u, NEW t, NEW v, NEW g, NEW r
          PROVE  Serial!UpdateTask(u, t, v, g, r) <=> Alone!UpdateTask(u, t, v, g, r)
      <4>1. CASE r = NULL /\ tasks[t].recurrence = NULL
        BY <3>1, <3>2, <3>3, <3>4, <3>5, <3>6, <4>1 DEF Serial!UpdateTask, Alone!UpdateTask
      <4>2. CASE r = NULL /\ tasks[t].recurrence # NULL
        BY <3>1, <3>2, <3>3, <3>4, <3>5, <3>6, <4>2 DEF Serial!UpdateTask, Alone!UpdateTask
      <4>3. CASE r # NULL /\ tasks[t].recurrence = NULL
        BY <3>1, <3>2, <3>3, <3>4, <3>5, <3>6, <4>3 DEF Serial!UpdateTask, Alone!UpdateTask
      <4>4. CASE r # NULL /\ tasks[t].recurrence # NULL
        BY <3>1, <3>2, <3>3, <3>4, <3>5, <3>6, <4>4 DEF Serial!UpdateTask, Alone!UpdateTask
      <4> QED
        BY <4>1, <4>2, <4>3, <4>4
    <3> QED
      BY <3>7
  <2>6. \A u, t : Serial!DeleteTask(u, t) <=> Alone!DeleteTask(u, t)
    BY DEF
      Serial!DeleteTask, Serial!UnsetRecurrence, Serial!DropRecurrence, Serial!Restrict,
      Serial!MayDelete, Serial!CanDelete, Serial!CanUpdate, Serial!IsFriendTask,
      Serial!Permitted, Serial!CurrentOf, Serial!IsPrevious, Serial!DeleteRow,
      Serial!CascadeRow, Alone!DeleteTask, Alone!UnsetRecurrence, Alone!DropRecurrence,
      Alone!Restrict, Alone!MayDelete, Alone!CanDelete, Alone!CanUpdate, Alone!IsFriendTask,
      Alone!Permitted, Alone!CurrentOf, Alone!IsPrevious, Alone!DeleteRow, Alone!CascadeRow
  <2>7. \A u, t : Serial!TogglePlain(u, t) <=> Alone!TogglePlain(u, t)
    BY DEF
      Serial!TogglePlain, Serial!MayToggle, Serial!CanToggle, Serial!IsFriendTask,
      Serial!Permitted, Serial!PreviousOf, Serial!CurrentOf, Serial!PlainArm, Serial!Current,
      Serial!SetCompleted, Alone!TogglePlain, Alone!MayToggle, Alone!CanToggle,
      Alone!IsFriendTask, Alone!Permitted, Alone!PreviousOf, Alone!CurrentOf, Alone!PlainArm,
      Alone!Current, Alone!SetCompleted
  <2>8. \A u, t, n : Serial!CompleteCurrent(u, t, n) <=> Alone!CompleteCurrent(u, t, n)
    BY DEF
      Serial!CompleteCurrent, Serial!MayToggle, Serial!CanToggle, Serial!IsFriendTask,
      Serial!Permitted, Serial!PreviousOf, Serial!CurrentOf, Serial!CompleteArm, Serial!Current,
      Serial!Put, Serial!SetCompleted, Serial!NextOccurrence, Alone!CompleteCurrent,
      Alone!MayToggle, Alone!CanToggle, Alone!IsFriendTask, Alone!Permitted, Alone!PreviousOf,
      Alone!CurrentOf, Alone!CompleteArm, Alone!Current, Alone!Put, Alone!SetCompleted,
      Alone!NextOccurrence
  <2>9. \A u, t : Serial!ReopenPrevious(u, t) <=> Alone!ReopenPrevious(u, t)
    <3>1. \A T, x, b : Serial!SetCompleted(T, x, b) = Alone!SetCompleted(T, x, b)
      BY DEF
        Serial!SetCompleted, Alone!SetCompleted
    <3>2. \A R, x, y : Serial!Revert(R, x, y) = Alone!Revert(R, x, y)
      BY DEF
        Serial!Revert, Alone!Revert
    <3>3. \A T, R, x : Serial!DeleteRow(T, R, x) = Alone!DeleteRow(T, R, x)
      BY DEF
        Serial!DeleteRow, Serial!CurrentOf, Alone!DeleteRow, Alone!CurrentOf
    <3>4. \A R, x : Serial!CascadeRow(R, x) = Alone!CascadeRow(R, x)
      BY DEF
        Serial!CascadeRow, Serial!Restrict, Alone!CascadeRow, Alone!Restrict
    <3>5. \A x, y : Serial!MayToggle(x, y) <=> Alone!MayToggle(x, y)
      BY DEF
        Serial!MayToggle, Serial!CanToggle, Serial!IsFriendTask, Serial!Permitted,
        Serial!PreviousOf, Serial!CurrentOf, Alone!MayToggle, Alone!CanToggle,
        Alone!IsFriendTask, Alone!Permitted, Alone!PreviousOf, Alone!CurrentOf
    <3>6. \A x : Serial!ReopenArm(x) <=> Alone!ReopenArm(x)
      BY DEF
        Serial!ReopenArm, Serial!Current, Serial!CurrentOf, Serial!Previous, Serial!PreviousOf,
        Alone!ReopenArm, Alone!Current, Alone!CurrentOf, Alone!Previous, Alone!PreviousOf
    <3>7. \A x, y : Serial!CanDropCurrent(x, y) <=> Alone!CanDropCurrent(x, y)
      BY DEF
        Serial!CanDropCurrent, Serial!MayAct, Serial!Permitted, Serial!Current,
        Serial!CurrentOf, Serial!IsPrevious, Alone!CanDropCurrent, Alone!MayAct,
        Alone!Permitted, Alone!Current, Alone!CurrentOf, Alone!IsPrevious
    <3>8. \A x : Serial!Current(x) = Alone!Current(x)
      BY DEF
        Serial!Current, Serial!CurrentOf, Alone!Current, Alone!CurrentOf
    <3> QED
      BY <3>1, <3>2, <3>3, <3>4, <3>5, <3>6, <3>7, <3>8 DEF
        Serial!ReopenPrevious, Alone!ReopenPrevious
  <2> QED
    BY <2>1, <2>2, <2>3, <2>4, <2>5, <2>6, <2>7, <2>8, <2>9
    DEF Serial!Next, Serial!GroupStep, Serial!WriteStep, Serial!ToggleStep,
        Alone!Next, Alone!GroupStep, Alone!WriteStep, Alone!ToggleStep
<1>3. [Serial!Next]_(Serial!vars) => [Alone!Next]_(Alone!vars)
  BY <1>2 DEF Serial!vars, Alone!vars
<1> QED
  BY <1>1, <1>3, PTL DEF Serial!Spec, Alone!Spec

\* The requests of task.rs that SerialOverlaps lets run at once keep the
\* recurrences as they would one at a time: each stays one chain, of which
\* only the last task may be open; can_delete never offers a task that the
\* foreign keys protect; every open task can be completed by somebody; no
\* past occurrence is lost; and a recurrence moves one occurrence at a time.
THEOREM OverlapsKeepRecurrences ==
    ASSUME Overlaps \subseteq SerialOverlaps
    PROVE  Spec => /\ []Alone!RecurrenceIsChain
                   /\ []Alone!PastIsCompleted
                   /\ []Alone!DeletableIsUnreferenced
                   /\ []Alone!OpenCanBeCompleted
                   /\ Alone!PastIsKept
                   /\ Alone!MovesOneOccurrence
<1>1. Spec => Alone!Spec
  BY SerialImplemented, SameSerial, PTL DEF ImplementsSerial
<1>2. Alone!Spec => []Alone!RecurrenceIsChain /\ []Alone!PastIsCompleted
  BY NullAssumption, Alone!RecurrencesAreChains, Alone!PastOccurrencesCompleted
<1>3. Alone!Spec => []Alone!DeletableIsUnreferenced /\ []Alone!OpenCanBeCompleted
  BY NullAssumption, Alone!DeletableTasksUnreferenced, Alone!OpenTasksCompletable
<1>4. Alone!Spec => Alone!PastIsKept /\ Alone!MovesOneOccurrence
  BY NullAssumption, Alone!HistoryIsKept, Alone!RecurrenceMovesOneOccurrence
<1> QED
  BY <1>1, <1>2, <1>3, <1>4

\* "Create new task" in toggle_task_completed creates one next task, unless
\* requests overlap that SerialOverlaps leaves out, two completions of the
\* same task for instance.
THEOREM OneTaskFollows ==
    ASSUME Overlaps \subseteq SerialOverlaps
    PROVE  Spec => []OneNextTask
<1>1. Alone!RecurrenceIsChain => OneNextTask
  BY DEF Alone!RecurrenceIsChain, Alone!OneSuccessor, OneNextTask
<1> QED
  BY <1>1, OverlapsKeepRecurrences, PTL
=============================================================================
