--------------------------- MODULE ItemCacheProofs ---------------------------
(***************************************************************************)
(* Theorems about ItemCache: the client's list is what the server would    *)
(* send, unless something happened that its answers cannot tell it.        *)
(***************************************************************************)
EXTENDS ItemCache, SurvivalDbProofs

-----------------------------------------------------------------------------
(* Chains have an end.  ChainInv says so only of finite ones.              *)

\* Every set of tasks has one that no other of the set comes after.
ChainEnds ==
    \A S \in SUBSET DOMAIN tasks :
        S # {} => \E t \in S : \A s \in S : tasks[s].previous # t

\* A current task that comes after no other is alone in its recurrence.
FirstIsAlone ==
    \A r \in DOMAIN recurrences, s \in DOMAIN tasks :
        tasks[recurrences[r]].previous = NULL /\ tasks[s].recurrence = r
            => s = recurrences[r]

LEMMA CurrentAlone == ChainInv /\ ChainEnds => FirstIsAlone
<1> SUFFICES ASSUME ChainInv, ChainEnds, NEW r \in DOMAIN recurrences,
                    NEW s \in DOMAIN tasks, tasks[recurrences[r]].previous = NULL,
                    tasks[s].recurrence = r, s # recurrences[r]
             PROVE  FALSE
  BY DEF FirstIsAlone
<1> DEFINE S == {t \in DOMAIN tasks : tasks[t].recurrence = r /\ t # recurrences[r]}
<1>1. PICK t \in S : \A x \in S : tasks[x].previous # t
  BY DEF ChainEnds
<1>2. r # NULL /\ t # NULL
  BY NullAssumption DEF ChainInv, TypeOK, IsRecurrenceTable, IsTaskTable
<1>3. Current(t) # t
  BY <1>2 DEF Current, CurrentOf
<1>4. PICK x \in DOMAIN tasks : tasks[x].previous = t
  BY <1>2, <1>3 DEF ChainInv, OneSuccessor
<1>5. tasks[x].recurrence = r
  BY <1>2, <1>4 DEF ChainInv, OneSuccessor
<1>6. x # recurrences[r]
  BY <1>2, <1>4
<1> QED
  BY <1>1, <1>4, <1>5, <1>6

LEMMA EndsKept ==
    ASSUME ChainEnds, TypeOK',
           \A s \in DOMAIN tasks' :
              /\ tasks'[s].previous \in DOMAIN tasks \cup {NULL}
              /\ s \in DOMAIN tasks => tasks'[s].previous \in {tasks[s].previous, NULL}
    PROVE  ChainEnds'
<1> SUFFICES ASSUME NEW S \in SUBSET DOMAIN tasks', S # {}
             PROVE  \E t \in S : \A s \in S : tasks'[s].previous # t
  BY DEF ChainEnds
<1>1. NULL \notin S
  BY NullAssumption DEF TypeOK, IsTaskTable
<1>2. CASE S \subseteq DOMAIN tasks
  BY <1>1, <1>2 DEF ChainEnds
<1>3. CASE ~(S \subseteq DOMAIN tasks)
  <2>1. PICK t \in S : t \notin DOMAIN tasks
    BY <1>3
  <2> QED
    BY <1>1, <2>1
<1> QED
  BY <1>2, <1>3

LEMMA StepEnds ==
    ASSUME ChainInv, TypeOK', ChainEnds, NEW u, WriteStep(u) \/ ToggleStep(u)
    PROVE  ChainEnds'
<1>0. /\ TypeOK
      /\ \A s \in DOMAIN tasks : tasks[s].previous \in DOMAIN tasks \cup {NULL}
  BY DEF ChainInv, References
<1>1. ASSUME NEW t \in TaskIds, NEW v \in Users, NEW g \in GroupIds \cup {NULL},
             NEW r \in RecIds \cup {NULL}, CreateTask(u, t, v, g, r)
      PROVE  ChainEnds'
  <2>1. /\ DOMAIN tasks' = DOMAIN tasks \cup {t} /\ t \notin DOMAIN tasks
        /\ SameChain(DOMAIN tasks) /\ tasks'[t].previous = NULL
    BY <1>0, <1>1, CreateTaskEffect DEF Alone, Starts
  <2> QED
    BY <1>0, <2>1, EndsKept DEF SameChain
<1>2. ASSUME NEW t \in TaskIds, NEW v \in Users, NEW g \in GroupIds \cup {NULL},
             NEW r \in RecIds \cup {NULL}, UpdateTask(u, t, v, g, r)
      PROVE  ChainEnds'
  <2>1. /\ DOMAIN tasks' = DOMAIN tasks
        /\ \/ SameChain(DOMAIN tasks)
           \/ Dissolves(tasks[t].recurrence)
           \/ SameChain(DOMAIN tasks \ {t}) /\ tasks'[t].previous = NULL
    BY <1>2, UpdateTaskEffect DEF Starts
  <2> QED
    BY <1>0, <2>1, EndsKept DEF SameChain, Dissolves
<1>3. ASSUME NEW t \in TaskIds, DeleteTask(u, t) PROVE ChainEnds'
  BY <1>0, <1>3, DeleteTaskEffect, EndsKept DEF SameChain, Dissolves
<1>4. ASSUME NEW t \in TaskIds, TogglePlain(u, t) PROVE ChainEnds'
  BY <1>0, <1>4, TogglePlainEffect, EndsKept DEF SameChain
<1>5. ASSUME NEW t \in TaskIds, NEW n \in TaskIds, CompleteCurrent(u, t, n)
      PROVE  ChainEnds'
  <2>1. /\ DOMAIN tasks' = DOMAIN tasks \cup {n} /\ n \notin DOMAIN tasks /\ t \in DOMAIN tasks
        /\ SameChain(DOMAIN tasks) /\ NewOccurrence(t, n)
    BY <1>5, CompleteCurrentEffect
  <2>2. tasks'[n].previous = t
    BY <2>1 DEF NewOccurrence
  <2> QED
    BY <1>0, <2>1, <2>2, EndsKept DEF SameChain
<1>6. ASSUME NEW t \in TaskIds, ReopenPrevious(u, t) PROVE ChainEnds'
  BY <1>0, <1>6, ReopenPreviousEffect, EndsKept DEF SameChain
<1> QED
  BY <1>1, <1>2, <1>3, <1>4, <1>5, <1>6 DEF WriteStep, ToggleStep

-----------------------------------------------------------------------------
(* Items that a step does not change.                                      *)

LEMMA SameItem ==
    ASSUME NEW s, SameOwner({s}), SameStatus({s}), SameChain({s}), UNCHANGED members,
           tasks[s].recurrence # NULL =>
              LET c == recurrences[tasks[s].recurrence] IN
              /\ recurrences'[tasks[s].recurrence] = c
              /\ tasks'[c].previous = tasks[c].previous
    PROVE  Item(s)' = Item(s)
<1>1. /\ tasks'[s].responsible = tasks[s].responsible
      /\ tasks'[s].group = tasks[s].group
      /\ tasks'[s].completed = tasks[s].completed
      /\ tasks'[s].recurrence = tasks[s].recurrence
  BY DEF SameOwner, SameStatus, SameChain
<1>2. CurrentOf(tasks', recurrences', s) = CurrentOf(tasks, recurrences, s)
  BY <1>1 DEF CurrentOf
<1>3. PreviousOf(tasks', recurrences', s) = PreviousOf(tasks, recurrences, s)
  BY <1>1, <1>2 DEF PreviousOf, CurrentOf
<1>4. Permitted(tasks', members', Viewer, s) <=> Permitted(tasks, members, Viewer, s)
  BY <1>1 DEF Permitted
<1>5. /\ CanUpdate(tasks', members', recurrences', Viewer, s)
            = CanUpdate(tasks, members, recurrences, Viewer, s)
      /\ CanToggle(tasks', members', recurrences', Viewer, s)
            = CanToggle(tasks, members, recurrences, Viewer, s)
  BY <1>2, <1>3, <1>4 DEF CanUpdate, CanToggle, IsFriendTask
<1> QED
  BY <1>1, <1>5 DEF Item, MayUpdate, MayToggle

\* An occurrence behind the previous one can be neither updated nor toggled.
LEMMA PastFlags ==
    ASSUME NEW rows, NEW pairs, NEW recs, NEW u, NEW t,
           CurrentOf(rows, recs, t) \notin {NULL, t},
           PreviousOf(rows, recs, t) \notin {NULL, t}
    PROVE  /\ CanUpdate(rows, pairs, recs, u, t) = FALSE
           /\ CanToggle(rows, pairs, recs, u, t) = FALSE
BY DEF CanUpdate, CanToggle

LEMMA SamePast ==
    ASSUME NEW s, SameStatus({s}), SameChain({s}),
           Current(s) \notin {NULL, s}, Previous(s) \notin {NULL, s},
           Current(s)' \notin {NULL, s}, Previous(s)' \notin {NULL, s}
    PROVE  Item(s)' = Item(s)
<1>1. MayUpdate(Viewer, s) = FALSE /\ MayToggle(Viewer, s) = FALSE
  BY PastFlags DEF MayUpdate, MayToggle, Current, Previous
<1>2. MayUpdate(Viewer, s)' = FALSE /\ MayToggle(Viewer, s)' = FALSE
  BY PastFlags DEF MayUpdate, MayToggle, Current, Previous
<1>3. tasks'[s].completed = tasks[s].completed /\ tasks'[s].recurrence = tasks[s].recurrence
  BY DEF SameStatus, SameChain
<1> QED
  BY <1>1, <1>2, <1>3 DEF Item

\* An answer that puts these ids and removes those describes the step.
Describes(ids, removed) ==
    /\ ids \subseteq DOMAIN tasks'
    /\ DOMAIN tasks' = ids \cup (DOMAIN tasks \ removed)
    /\ \A s \in DOMAIN tasks' \ ids : Item(s)' = Item(s)

LEMMA CreateDescribed ==
    ASSUME ChainInv, NEW t \in TaskIds, NEW v \in Users, NEW g \in GroupIds \cup {NULL},
           NEW r \in RecIds \cup {NULL}, CreateTask(Viewer, t, v, g, r)
    PROVE  Describes({t}, {})
<1>1. /\ t \notin DOMAIN tasks
      /\ DOMAIN tasks' = DOMAIN tasks \cup {t}
      /\ SameChain(DOMAIN tasks) /\ SameOwner(DOMAIN tasks) /\ SameStatus(DOMAIN tasks)
      /\ UNCHANGED members
      /\ \A q \in DOMAIN recurrences : recurrences'[q] = recurrences[q]
  <2>1. TypeOK
    BY DEF ChainInv
  <2>2. \/ recurrences' = recurrences
        \/ r \notin DOMAIN recurrences /\ recurrences' = Put(recurrences, r, t)
    BY <2>1, CreateTaskEffect DEF Starts
  <2> QED
    BY <2>1, <2>2, CreateTaskEffect DEF Put
<1>2. ASSUME NEW s \in DOMAIN tasks PROVE Item(s)' = Item(s)
  <2>1. tasks[s].recurrence # NULL =>
           /\ tasks[s].recurrence \in DOMAIN recurrences
           /\ recurrences[tasks[s].recurrence] \in DOMAIN tasks
    BY DEF ChainInv, References
  <2> QED
    BY <1>1, <2>1, SameItem DEF SameOwner, SameStatus, SameChain
<1> QED
  BY <1>1, <1>2 DEF Describes

\* The current task of another recurrence is none of this one.
LEMMA CurrentRow ==
    ASSUME ChainInv, NEW s \in DOMAIN tasks, tasks[s].recurrence # NULL
    PROVE  LET c == recurrences[tasks[s].recurrence] IN
           /\ tasks[s].recurrence \in DOMAIN recurrences
           /\ c \in DOMAIN tasks /\ c # NULL
           /\ tasks[c].recurrence = tasks[s].recurrence
           /\ Current(s) = c /\ Previous(s) = tasks[c].previous
           /\ Previous(s) \in DOMAIN tasks \cup {NULL}
<1>1. /\ tasks[s].recurrence \in DOMAIN recurrences
      /\ recurrences[tasks[s].recurrence] \in DOMAIN tasks
  BY DEF ChainInv, References
<1>2. recurrences[tasks[s].recurrence] # NULL
  BY <1>1, NullAssumption DEF ChainInv, TypeOK, IsTaskTable
<1> QED
  BY <1>1, <1>2 DEF ChainInv, References, CurrentIsLast, Current, Previous, CurrentOf, PreviousOf

LEMMA LoneRecurrence ==
    ASSUME ChainInv, FirstIsAlone, NEW t \in DOMAIN tasks, tasks[t].recurrence # NULL,
           MayUpdate(Viewer, t), Previous(t) = NULL
    PROVE  \A s \in DOMAIN tasks : tasks[s].recurrence = tasks[t].recurrence => s = t
BY CurrentRow DEF FirstIsAlone, MayUpdate, CanUpdate, Current

LEMMA Dissolved ==
    ASSUME ChainInv, NEW t \in DOMAIN tasks, Dissolves(tasks[t].recurrence),
           \A s \in DOMAIN tasks : tasks[s].recurrence = tasks[t].recurrence => s = t,
           SameOwner({s \in DOMAIN tasks' : s # t}), SameStatus(DOMAIN tasks'),
           DOMAIN tasks \ {t} \subseteq DOMAIN tasks', UNCHANGED members
    PROVE  \A s \in DOMAIN tasks \ {t} : Item(s)' = Item(s)
<1> TAKE s \in DOMAIN tasks \ {t}
<1>1. tasks[s].recurrence # tasks[t].recurrence /\ s \in DOMAIN tasks'
  OBVIOUS
<1>2. SameOwner({s}) /\ SameStatus({s}) /\ SameChain({s})
  BY <1>1 DEF Dissolves, SameOwner, SameStatus, SameChain
<1>3. ASSUME tasks[s].recurrence # NULL
      PROVE  LET c == recurrences[tasks[s].recurrence] IN
             /\ recurrences'[tasks[s].recurrence] = c
             /\ tasks'[c].previous = tasks[c].previous
  <2> DEFINE c == recurrences[tasks[s].recurrence]
  <2>1. /\ tasks[s].recurrence \in DOMAIN recurrences
        /\ c \in DOMAIN tasks /\ tasks[c].recurrence = tasks[s].recurrence
    BY <1>3, CurrentRow
  <2>2. c # t /\ c \in DOMAIN tasks'
    BY <1>1, <2>1
  <2>3. tasks'[c].previous = tasks[c].previous
    BY <1>1, <2>1, <2>2 DEF Dissolves
  <2>4. recurrences'[tasks[s].recurrence] = c
    BY <1>1, <2>1 DEF Dissolves, DropRecurrence, Restrict
  <2> QED
    BY <2>3, <2>4
<1> QED
  BY <1>2, <1>3, SameItem

\* A request without a recurrence dissolves one that has one occurrence.
LEMMA UpdateDescribed ==
    ASSUME ChainInv, FirstIsAlone, NEW t \in TaskIds, NEW v \in Users,
           NEW g \in GroupIds \cup {NULL}, NEW r \in RecIds \cup {NULL},
           UpdateTask(Viewer, t, v, g, r), r = NULL => Previous(t) = NULL
    PROVE  Describes({t}, {})
<1>1. /\ t \in DOMAIN tasks /\ MayUpdate(Viewer, t)
      /\ DOMAIN tasks' = DOMAIN tasks
      /\ SameOwner(DOMAIN tasks \ {t}) /\ SameStatus(DOMAIN tasks)
      /\ UNCHANGED members
  BY UpdateTaskEffect
<1>2. \/ SameChain(DOMAIN tasks) /\ recurrences' = recurrences
      \/ r = NULL /\ tasks[t].recurrence # NULL /\ Dissolves(tasks[t].recurrence)
      \/ tasks[t].recurrence = NULL /\ SameChain(DOMAIN tasks \ {t}) /\ Starts(t, r)
  BY UpdateTaskEffect
<1>3. ASSUME NEW s \in DOMAIN tasks \ {t} PROVE Item(s)' = Item(s)
  <2>1. SameOwner({s}) /\ SameStatus({s})
    BY <1>1 DEF SameOwner, SameStatus
  <2>2. CASE SameChain(DOMAIN tasks) /\ recurrences' = recurrences
    BY <1>1, <2>1, <2>2, SameItem, CurrentRow DEF SameChain
  <2>3. CASE r = NULL /\ tasks[t].recurrence # NULL /\ Dissolves(tasks[t].recurrence)
    <3>1. \A x \in DOMAIN tasks : tasks[x].recurrence = tasks[t].recurrence => x = t
      BY <1>1, <2>3, LoneRecurrence
    <3>2. SameOwner({x \in DOMAIN tasks' : x # t})
      BY <1>1 DEF SameOwner
    <3> QED
      BY <1>1, <2>3, <3>1, <3>2, Dissolved
  <2>4. CASE tasks[t].recurrence = NULL /\ SameChain(DOMAIN tasks \ {t}) /\ Starts(t, r)
    <3>1. SameChain({s})
      BY <2>4 DEF SameChain
    <3>2. ASSUME tasks[s].recurrence # NULL
          PROVE  LET c == recurrences[tasks[s].recurrence] IN
                 /\ recurrences'[tasks[s].recurrence] = c
                 /\ tasks'[c].previous = tasks[c].previous
      <4> DEFINE c == recurrences[tasks[s].recurrence]
      <4>1. /\ tasks[s].recurrence \in DOMAIN recurrences
            /\ c \in DOMAIN tasks /\ tasks[c].recurrence = tasks[s].recurrence
        BY <3>2, CurrentRow
      <4>2. tasks'[c].previous = tasks[c].previous
        BY <2>4, <3>2, <4>1 DEF SameChain
      <4>3. recurrences'[tasks[s].recurrence] = c
        BY <2>4, <4>1 DEF Starts, Put
      <4> QED
        BY <4>2, <4>3
    <3> QED
      BY <1>1, <2>1, <3>1, <3>2, SameItem
  <2> QED
    BY <1>2, <2>2, <2>3, <2>4
<1> QED
  BY <1>1, <1>3 DEF Describes

LEMMA DeleteDescribed ==
    ASSUME ChainInv, FirstIsAlone, NEW t \in TaskIds, DeleteTask(Viewer, t), Previous(t) = NULL
    PROVE  Describes({}, {t})
<1>1. /\ t \in DOMAIN tasks /\ MayUpdate(Viewer, t)
      /\ DOMAIN tasks' = DOMAIN tasks \ {t}
      /\ SameOwner(DOMAIN tasks') /\ SameStatus(DOMAIN tasks')
      /\ UNCHANGED members
  BY DeleteTaskEffect DEF MayDelete, CanDelete, MayUpdate
<1>2. \/ /\ tasks[t].recurrence = NULL
         /\ SameChain(DOMAIN tasks') /\ recurrences' = recurrences
      \/ tasks[t].recurrence # NULL /\ Dissolves(tasks[t].recurrence)
  BY DeleteTaskEffect
<1>3. ASSUME NEW s \in DOMAIN tasks \ {t} PROVE Item(s)' = Item(s)
  <2>1. CASE tasks[t].recurrence = NULL /\ SameChain(DOMAIN tasks') /\ recurrences' = recurrences
    <3>1. SameOwner({s}) /\ SameStatus({s}) /\ SameChain({s})
      BY <1>1, <2>1 DEF SameOwner, SameStatus, SameChain
    <3>2. tasks[s].recurrence # NULL => recurrences[tasks[s].recurrence] \in DOMAIN tasks'
      BY <1>1, <2>1, CurrentRow
    <3> QED
      BY <1>1, <2>1, <3>1, <3>2, SameItem DEF SameChain
  <2>2. CASE tasks[t].recurrence # NULL /\ Dissolves(tasks[t].recurrence)
    <3>1. \A x \in DOMAIN tasks : tasks[x].recurrence = tasks[t].recurrence => x = t
      BY <1>1, <2>2, LoneRecurrence
    <3>2. SameOwner({x \in DOMAIN tasks' : x # t})
      BY <1>1 DEF SameOwner
    <3> QED
      BY <1>1, <2>2, <3>1, <3>2, Dissolved
  <2> QED
    BY <1>2, <2>1, <2>2
<1> QED
  BY <1>1, <1>3 DEF Describes

LEMMA PlainDescribed ==
    ASSUME ChainInv, NEW t \in TaskIds, TogglePlain(Viewer, t)
    PROVE  Describes({t}, {}) /\ tasks'[t].recurrence = tasks[t].recurrence
<1>1. /\ t \in DOMAIN tasks /\ DOMAIN tasks' = DOMAIN tasks
      /\ SameChain(DOMAIN tasks) /\ SameOwner(DOMAIN tasks) /\ SameStatus(DOMAIN tasks \ {t})
      /\ UNCHANGED <<members, recurrences>>
  BY TogglePlainEffect
<1>2. ASSUME NEW s \in DOMAIN tasks \ {t} PROVE Item(s)' = Item(s)
  <2>1. SameOwner({s}) /\ SameStatus({s}) /\ SameChain({s})
    BY <1>1 DEF SameOwner, SameStatus, SameChain
  <2> QED
    BY <1>1, <2>1, SameItem, CurrentRow DEF SameChain
<1> QED
  BY <1>1, <1>2 DEF Describes, SameChain

LEMMA CompleteDescribed ==
    ASSUME ChainInv, FirstIsAlone, NEW t \in TaskIds, NEW n \in TaskIds,
           CompleteCurrent(Viewer, t, n)
    PROVE  /\ Describes({t, n, Previous(t)} \ {NULL}, {})
           /\ t \in DOMAIN tasks /\ tasks'[t].recurrence = tasks[t].recurrence
<1> DEFINE r == tasks[t].recurrence
           p == Previous(t)
<1>1. /\ t \in DOMAIN tasks /\ n \notin DOMAIN tasks
      /\ r \in DOMAIN recurrences /\ recurrences[r] = t
      /\ DOMAIN tasks' = DOMAIN tasks \cup {n}
      /\ NewOccurrence(t, n) /\ MovesTo(r, n)
      /\ SameChain(DOMAIN tasks) /\ SameOwner(DOMAIN tasks) /\ SameStatus(DOMAIN tasks \ {t})
      /\ UNCHANGED members
  BY CompleteCurrentEffect
<1>2. r # NULL /\ t # NULL /\ n # NULL
  BY <1>1, NullAssumption DEF ChainInv, TypeOK, IsRecurrenceTable
<1>3. p = tasks[t].previous /\ p \in DOMAIN tasks \cup {NULL}
  BY <1>1, <1>2, CurrentRow
<1>4. ASSUME NEW s \in DOMAIN tasks \ {t, p} PROVE Item(s)' = Item(s)
  <2>1. SameOwner({s}) /\ SameStatus({s}) /\ SameChain({s})
    BY <1>1 DEF SameOwner, SameStatus, SameChain
  <2>2. CASE tasks[s].recurrence # r
    BY <1>1, <2>1, <2>2, SameItem, CurrentRow DEF SameChain, MovesTo
  <2>3. CASE tasks[s].recurrence = r
    <3>1. Current(s) = t /\ Previous(s) = p
      BY <1>1, <1>2, <1>3, <2>3, CurrentRow
    <3>2. p # NULL
      BY <1>1, <1>3, <2>3 DEF FirstIsAlone
    <3>3. tasks'[s].recurrence = r /\ recurrences'[r] = n /\ tasks'[n].previous = t
      BY <1>1, <2>1, <2>3 DEF SameChain, MovesTo, NewOccurrence
    <3>4. Current(s)' = n /\ Previous(s)' = t
      BY <1>2, <3>3 DEF Current, Previous, CurrentOf, PreviousOf
    <3> QED
      BY <1>1, <1>2, <2>1, <3>1, <3>2, <3>4, SamePast
  <2> QED
    BY <2>2, <2>3
<1>5. tasks'[t].recurrence = r
  BY <1>1 DEF SameChain
<1> DEFINE ids == {t, n, p} \ {NULL}
<1>6. /\ ids \subseteq DOMAIN tasks' /\ DOMAIN tasks' = ids \cup DOMAIN tasks
      /\ DOMAIN tasks' \ ids \subseteq DOMAIN tasks \ {t, p}
  BY <1>1, <1>2, <1>3, NullAssumption DEF ChainInv, TypeOK, IsTaskTable
<1>7. \A s \in DOMAIN tasks' \ ids : Item(s)' = Item(s)
  BY <1>4, <1>6
<1> HIDE DEF ids
<1>8. Describes(ids, {})
  BY <1>6, <1>7 DEF Describes
<1> QED
  BY <1>1, <1>5, <1>8 DEF ids

LEMMA ReopenDescribed ==
    ASSUME ChainInv, ChainInv', FirstIsAlone', NEW t \in TaskIds, ReopenPrevious(Viewer, t)
    PROVE  /\ Describes({t, PreviousOf(tasks', recurrences', t)} \ {NULL}, {Current(t)})
           /\ Current(t) \in TaskIds
           /\ t \in DOMAIN tasks /\ tasks'[t].recurrence = tasks[t].recurrence
<1> DEFINE r == tasks[t].recurrence
           c == Current(t)
           p == PreviousOf(tasks', recurrences', t)
<1>1. /\ t \in DOMAIN tasks
      /\ r \in DOMAIN recurrences /\ c = recurrences[r]
      /\ c \in DOMAIN tasks /\ c # t /\ tasks[c].previous = t
      /\ DOMAIN tasks' = DOMAIN tasks \ {c}
      /\ SameChain(DOMAIN tasks') /\ SameOwner(DOMAIN tasks') /\ SameStatus(DOMAIN tasks' \ {t})
      /\ recurrences' = [recurrences EXCEPT ![r] = t]
      /\ UNCHANGED members
  BY ReopenPreviousEffect
<1>2. r # NULL /\ t # NULL /\ c # NULL /\ c \in TaskIds
  BY <1>1, NullAssumption DEF ChainInv, TypeOK, IsRecurrenceTable, IsTaskTable
<1>3. /\ tasks'[t].recurrence = r /\ recurrences'[r] = t /\ r \in DOMAIN recurrences'
      /\ \A q \in DOMAIN recurrences \ {r} : recurrences'[q] = recurrences[q]
  BY <1>1 DEF SameChain
<1>4. p = tasks'[t].previous /\ p \in DOMAIN tasks' \cup {NULL}
  BY <1>1, <1>2, <1>3 DEF PreviousOf, CurrentOf, ChainInv, References
<1>5. ASSUME NEW s \in DOMAIN tasks' \ {t, p} PROVE Item(s)' = Item(s)
  <2>1. SameOwner({s}) /\ SameStatus({s}) /\ SameChain({s}) /\ s \in DOMAIN tasks /\ s # c
    BY <1>1 DEF SameOwner, SameStatus, SameChain
  <2>2. CASE tasks[s].recurrence # r
    <3>1. ASSUME tasks[s].recurrence # NULL
          PROVE  LET d == recurrences[tasks[s].recurrence] IN
                 /\ recurrences'[tasks[s].recurrence] = d
                 /\ tasks'[d].previous = tasks[d].previous
      <4> DEFINE d == recurrences[tasks[s].recurrence]
      <4>1. /\ tasks[s].recurrence \in DOMAIN recurrences
            /\ d \in DOMAIN tasks /\ tasks[d].recurrence = tasks[s].recurrence
        BY <2>1, <3>1, CurrentRow
      <4>2. tasks[c].recurrence = r
        BY <1>1, <1>2, CurrentRow
      <4>3. d \in DOMAIN tasks'
        BY <1>1, <2>2, <4>1, <4>2
      <4> QED
        BY <1>1, <1>3, <2>2, <4>1, <4>3 DEF SameChain
    <3> QED
      BY <1>1, <2>1, <3>1, SameItem
  <2>3. CASE tasks[s].recurrence = r
    <3>1. Current(s) = c /\ Previous(s) = t
      BY <1>1, <1>2, <2>1, <2>3, CurrentRow
    <3>2. tasks'[s].recurrence = r
      BY <2>1, <2>3 DEF SameChain
    <3>3. p # NULL
      BY <1>3, <1>4, <3>2 DEF FirstIsAlone
    <3>4. Current(s)' = t /\ Previous(s)' = p
      BY <1>2, <1>3, <1>4, <3>2 DEF Current, Previous, CurrentOf, PreviousOf
    <3> QED
      BY <1>2, <2>1, <3>1, <3>3, <3>4, SamePast
  <2> QED
    BY <2>2, <2>3
<1> DEFINE ids == {t, p} \ {NULL}
<1>6. /\ ids \subseteq DOMAIN tasks' /\ DOMAIN tasks' = ids \cup (DOMAIN tasks \ {c})
      /\ DOMAIN tasks' \ ids \subseteq DOMAIN tasks' \ {t, p}
  BY <1>1, <1>2, <1>4, NullAssumption DEF ChainInv, TypeOK, IsTaskTable
<1>7. \A s \in DOMAIN tasks' \ ids : Item(s)' = Item(s)
  BY <1>5, <1>6
<1> HIDE DEF ids
<1>8. Describes(ids, {c})
  BY <1>6, <1>7 DEF Describes
<1> QED
  BY <1>1, <1>2, <1>3, <1>8 DEF ids
-----------------------------------------------------------------------------
(* The server side of a step.                                              *)

LEMMA ExecuteTakes ==
    ASSUME TypeOK, NEW s \in Slots, Execute(s)
    PROVE  UNCHANGED tables \/ WriteStep(Viewer) \/ ToggleStep(Viewer)
<1>1. Viewer \in Users /\ DOMAIN tasks \subseteq TaskIds
  BY ViewerAssumption DEF TypeOK, IsTaskTable
<1>2. ASSUME DoCreate(s) PROVE WriteStep(Viewer)
  BY <1>1, <1>2 DEF DoCreate, RecurrenceOf, WriteStep
<1>3. ASSUME NEW t, DoUpdate(s, t) PROVE WriteStep(Viewer)
  <2>1. t \in TaskIds
    BY <1>1, <1>3 DEF DoUpdate, UpdateTask
  <2> QED
    BY <1>1, <1>3, <2>1 DEF DoUpdate, RecurrenceOf, WriteStep
<1>4. ASSUME NEW t, DoDelete(s, t) PROVE WriteStep(Viewer)
  BY <1>1, <1>4 DEF DoDelete, DeleteTask, WriteStep
<1>5. ASSUME NEW t, DoToggle(s, t) PROVE UNCHANGED tables \/ ToggleStep(Viewer)
  BY <1>1, <1>5 DEF DoToggle, DoComplete, DoReopen, ToggleStep
<1> QED
  BY <1>2, <1>3, <1>4, <1>5 DEF Execute

LEMMA CacheStepTakes ==
    ASSUME TypeOK, [CacheNext]_allVars
    PROVE  UNCHANGED tables \/ WriteStep(Viewer) \/ ToggleStep(Viewer)
<1>1. CASE Elsewhere
  BY <1>1 DEF Elsewhere
<1>2. ASSUME NEW s \in Slots, Execute(s)
      PROVE  UNCHANGED tables \/ WriteStep(Viewer) \/ ToggleStep(Viewer)
  BY <1>2, ExecuteTakes
<1>3. CASE Refresh \/ Query \/ FetchDone \/ FetchFails \/ Login \/ Logout
  BY <1>3 DEF Refresh, Query, FetchDone, FetchFails, Login, Logout
<1>4. ASSUME NEW s \in Slots, Write(s) PROVE UNCHANGED tables
  BY <1>4 DEF Write, CreateItem, UpdateItem, ToggleItem, DeleteItem, Send
<1>5. ASSUME NEW s \in Slots, Refuse(s) \/ LoseAnswer(s) \/ Receive(s) \/ Undo(s)
      PROVE  UNCHANGED tables
  BY <1>5 DEF Refuse, LoseAnswer, Receive, Undo, Done
<1>6. CASE UNCHANGED allVars
  BY <1>6 DEF allVars
<1> QED
  BY <1>1, <1>2, <1>3, <1>4, <1>5, <1>6 DEF CacheNext

LEMMA ServerStep == TypeOK /\ [CacheNext]_allVars => [Next]_vars
BY CacheStepTakes, ViewerAssumption DEF Next, vars, tables

\* The clients only change the tables by the server's transactions.
THEOREM ServerImplemented == CacheSpec => Spec
<1>1. CacheInit => Init
  BY DEF CacheInit
<1>2. Init => TypeOK
  BY DEF Init, TypeOK, IsTaskTable, IsRecurrenceTable
<1> QED
  BY <1>1, <1>2, NextTypeOK, ServerStep, PTL DEF CacheSpec, Spec

LEMMA StepChains ==
    ASSUME ChainInv, ChainEnds, [CacheNext]_allVars
    PROVE  ChainInv' /\ ChainEnds'
<1>1. TypeOK
  BY DEF ChainInv
<1>2. ChainInv' /\ TypeOK'
  BY <1>1, ServerStep, NextChainInv, NextTypeOK
<1>3. CASE UNCHANGED tables
  BY <1>2, <1>3 DEF ChainEnds, tables
<1>4. CASE WriteStep(Viewer) \/ ToggleStep(Viewer)
  BY <1>2, <1>4, StepEnds
<1> QED
  BY <1>1, <1>2, <1>3, <1>4, CacheStepTakes

-----------------------------------------------------------------------------
(* Types.                                                                  *)

LEMMA ItemType == TypeOK => \A t \in DOMAIN tasks : Item(t) \in ItemRow
BY DEF TypeOK, IsTaskTable, Task, Item, ItemRow, MayUpdate, MayToggle, CanUpdate, CanToggle

ItemsTyped == \A ids \in SUBSET DOMAIN tasks : Items(ids) \in Lists

LEMMA ItemsType == TypeOK => ItemsTyped
<1> SUFFICES ASSUME TypeOK, NEW ids \in SUBSET DOMAIN tasks PROVE Items(ids) \in Lists
  BY DEF ItemsTyped
<1>1. ids \in SUBSET TaskIds
  BY DEF TypeOK, IsTaskTable
<1>2. Items(ids) \in [ids -> ItemRow]
  BY ItemType DEF Items
<1> QED
  BY <1>1, <1>2 DEF Lists

LEMMA ListType ==
    ASSUME NEW f
    PROVE  f \in Lists <=> DOMAIN f \subseteq TaskIds /\ f \in [DOMAIN f -> ItemRow]
BY DEF Lists

LEMMA AnswerType ==
    ASSUME NEW put \in Lists, NEW removed \in SUBSET TaskIds
    PROVE  Result(put, removed) \in Answers /\ Result(put, removed) \notin {NULL, Failure}
BY RecordAssumption DEF Result, Answers

-----------------------------------------------------------------------------
(* The answer to a request, as it is given.                                *)

\* The answer of slot s, which puts the items ids, as they are after the step.
Puts(s, ids, removed) ==
    request' = [request EXCEPT ![s].answer = Result([t \in ids |-> Item(t)'], removed)]

\* The answer tells all that has changed.
Tells(q, ids, removed) ==
    /\ Describes(ids, removed)
    /\ q.id \in ids \cup removed \cup {NULL}
    /\ q.op = "delete" => ids = {} /\ removed = {q.id}
    /\ q.op = "toggle" =>
          q.id \in ids /\ q.id \in DOMAIN tasks /\ tasks'[q.id].recurrence = tasks[q.id].recurrence

\* What the answer is good for, when nothing was missed.
Answered(s, ids, removed) ==
    /\ ids \subseteq DOMAIN tasks' /\ removed \subseteq TaskIds
    /\ Puts(s, ids, removed)
    /\ misses' = misses => Tells(request[s], ids, removed)

LEMMA AnswersItems ==
    ASSUME NEW s, NEW ids, NEW removed, Answer(s, Result(ItemsAfter(ids), removed))
    PROVE  Puts(s, ids \ {NULL}, removed)
BY DEF Answer, ItemsAfter, Puts

LEMMA CreateAnswered ==
    ASSUME ChainInv, NEW s \in Slots, request[s].op = "create", request[s].id = NULL, DoCreate(s)
    PROVE  \E ids, removed : Answered(s, ids, removed)
<1>1. PICK t \in TaskIds, r \in RecurrenceOf(request[s].recurs) :
         /\ CreateTask(Viewer, t, Viewer, NULL, r)
         /\ Answer(s, Result(ItemsAfter({t}), {}))
  BY DEF DoCreate
<1>2. Viewer \in Users /\ r \in RecIds \cup {NULL} /\ t # NULL
  BY ViewerAssumption, NullAssumption DEF RecurrenceOf
<1>3. Describes({t}, {})
  BY <1>1, <1>2, CreateDescribed
<1>4. Puts(s, {t}, {})
  <2>1. {t} \ {NULL} = {t}
    BY <1>2
  <2> QED
    BY <1>1, <2>1, AnswersItems
<1>5. Answered(s, {t}, {})
  BY <1>3, <1>4 DEF Answered, Tells, Describes
<1> QED
  BY <1>5

LEMMA UpdateAnswered ==
    ASSUME ChainInv, FirstIsAlone, NEW s \in Slots, NEW t, request[s].op = "update",
           request[s].id = t, DoUpdate(s, t),
           misses' = misses => ~EndsHistory(s)
    PROVE  \E ids, removed : Answered(s, ids, removed)
<1>1. PICK r \in RecurrenceOf(request[s].recurs) :
         /\ UpdateTask(Viewer, t, Viewer, NULL, r)
         /\ Answer(s, Result(ItemsAfter({t}), {}))
  BY DEF DoUpdate
<1>2. t \in DOMAIN tasks
  BY <1>1 DEF UpdateTask
<1>3. Viewer \in Users /\ r \in RecIds \cup {NULL} /\ t # NULL /\ t \in TaskIds
  BY <1>2, ViewerAssumption, NullAssumption DEF RecurrenceOf, ChainInv, TypeOK, IsTaskTable
<1>4. DOMAIN tasks' = DOMAIN tasks
  BY <1>1, <1>3, UpdateTaskEffect
<1>5. ASSUME misses' = misses PROVE Describes({t}, {})
  <2>1. r = NULL => Previous(t) = NULL
    BY <1>5, NullAssumption DEF EndsHistory, RecurrenceOf
  <2> QED
    BY <1>1, <1>3, <2>1, UpdateDescribed
<1>6. Puts(s, {t}, {})
  <2>1. {t} \ {NULL} = {t}
    BY <1>3
  <2> QED
    BY <1>1, <2>1, AnswersItems
<1>7. Answered(s, {t}, {})
  BY <1>2, <1>4, <1>5, <1>6 DEF Answered, Tells
<1> QED
  BY <1>7

LEMMA DeleteAnswered ==
    ASSUME ChainInv, FirstIsAlone, NEW s \in Slots, NEW t, request[s].op = "delete",
           request[s].id = t, ~request[s].recurs, DoDelete(s, t),
           misses' = misses => ~EndsHistory(s)
    PROVE  \E ids, removed : Answered(s, ids, removed)
<1>1. DeleteTask(Viewer, t) /\ Answer(s, Result(<< >>, {t}))
  BY DEF DoDelete
<1>2. t \in TaskIds
  BY <1>1 DEF DeleteTask, ChainInv, TypeOK, IsTaskTable
<1>3. ASSUME misses' = misses PROVE Describes({}, {t})
  <2>1. Previous(t) = NULL
    BY <1>3 DEF EndsHistory
  <2> QED
    BY <1>1, <1>2, <2>1, DeleteDescribed
<1>4. Puts(s, {}, {t})
  <2>1. << >> = [x \in {} |-> Item(x)']
    OBVIOUS
  <2> QED
    BY <1>1, <2>1 DEF Answer, Puts
<1>5. Answered(s, {}, {t})
  BY <1>2, <1>3, <1>4 DEF Answered, Tells
<1> QED
  BY <1>5

LEMMA ToggleAnswered ==
    ASSUME ChainInv, ChainInv', FirstIsAlone, FirstIsAlone', NEW s \in Slots, NEW t,
           request[s].op = "toggle", request[s].id = t, DoToggle(s, t)
    PROVE  \E ids, removed : Answered(s, ids, removed)
<1>1. t \in DOMAIN tasks
  BY DEF DoToggle
<1>2. t \in TaskIds /\ t # NULL
  BY <1>1, NullAssumption DEF ChainInv, TypeOK, IsTaskTable
<1>3. ASSUME Answer(s, Result(Items({t}), {})), UNCHANGED tables
      PROVE  Answered(s, {t}, {})
  <2>1. \A x : Item(x)' = Item(x)
    BY <1>3 DEF tables, Item, MayUpdate, MayToggle
  <2>2. Puts(s, {t}, {})
    BY <1>3, <2>1 DEF Answer, Items, Puts
  <2>3. Describes({t}, {})
    BY <1>1, <1>3, <2>1 DEF Describes, tables
  <2> QED
    BY <1>1, <1>3, <2>2, <2>3 DEF Answered, Tells, tables
<1>4. ASSUME TogglePlain(Viewer, t), Answer(s, Result(ItemsAfter({t}), {}))
      PROVE  Answered(s, {t}, {})
  <2>1. Describes({t}, {}) /\ tasks'[t].recurrence = tasks[t].recurrence
    BY <1>2, <1>4, PlainDescribed
  <2>2. {t} \ {NULL} = {t}
    BY <1>2
  <2>3. Puts(s, {t}, {})
    BY <1>4, <2>2, AnswersItems
  <2> QED
    BY <1>1, <2>1, <2>3 DEF Answered, Tells, Describes
<1>5. ASSUME DoComplete(s, t) PROVE \E ids, removed : Answered(s, ids, removed)
  <2>1. PICK n \in TaskIds :
           /\ CompleteCurrent(Viewer, t, n)
           /\ Answer(s, Result(ItemsAfter({t, n, Previous(t)}), {}))
    BY <1>5 DEF DoComplete
  <2> DEFINE ids == {t, n, Previous(t)} \ {NULL}
  <2>2. Describes(ids, {}) /\ tasks'[t].recurrence = tasks[t].recurrence
    BY <1>2, <2>1, CompleteDescribed
  <2>3. Puts(s, ids, {})
    BY <2>1, AnswersItems
  <2>4. t \in ids
    BY <1>2
  <2> HIDE DEF ids
  <2>5. Answered(s, ids, {})
    BY <1>1, <2>2, <2>3, <2>4 DEF Answered, Tells, Describes
  <2> QED
    BY <2>5
<1>6. ASSUME DoReopen(s, t) PROVE \E ids, removed : Answered(s, ids, removed)
  <2>1. /\ ReopenPrevious(Viewer, t)
        /\ Answer(s, Result(ItemsAfter({t, PreviousOf(tasks', recurrences', t)}), {Current(t)}))
    BY <1>6 DEF DoReopen
  <2> DEFINE ids == {t, PreviousOf(tasks', recurrences', t)} \ {NULL}
  <2>2. /\ Describes(ids, {Current(t)}) /\ Current(t) \in TaskIds
        /\ tasks'[t].recurrence = tasks[t].recurrence
    BY <1>2, <2>1, ReopenDescribed
  <2>3. Puts(s, ids, {Current(t)})
    BY <2>1, AnswersItems
  <2>4. t \in ids
    BY <1>2
  <2> HIDE DEF ids
  <2>5. Answered(s, ids, {Current(t)})
    BY <1>1, <2>2, <2>3, <2>4 DEF Answered, Tells, Describes
  <2> QED
    BY <2>5
<1> QED
  BY <1>3, <1>4, <1>5, <1>6 DEF DoToggle

-----------------------------------------------------------------------------
(* Types are kept.                                                         *)

LEMMA SentFields ==
    ASSUME NEW q \in Sent
    PROVE  /\ q.op \in {"create", "update", "toggle", "delete"}
           /\ q.op = "create" <=> q.id = NULL
           /\ q.id \in TaskIds \cup {NULL}
           /\ q.id # NULL => q.item \in ItemRow
           /\ q.op = "delete" => ~q.recurs
           /\ q.answer \in Answers \cup {NULL, Failure}
BY NullAssumption DEF Sent, SentWith

LEMMA SentAnswered ==
    ASSUME NEW q \in Sent, NEW a \in Answers \cup {NULL, Failure}
    PROVE  /\ [q EXCEPT !.answer = a] \in Sent
           /\ [q EXCEPT !.answer = a].answer = a
           /\ [q EXCEPT !.answer = a].op = q.op
           /\ [q EXCEPT !.answer = a].id = q.id
           /\ [q EXCEPT !.answer = a].item = q.item
BY DEF Sent, SentWith

LEMMA AnswerKeepsType ==
    ASSUME CacheTypeOK, NEW s \in Slots, request[s] # NULL,
           NEW a \in Answers \cup {NULL, Failure}, request' = [request EXCEPT ![s].answer = a]
    PROVE  request' \in [Slots -> Sent \cup {NULL}]
<1>1. request[s] \in Sent /\ request \in [Slots -> Sent \cup {NULL}]
  BY DEF CacheTypeOK
<1>2. [request[s] EXCEPT !.answer = a] \in Sent
  BY <1>1, SentAnswered
<1> QED
  BY <1>1, <1>2

LEMMA MissType == ASSUME misses \in Nat, Miss PROVE misses' \in Nat /\ misses' # 0 /\ misses' # misses
BY DEF Miss

LEMMA FetchType ==
    ASSUME CacheTypeOK, Fetch
    PROVE  /\ isFetching' = TRUE /\ pending' # NULL
           /\ pending' \in Fetched /\ pending'.rows = NULL
           /\ misses' \in Nat
           /\ misses' = 0 => Quiet
<1>1. pending' \in Fetched /\ pending'.rows = NULL
  BY DEF Fetch, Fetched
<1>2. pending' # NULL
  BY <1>1, RecordAssumption
<1>3. isFetching' = TRUE
  BY DEF Fetch, CacheTypeOK
<1>4. misses' \in Nat /\ (misses' = 0 => Quiet)
  BY DEF Fetch, CacheTypeOK
<1> QED
  BY <1>1, <1>2, <1>3, <1>4

LEMMA FetchStepTypes ==
    ASSUME CacheTypeOK, TypeOK',
           Refresh \/ Query \/ FetchDone \/ FetchFails \/ Login \/ Logout
    PROVE  CacheTypeOK'
<1>1. CASE Refresh
  BY <1>1, FetchType DEF Refresh, CacheTypeOK
<1>2. CASE Login
  BY <1>2, FetchType DEF Login, CacheTypeOK
<1>3. CASE Query
  <2>1. Items(DOMAIN tasks) \in Lists
    BY ItemsType DEF ItemsTyped, CacheTypeOK
  <2>2. pending' \in Fetched
    BY <1>3, <2>1 DEF Query, Fetched
  <2>3. pending' # NULL
    BY <2>2, RecordAssumption
  <2> QED
    BY <1>3, <2>2, <2>3 DEF Query, CacheTypeOK
<1>4. CASE FetchDone
  <2>1. cache' \in Lists
    BY <1>4 DEF FetchDone, CacheTypeOK, Fetched
  <2> QED
    BY <1>4, <2>1 DEF FetchDone, CacheTypeOK
<1>5. CASE FetchFails
  <2>1. pending' \in Fetched
    BY <1>5 DEF FetchFails, Fetched
  <2>2. pending' # NULL
    BY <2>1, RecordAssumption
  <2> QED
    BY <1>5, <2>1, <2>2 DEF FetchFails, CacheTypeOK
<1>6. CASE Logout
  <2>1. cache' \in Lists
    <3>1. << >> = [x \in {} |-> x]
      OBVIOUS
    <3> QED
      BY <1>6, <3>1, ListType DEF Logout
  <2> QED
    BY <1>6, <2>1 DEF Logout, CacheTypeOK
<1> QED
  BY <1>1, <1>2, <1>3, <1>4, <1>5, <1>6

LEMMA SendTypes ==
    ASSUME CacheTypeOK, TypeOK', NEW s \in Slots, NEW op, NEW t, NEW recurs,
           NEW q \in Sent, q.op = op, q.id = t, q.recurs = recurs, q.answer = NULL,
           q.item = IF t = NULL THEN NULL ELSE cache[t],
           cache' \in Lists, Send(s, op, t, recurs)
    PROVE  CacheTypeOK' /\ request'[s] = q
<1>1. request' = [request EXCEPT ![s] =
           [op |-> op, id |-> t, recurs |-> recurs, answer |-> NULL,
            item |-> IF t = NULL THEN NULL ELSE cache[t]]]
  BY DEF Send
<1>2. q = [op |-> op, id |-> t, recurs |-> recurs, answer |-> NULL,
            item |-> IF t = NULL THEN NULL ELSE cache[t]]
  BY DEF Sent, SentWith
<1>3. request' \in [Slots -> Sent \cup {NULL}] /\ request'[s] = q
  BY <1>1, <1>2 DEF CacheTypeOK
<1>4. misses' \in Nat
  BY MissType DEF Send, CacheTypeOK
<1> QED
  BY <1>3, <1>4 DEF Send, CacheTypeOK

LEMMA ListChanges ==
    ASSUME NEW f \in Lists
    PROVE  /\ \A t \in DOMAIN f, b \in BOOLEAN :
                 /\ f[t] \in ItemRow /\ t \in TaskIds
                 /\ [f EXCEPT ![t].recurs = b] \in Lists
                 /\ [f EXCEPT ![t].completed = ~@] \in Lists
                 /\ Restrict(f, DOMAIN f \ {t}) \in Lists
           /\ \A t \in TaskIds, i \in ItemRow : Put(f, t, i) \in Lists
<1>1. DOMAIN f \subseteq TaskIds /\ f \in [DOMAIN f -> ItemRow]
  BY ListType
<1>2. ASSUME NEW t \in DOMAIN f, NEW b \in BOOLEAN
      PROVE  /\ f[t] \in ItemRow /\ t \in TaskIds
             /\ [f EXCEPT ![t].recurs = b] \in Lists
             /\ [f EXCEPT ![t].completed = ~@] \in Lists
             /\ Restrict(f, DOMAIN f \ {t}) \in Lists
  <2>1. [f EXCEPT ![t].recurs = b] \in Lists
    BY <1>1, ListType DEF ItemRow
  <2>2. [f EXCEPT ![t].completed = ~@] \in Lists
    BY <1>1, ListType DEF ItemRow
  <2>3. Restrict(f, DOMAIN f \ {t}) \in Lists
    BY <1>1, ListType DEF Restrict
  <2> QED
    BY <1>1, <2>1, <2>2, <2>3
<1>3. ASSUME NEW t \in TaskIds, NEW i \in ItemRow PROVE Put(f, t, i) \in Lists
  BY <1>1, ListType DEF Put
<1> QED
  BY <1>2, <1>3

\* Sending a request changes the list so that taking it back is to undo it.
Undone(q, list) == IF q.id = NULL THEN list ELSE Put(list, q.id, q.item)

\* The list lacks the item that a request deletes.
TakenOff(q, list) == q.op = "delete" => q.id \notin DOMAIN list

LEMMA WriteTypes ==
    ASSUME CacheTypeOK, TypeOK', NEW s \in Slots, Write(s)
    PROVE  /\ CacheTypeOK'
           /\ request'[s] # NULL /\ request'[s].answer = NULL
           /\ Undone(request'[s], cache') = cache /\ TakenOff(request'[s], cache')
           /\ request[s] = NULL /\ \A o \in Slots \ {s} : request'[o] = request[o]
           /\ UNCHANGED <<tables, pending>>
           /\ misses' = 0 => misses = 0 /\ Quiet /\ pending = NULL
<1> DEFINE Sends == \E op, t, recurs : Send(s, op, t, recurs)
           Good == CacheTypeOK' /\ request'[s] \in Sent /\ request'[s].answer = NULL
                   /\ Undone(request'[s], cache') = cache /\ TakenOff(request'[s], cache')
<1>1. ASSUME NEW recurs \in BOOLEAN, CreateItem(s, recurs)
      PROVE  Good /\ Sends
  <2> DEFINE q == [op |-> "create", id |-> NULL, recurs |-> recurs, answer |-> NULL, item |-> NULL]
  <2>1. q \in Sent
    BY DEF Sent, SentWith
  <2>2. Send(s, "create", NULL, recurs) /\ cache' = cache /\ cache' \in Lists
    BY <1>1 DEF CreateItem, CacheTypeOK
  <2>3. CacheTypeOK' /\ request'[s] = q
    BY <2>1, <2>2, SendTypes
  <2> QED
    BY <2>1, <2>2, <2>3 DEF Undone, TakenOff
<1>2. ASSUME NEW t \in DOMAIN cache, NEW op \in {"update", "toggle", "delete"},
             NEW recurs \in BOOLEAN, op # "update" => recurs = FALSE,
             Send(s, op, t, recurs), cache' \in Lists, Put(cache', t, cache[t]) = cache,
             op = "delete" => t \notin DOMAIN cache'
      PROVE  Good /\ Sends
  <2> DEFINE q == [op |-> op, id |-> t, recurs |-> recurs, answer |-> NULL, item |-> cache[t]]
  <2>1. cache[t] \in ItemRow /\ t \in TaskIds /\ t # NULL
    BY ListChanges, NullAssumption DEF CacheTypeOK
  <2>2. q \in Sent
    BY <1>2, <2>1 DEF Sent, SentWith
  <2>3. CacheTypeOK' /\ request'[s] = q
    BY <1>2, <2>1, <2>2, SendTypes
  <2> QED
    BY <1>2, <2>1, <2>2, <2>3 DEF Undone, TakenOff
<1>3. ASSUME NEW t \in DOMAIN cache, NEW recurs \in BOOLEAN, UpdateItem(s, t, recurs)
      PROVE  Good /\ Sends
  <2>1. cache' \in Lists /\ cache' = [cache EXCEPT ![t].recurs = recurs]
    BY <1>3, ListChanges DEF UpdateItem, CacheTypeOK
  <2>2. Put(cache', t, cache[t]) = cache
    BY <2>1, ListType DEF Put, CacheTypeOK
  <2> QED
    BY <1>2, <1>3, <2>1, <2>2 DEF UpdateItem
<1>4. ASSUME NEW t \in DOMAIN cache, ToggleItem(s, t) PROVE Good /\ Sends
  <2>1. cache' \in Lists /\ cache' = [cache EXCEPT ![t].completed = ~@]
    BY <1>4, ListChanges DEF ToggleItem, CacheTypeOK
  <2>2. Put(cache', t, cache[t]) = cache
    BY <2>1, ListType DEF Put, CacheTypeOK
  <2> QED
    BY <1>2, <1>4, <2>1, <2>2 DEF ToggleItem
<1>5. ASSUME NEW t \in DOMAIN cache, DeleteItem(s, t) PROVE Good /\ Sends
  <2>1. cache' \in Lists /\ cache' = Restrict(cache, DOMAIN cache \ {t})
    BY <1>5, ListChanges DEF DeleteItem, CacheTypeOK
  <2>2. Put(cache', t, cache[t]) = cache
    BY <2>1, ListType DEF Put, Restrict, CacheTypeOK
  <2>3. t \notin DOMAIN cache'
    BY <2>1 DEF Restrict
  <2> QED
    BY <1>2, <1>5, <2>1, <2>2, <2>3 DEF DeleteItem
<1>6. Good /\ Sends
  BY <1>1, <1>3, <1>4, <1>5 DEF Write
<1>7. request'[s] # NULL
  BY <1>6, RecordAssumption
<1>8. /\ request[s] = NULL /\ \A o \in Slots \ {s} : request'[o] = request[o]
      /\ UNCHANGED <<tables, pending>>
      /\ misses' = 0 => misses = 0 /\ Quiet /\ pending = NULL
  BY <1>6, MissType DEF Send, CacheTypeOK
<1> QED
  BY <1>6, <1>7, <1>8

\* What the list becomes when the answer to q is received.
Received(q, list) ==
    IF q.op = "delete" THEN list ELSE
    [t \in DOMAIN Merged(q) \cup (DOMAIN list \ q.answer.removed) |->
        IF t \in DOMAIN Merged(q) THEN Merged(q)[t] ELSE list[t]]

LEMMA MergedType ==
    ASSUME NEW q \in Sent, q.answer \in Answers
    PROVE  Merged(q) \in Lists
<1>1. q.answer.put \in Lists
  BY DEF Answers
<1>2. CASE q.op = "toggle"
  <2>1. q.item.recurs \in BOOLEAN
    BY <1>2, SentFields DEF ItemRow
  <2> DEFINE put == q.answer.put
             new == [put EXCEPT ![q.id].recurs = q.item.recurs]
  <2>2. DOMAIN put \subseteq TaskIds /\ put \in [DOMAIN put -> ItemRow]
    BY <1>1, ListType
  <2> HIDE DEF put
  <2>3. DOMAIN new = DOMAIN put /\ new \in [DOMAIN put -> ItemRow]
    BY <2>1, <2>2 DEF ItemRow
  <2>4. new \in Lists
    BY <2>2, <2>3, ListType
  <2> QED
    BY <1>2, <2>4 DEF Merged, put
<1> QED
  BY <1>1, <1>2 DEF Merged

LEMMA AnswerStepTypes ==
    ASSUME CacheTypeOK, TypeOK', NEW s \in Slots,
           Refuse(s) \/ LoseAnswer(s) \/ Receive(s) \/ Undo(s)
    PROVE  CacheTypeOK'
<1>1. request[s] \in Sent
  BY DEF CacheTypeOK, Refuse, LoseAnswer, Receive, Undo
<1>2. CASE Refuse(s)
  BY <1>2, AnswerKeepsType DEF Refuse, Answer, CacheTypeOK, client
<1>3. CASE LoseAnswer(s)
  BY <1>3, AnswerKeepsType, MissType DEF LoseAnswer, Answer, CacheTypeOK, client
<1>4. CASE Receive(s)
  <2>1. request[s].answer \in Answers
    BY <1>1, <1>4, SentFields DEF Receive
  <2>2. Merged(request[s]) \in Lists
    BY <1>1, <2>1, MergedType
  <2>3. cache' \in Lists
    BY <1>4, <2>2, ListType DEF Receive, Apply, CacheTypeOK
  <2> QED
    BY <1>4, <2>3 DEF Receive, Done, CacheTypeOK
<1>5. CASE Undo(s)
  <2>1. cache' \in Lists
    BY <1>1, <1>5, SentFields, ListChanges DEF Undo, CacheTypeOK
  <2> QED
    BY <1>5, <2>1 DEF Undo, Done, CacheTypeOK
<1> QED
  BY <1>2, <1>3, <1>4, <1>5

LEMMA ExecuteAnswered ==
    ASSUME ChainInv, ChainInv', FirstIsAlone, FirstIsAlone', CacheTypeOK,
           NEW s \in Slots, Execute(s)
    PROVE  \E ids, removed : Answered(s, ids, removed)
<1>1. request[s] \in Sent
  BY DEF CacheTypeOK, Execute
<1>2. request[s].id # NULL /\ misses' = misses => ~EndsHistory(s)
  BY MissType DEF Execute, CacheTypeOK
<1>3. CASE request[s].op = "create" /\ DoCreate(s)
  BY <1>1, <1>3, SentFields, CreateAnswered
<1>4. ASSUME NEW t, t = request[s].id, request[s].op = "update", DoUpdate(s, t)
      PROVE  \E ids, removed : Answered(s, ids, removed)
  <2>1. t # NULL
    BY <1>1, <1>4, SentFields
  <2> QED
    BY <1>2, <1>4, <2>1, UpdateAnswered
<1>5. ASSUME NEW t, t = request[s].id, request[s].op = "delete", DoDelete(s, t)
      PROVE  \E ids, removed : Answered(s, ids, removed)
  <2>1. t # NULL /\ ~request[s].recurs
    BY <1>1, <1>5, SentFields
  <2> QED
    BY <1>2, <1>5, <2>1, DeleteAnswered
<1>6. ASSUME NEW t, t = request[s].id, request[s].op = "toggle", DoToggle(s, t)
      PROVE  \E ids, removed : Answered(s, ids, removed)
  BY <1>6, ToggleAnswered
<1> QED
  BY <1>3, <1>4, <1>5, <1>6 DEF Execute

LEMMA ItemsAfterType ==
    ASSUME TypeOK', NEW ids, ids \subseteq DOMAIN tasks'
    PROVE  [t \in ids |-> Item(t)'] \in Lists
<1>1. TypeOK' => ItemsTyped'
  BY ItemsType, PTL
<1> QED
  BY <1>1 DEF ItemsTyped, Items

LEMMA ExecuteTypes ==
    ASSUME ChainInv, ChainInv', FirstIsAlone, FirstIsAlone', CacheTypeOK, TypeOK',
           NEW s \in Slots, Execute(s)
    PROVE  CacheTypeOK'
<1>1. PICK ids, removed : Answered(s, ids, removed)
  BY ExecuteAnswered
<1>2. Result([t \in ids |-> Item(t)'], removed) \in Answers
  BY <1>1, ItemsAfterType, AnswerType DEF Answered
<1>3. request' \in [Slots -> Sent \cup {NULL}]
  BY <1>1, <1>2, AnswerKeepsType DEF Answered, Puts, Execute
<1>4. misses' \in Nat
  BY MissType DEF Execute, CacheTypeOK
<1> QED
  BY <1>3, <1>4 DEF Execute, client, CacheTypeOK

-----------------------------------------------------------------------------
(* The list is in step with the tables.                                    *)

Listed == Items(DOMAIN tasks)

\* A request that was not carried out can be undone, and the answer to one
\* that was leads to the tables as they are.
Known(q, list, listed) ==
    IF q.answer \in {NULL, Failure} THEN Undone(q, list) = listed /\ TakenOff(q, list)
                                    ELSE Received(q, list) = listed

OnlyRequest(s) == request[s] # NULL /\ \A o \in Slots \ {s} : request[o] = NULL

InStep ==
    \/ Quiet /\ pending # NULL /\ pending.rows \in {NULL, Failure, Listed}
    \/ Quiet /\ pending = NULL /\ cache = Listed
    \/ pending = NULL /\ \E s \in Slots : OnlyRequest(s) /\ Known(request[s], cache, Listed)

CacheInv ==
    /\ ChainInv /\ ChainEnds
    /\ CacheTypeOK
    /\ misses = 0 => InStep

\* The heart of it: an answer that tells all leads to the tables after.
LEMMA AnswerLeadsOn ==
    ASSUME TypeOK, TypeOK', NEW list \in Lists, NEW q \in Sent, Undone(q, list) = Listed,
           TakenOff(q, list), NEW ids, NEW removed \in SUBSET TaskIds, Tells(q, ids, removed)
    PROVE  Received([q EXCEPT !.answer = Result([t \in ids |-> Item(t)'], removed)], list)
              = Listed'
<1> DEFINE put == [t \in ids |-> Item(t)']
           a   == Result(put, removed)
           qa  == [q EXCEPT !.answer = a]
<1>1. /\ ids \subseteq DOMAIN tasks' /\ DOMAIN tasks' = ids \cup (DOMAIN tasks \ removed)
      /\ \A s \in DOMAIN tasks' \ ids : Item(s)' = Item(s)
      /\ q.id \in ids \cup removed \cup {NULL}
  BY DEF Tells, Describes
<1>2. put \in Lists
  BY <1>1, ItemsAfterType
<1>3. Listed = [t \in DOMAIN tasks |-> Item(t)] /\ Listed' = [t \in DOMAIN tasks' |-> Item(t)']
  BY DEF Listed, Items
<1>4. a \in Answers /\ a.put = put /\ a.removed = removed
  BY <1>2, AnswerType DEF Result
<1>5. qa.answer = a /\ qa.op = q.op /\ qa.id = q.id /\ qa.item = q.item
  BY <1>4, SentAnswered
<1>6. /\ q.id # NULL => DOMAIN list \cup {q.id} = DOMAIN tasks /\ q.item = Item(q.id)
      /\ q.id = NULL => DOMAIN list = DOMAIN tasks
      /\ \A t \in DOMAIN tasks : t # q.id => t \in DOMAIN list /\ list[t] = Item(t)
  <2>1. CASE q.id = NULL
    <3>1. list = Listed
      BY <2>1 DEF Undone
    <3> QED
      BY <1>3, <2>1, <3>1
  <2>2. CASE q.id # NULL
    <3>1. Put(list, q.id, q.item) = Listed
      BY <2>2 DEF Undone
    <3> QED
      BY <1>3, <2>2, <3>1 DEF Put
  <2> QED
    BY <2>1, <2>2
<1>7. Merged(qa) = put
  <2>1. CASE q.op = "toggle"
    <3>1. /\ q.id \in ids /\ q.id \in DOMAIN tasks
          /\ tasks'[q.id].recurrence = tasks[q.id].recurrence
      BY <2>1 DEF Tells
    <3>2. q.id # NULL
      BY <3>1, NullAssumption DEF TypeOK, IsTaskTable
    <3>3. q.item.recurs = (tasks[q.id].recurrence # NULL)
      BY <1>6, <3>2 DEF Item
    <3>4. put[q.id].recurs = (tasks'[q.id].recurrence # NULL)
      BY <3>1 DEF Item
    <3>5. Merged(qa) = [put EXCEPT ![q.id].recurs = put[q.id].recurs]
      BY <1>4, <1>5, <2>1, <3>1, <3>3, <3>4 DEF Merged
    <3> HIDE DEF put
    <3> QED
      BY <1>2, <3>5, ListType DEF ItemRow
  <2> QED
    BY <1>4, <1>5, <2>1 DEF Merged
<1>8. CASE q.op = "delete"
  <2>1. ids = {} /\ removed = {q.id} /\ q.id # NULL /\ q.id \notin DOMAIN list
    BY <1>8, SentFields DEF Tells, TakenOff
  <2>2. DOMAIN list = DOMAIN tasks' /\ \A t \in DOMAIN list : list[t] = Item(t)'
    BY <1>1, <1>6, <2>1
  <2>3. list = [t \in DOMAIN list |-> list[t]]
    BY ListType
  <2>4. Received(qa, list) = list
    BY <1>5, <1>8 DEF Received
  <2>5. list = Listed'
    BY <1>3, <2>2, <2>3
  <2> QED
    BY <2>4, <2>5
<1>9. CASE q.op # "delete"
  <2>1. Received(qa, list) = [t \in ids \cup (DOMAIN list \ removed) |->
                                 IF t \in ids THEN put[t] ELSE list[t]]
    BY <1>4, <1>5, <1>7, <1>9 DEF Received
  <2>2. ids \cup (DOMAIN list \ removed) = DOMAIN tasks'
    BY <1>1, <1>6
  <2>3. \A t \in DOMAIN tasks' : (IF t \in ids THEN put[t] ELSE list[t]) = Item(t)'
    <3> TAKE t \in DOMAIN tasks'
    <3>1. CASE t \in ids
      BY <3>1
    <3>2. CASE t \notin ids
      <4>1. t \in DOMAIN tasks /\ t \notin removed /\ t # NULL
        BY <1>1, <3>2, NullAssumption DEF TypeOK, IsTaskTable
      <4>2. t # q.id
        BY <1>1, <3>2, <4>1
      <4>3. list[t] = Item(t)
        BY <1>6, <4>1, <4>2
      <4> QED
        BY <1>1, <3>2, <4>3
    <3> QED
      BY <3>1, <3>2
  <2> QED
    BY <1>3, <2>1, <2>2, <2>3
<1> QED
  BY <1>8, <1>9

-----------------------------------------------------------------------------
(* Every step keeps the type and stays in step.                            *)

LEMMA AloneInChains == CacheInv => FirstIsAlone
BY CurrentAlone DEF CacheInv

LEMMA StepTypes ==
    ASSUME CacheInv, ChainInv', FirstIsAlone', [CacheNext]_allVars
    PROVE  CacheTypeOK'
<1>1. ChainInv /\ CacheTypeOK /\ TypeOK' /\ FirstIsAlone
  BY AloneInChains DEF CacheInv, ChainInv
<1>2. CASE Elsewhere
  BY <1>1, <1>2, MissType DEF Elsewhere, CacheTypeOK, client
<1>3. CASE Refresh \/ Query \/ FetchDone \/ FetchFails \/ Login \/ Logout
  BY <1>1, <1>3, FetchStepTypes
<1>4. ASSUME NEW s \in Slots, Write(s) PROVE CacheTypeOK'
  BY <1>1, <1>4, WriteTypes
<1>5. ASSUME NEW s \in Slots, Execute(s) PROVE CacheTypeOK'
  BY <1>1, <1>5, ExecuteTypes
<1>6. ASSUME NEW s \in Slots, Refuse(s) \/ LoseAnswer(s) \/ Receive(s) \/ Undo(s)
      PROVE  CacheTypeOK'
  BY <1>1, <1>6, AnswerStepTypes
<1>7. CASE UNCHANGED allVars
  BY <1>1, <1>7 DEF allVars, client, CacheTypeOK
<1> QED
  BY <1>2, <1>3, <1>4, <1>5, <1>6, <1>7 DEF CacheNext

LEMMA SameListed == UNCHANGED tables => Listed' = Listed
BY DEF tables, Listed, Items, Item, MayUpdate, MayToggle

\* Starting, answering and ending a fetch.
LEMMA FetchStaysInStep ==
    ASSUME CacheTypeOK, misses = 0 => InStep, misses' = 0,
           Refresh \/ Query \/ FetchDone \/ FetchFails \/ Login
    PROVE  InStep'
<1>1. Listed' = Listed
  BY SameListed DEF Refresh, Query, FetchDone, FetchFails, Login
<1>2. CASE Refresh \/ Login
  BY <1>2, FetchType DEF Refresh, Login, InStep, Quiet
<1>3. CASE Query \/ FetchDone \/ FetchFails
  <2>1. misses = 0 /\ UNCHANGED request /\ pending # NULL
    BY <1>3 DEF Query, FetchDone, FetchFails
  <2>2. Quiet /\ Quiet' /\ pending.rows \in {NULL, Failure, Listed}
    BY <2>1 DEF InStep, Quiet
  <2>3. CASE Query
    <3>1. pending' = [rows |-> Listed]
      BY <2>3 DEF Query, Listed
    <3>2. pending'.rows = Listed /\ pending' # NULL
      <4>1. Listed \in Lists
        BY ItemsType DEF CacheTypeOK, ItemsTyped, Listed
      <4>2. pending' \in Fetched
        BY <3>1, <4>1 DEF Fetched
      <4> QED
        BY <3>1, <4>2, RecordAssumption
    <3> QED
      BY <1>1, <2>2, <3>2 DEF InStep
  <2>4. CASE FetchDone
    BY <1>1, <2>2, <2>4 DEF FetchDone, InStep
  <2>5. CASE FetchFails
    <3>1. pending' = [rows |-> Failure] /\ pending'.rows = Failure
      BY <2>5 DEF FetchFails
    <3>2. pending' # NULL
      BY <3>1, RecordAssumption DEF Fetched
    <3> QED
      BY <2>2, <3>1, <3>2 DEF InStep
  <2> QED
    BY <1>3, <2>3, <2>4, <2>5
<1> QED
  BY <1>2, <1>3

\* Sending a request with nothing else under way.
LEMMA WriteStaysInStep ==
    ASSUME CacheTypeOK, TypeOK', misses = 0 => InStep, misses' = 0, NEW s \in Slots, Write(s)
    PROVE  InStep'
<1>1. /\ request'[s] # NULL /\ request'[s].answer = NULL
      /\ Undone(request'[s], cache') = cache /\ TakenOff(request'[s], cache')
      /\ \A o \in Slots \ {s} : request'[o] = request[o]
      /\ UNCHANGED <<tables, pending>>
      /\ misses = 0 /\ Quiet /\ pending = NULL
  BY WriteTypes
<1>2. cache = Listed
  BY <1>1 DEF InStep, Quiet, OnlyRequest
<1>3. OnlyRequest(s)' /\ pending' = NULL
  BY <1>1 DEF OnlyRequest, Quiet
<1>4. Known(request'[s], cache', Listed')
  BY <1>1, <1>2, SameListed DEF Known
<1> QED
  BY <1>3, <1>4 DEF InStep

\* With a request under way, and nothing missed, it is the only one.
LEMMA OnlyOne ==
    ASSUME CacheTypeOK, InStep, NEW s \in Slots, request[s] # NULL
    PROVE  /\ pending = NULL /\ OnlyRequest(s) /\ request[s] \in Sent
           /\ Known(request[s], cache, Listed)
BY DEF InStep, Quiet, OnlyRequest, CacheTypeOK

LEMMA ExecuteStaysInStep ==
    ASSUME ChainInv, ChainInv', FirstIsAlone, FirstIsAlone', CacheTypeOK,
           misses = 0 => InStep, misses' = 0, NEW s \in Slots, Execute(s)
    PROVE  InStep'
<1>1. misses = 0 /\ misses' = misses /\ UNCHANGED client
  BY MissType DEF Execute, CacheTypeOK
<1>2. request[s] # NULL /\ request[s].answer = NULL
  BY DEF Execute
<1>3. /\ pending = NULL /\ OnlyRequest(s) /\ request[s] \in Sent
      /\ Undone(request[s], cache) = Listed /\ TakenOff(request[s], cache)
  BY <1>1, <1>2, OnlyOne DEF Known
<1>4. PICK ids, removed : Answered(s, ids, removed)
  BY ExecuteAnswered
<1> DEFINE a == Result([t \in ids |-> Item(t)'], removed)
<1>5. ids \subseteq DOMAIN tasks' /\ removed \in SUBSET TaskIds /\ Tells(request[s], ids, removed)
  BY <1>1, <1>4 DEF Answered
<1>6. TypeOK /\ TypeOK'
  BY DEF ChainInv
<1>7. a \in Answers /\ a \notin {NULL, Failure}
  BY <1>5, <1>6, ItemsAfterType, AnswerType
<1>8. request' = [request EXCEPT ![s].answer = a]
  BY <1>4 DEF Answered, Puts
<1>9. Received([request[s] EXCEPT !.answer = a], cache) = Listed'
  <2>1. cache \in Lists
    BY DEF CacheTypeOK
  <2> QED
    BY <2>1, <1>3, <1>5, <1>6, AnswerLeadsOn
<1> HIDE DEF a
<1>10. [request[s] EXCEPT !.answer = a] \in Sent /\ [request[s] EXCEPT !.answer = a].answer = a
  BY <1>3, <1>7, SentAnswered
<1>11. /\ request'[s] = [request[s] EXCEPT !.answer = a]
       /\ \A o \in Slots \ {s} : request'[o] = request[o]
  BY <1>8 DEF CacheTypeOK
<1>12. OnlyRequest(s)'
  BY <1>3, <1>10, <1>11, RecordAssumption DEF OnlyRequest
<1>13. Known(request'[s], cache', Listed')
  BY <1>1, <1>7, <1>9, <1>10, <1>11 DEF Known, client
<1> QED
  BY <1>1, <1>3, <1>12, <1>13 DEF InStep, client

\* The request that failed, and the end of the only one.
LEMMA AnswerStaysInStep ==
    ASSUME CacheTypeOK, misses = 0 => InStep, misses' = 0, NEW s \in Slots,
           Refuse(s) \/ Receive(s) \/ Undo(s)
    PROVE  InStep'
<1>1. misses = 0 /\ UNCHANGED <<tables, pending>> /\ request[s] # NULL
  BY DEF Refuse, Receive, Undo, Done, client
<1>2. /\ pending = NULL /\ OnlyRequest(s) /\ request[s] \in Sent
      /\ Known(request[s], cache, Listed)
  BY <1>1, OnlyOne
<1>3. Listed' = Listed
  BY <1>1, SameListed
<1>4. CASE Refuse(s)
  <2> DEFINE q == [request[s] EXCEPT !.answer = Failure]
  <2>1. q \in Sent /\ q.answer = Failure /\ q.op = request[s].op
        /\ q.id = request[s].id /\ q.item = request[s].item
    BY <1>2, SentAnswered
  <2>2. request'[s] = q /\ \A o \in Slots \ {s} : request'[o] = request[o]
    BY <1>4 DEF Refuse, Answer, CacheTypeOK
  <2>3. cache' = cache
    BY <1>4 DEF Refuse, client
  <2> HIDE DEF q
  <2>4. OnlyRequest(s)'
    BY <1>2, <2>1, <2>2, RecordAssumption DEF OnlyRequest
  <2>5. Undone(q, cache) = Listed /\ TakenOff(q, cache)
    BY <1>2, <1>4, <2>1 DEF Known, Undone, TakenOff, Refuse
  <2>6. Known(request'[s], cache', Listed')
    BY <1>3, <2>1, <2>2, <2>3, <2>5 DEF Known
  <2> QED
    BY <1>1, <1>2, <2>4, <2>6 DEF InStep
<1>5. CASE Receive(s) \/ Undo(s)
  <2>1. Quiet'
    BY <1>2, <1>5 DEF Receive, Undo, Done, Quiet, OnlyRequest, CacheTypeOK
  <2>2. cache' = Listed
    BY <1>2, <1>5 DEF Receive, Undo, Known, Received, Apply, Undone
  <2> QED
    BY <1>1, <1>2, <1>3, <2>1, <2>2 DEF InStep
<1> QED
  BY <1>4, <1>5

LEMMA StaysInStep ==
    ASSUME CacheInv, ChainInv', FirstIsAlone', [CacheNext]_allVars, misses' = 0
    PROVE  InStep'
<1>1. /\ ChainInv /\ CacheTypeOK /\ TypeOK' /\ FirstIsAlone
      /\ misses = 0 => InStep
  BY AloneInChains DEF CacheInv, ChainInv
<1>2. ~Elsewhere /\ ~Logout /\ \A s \in Slots : ~LoseAnswer(s)
  BY <1>1, MissType DEF Elsewhere, Logout, LoseAnswer, CacheTypeOK
<1>3. CASE Refresh \/ Query \/ FetchDone \/ FetchFails \/ Login
  BY <1>1, <1>3, FetchStaysInStep
<1>4. ASSUME NEW s \in Slots, Write(s) PROVE InStep'
  BY <1>1, <1>4, WriteStaysInStep
<1>5. ASSUME NEW s \in Slots, Execute(s) PROVE InStep'
  BY <1>1, <1>5, ExecuteStaysInStep
<1>6. ASSUME NEW s \in Slots, Refuse(s) \/ Receive(s) \/ Undo(s) PROVE InStep'
  BY <1>1, <1>6, AnswerStaysInStep
<1>7. CASE UNCHANGED allVars
  <2>1. UNCHANGED <<tables, cache, pending, request>> /\ misses = 0
    BY <1>7 DEF allVars, client
  <2> QED
    BY <1>1, <2>1, SameListed DEF InStep, Quiet, OnlyRequest
<1> QED
  BY <1>2, <1>3, <1>4, <1>5, <1>6, <1>7 DEF CacheNext

-----------------------------------------------------------------------------
(* The theorems.                                                           *)

LEMMA CacheInvStarts == CacheInit => CacheInv
<1> SUFFICES ASSUME CacheInit PROVE CacheInv
  OBVIOUS
<1>1. ChainInv
  BY InitChainInv DEF CacheInit
<1>2. ChainEnds
  BY DEF CacheInit, Init, ChainEnds
<1>3. CacheTypeOK
  <2>1. << >> = [x \in {} |-> x]
    OBVIOUS
  <2>2. cache \in Lists
    BY <2>1, ListType DEF CacheInit
  <2> QED
    BY <1>1, <2>2 DEF CacheInit, CacheTypeOK, ChainInv
<1>4. misses # 0
  BY DEF CacheInit
<1> QED
  BY <1>1, <1>2, <1>3, <1>4 DEF CacheInv

LEMMA CacheInvKept == CacheInv /\ [CacheNext]_allVars => CacheInv'
<1> SUFFICES ASSUME CacheInv, [CacheNext]_allVars PROVE CacheInv'
  OBVIOUS
<1>1. ChainInv' /\ ChainEnds'
  BY StepChains DEF CacheInv
<1>2. (ChainInv /\ ChainEnds)' => FirstIsAlone'
  BY CurrentAlone, PTL
<1>3. FirstIsAlone'
  BY <1>1, <1>2
<1>4. CacheTypeOK'
  BY <1>1, <1>3, StepTypes
<1>5. misses' = 0 => InStep'
  BY <1>1, <1>3, StaysInStep
<1> QED
  BY <1>1, <1>4, <1>5 DEF CacheInv

\* The inductive invariant: what is known, with at most one fetch or one
\* request under way, as long as nothing was missed.
THEOREM CacheInvHolds == CacheSpec => []CacheInv
BY CacheInvStarts, CacheInvKept, PTL DEF CacheSpec

\* The lists, requests and answers are well typed, and _isFetching is on
\* exactly while a response is pending: a fetch that cancels another, one that
\* fails, and a logout in between leave them together.
THEOREM CacheTypeCorrect == CacheSpec => []CacheTypeOK
<1>1. CacheInv => CacheTypeOK
  BY DEF CacheInv
<1> QED
  BY <1>1, CacheInvHolds, PTL

\* The list that is shown with nothing under way is what the server would
\* send, for any number of items, recurrences and requests, unless the client
\* missed something (misses): every answer tells all that its transaction
\* changed, and a failed request leaves no trace.
THEOREM CacheIsInStep == CacheSpec => []CacheAgrees
<1>1. CacheInv => CacheAgrees
  <2> SUFFICES ASSUME CacheInv, misses = 0, Quiet, pending = NULL PROVE cache = Items(DOMAIN tasks)
    BY DEF CacheAgrees
  <2> QED
    BY DEF CacheInv, InStep, Quiet, OnlyRequest, Listed
<1> QED
  BY <1>1, CacheInvHolds, PTL
=============================================================================
