---------------------- MODULE SurvivalDbHistoryProofs ----------------------
(***************************************************************************)
(* The transactions of SurvivalDb implement RecurrenceHistory.             *)
(***************************************************************************)
EXTENDS SurvivalDbHistory, SurvivalDbProofs, SequenceTheorems

-----------------------------------------------------------------------------
(* Reading the occurrences.  That the recursive definition has one         *)
(* solution is part of the invariant.                                      *)

\* f solves the equation that defines Occurrences, for the rows of tasks.
Reads(f, rows) ==
    f = [t \in DOMAIN rows |-> IF rows[t].previous = NULL THEN <<t>>
                               ELSE Append(f[rows[t].previous], t)]

ReadsOnly(f, rows) == Reads(f, rows) /\ \A g : Reads(g, rows) => g = f

\* The sequence s of rows ends in t, and links each one to the one before.
LeadsTo(s, t, rows) ==
    /\ s \in Seq(DOMAIN rows) /\ Len(s) > 0 /\ s[Len(s)] = t
    /\ \A i \in 1 .. Len(s) - 1 : rows[s[i + 1]].previous = s[i]
    /\ \A i \in 1 .. Len(s) : rows[s[i]].recurrence = rows[t].recurrence

OccurrencesRead ==
    /\ ReadsOnly(Occurrences, tasks)
    /\ \A t \in DOMAIN tasks : LeadsTo(Occurrences[t], t, tasks)

OccurrencesOnly == \A f : ReadsOnly(f, tasks) => Occurrences = f

LEMMA OccurrencesAre == OccurrencesOnly
<1> SUFFICES ASSUME NEW f, ReadsOnly(f, tasks) PROVE Occurrences = f
  BY DEF OccurrencesOnly
<1>1. \E g : Reads(g, tasks)
  BY DEF ReadsOnly
<1>2. Reads(Occurrences, tasks)
  BY <1>1 DEF Occurrences, Reads
<1> QED
  BY <1>2 DEF ReadsOnly

\* The rows of K stay, and nothing else that stays or goes is between them.
Keeps(K, before, after) ==
    /\ K \subseteq DOMAIN before \cap DOMAIN after
    /\ \A t \in K : /\ after[t].previous = before[t].previous
                    /\ after[t].recurrence = before[t].recurrence
                    /\ after[t].previous \in K \cup {NULL}
    /\ \A t \in DOMAIN after \ K : after[t].previous \in K \cup {NULL}
    /\ \A t \in DOMAIN before \ K :
          \/ before[t].previous \in K \cup {NULL}
          \/ /\ before[t].previous \in DOMAIN before \ K
             /\ before[before[t].previous].previous \notin K

\* How the rows that are not of K are read.
ReadAfter(f, K, after) ==
    [t \in DOMAIN after |->
        IF t \in K THEN f[t]
        ELSE IF after[t].previous = NULL THEN <<t>> ELSE Append(f[after[t].previous], t)]

LEMMA ReadsAfter ==
    ASSUME NEW before, NEW after, NEW K, NULL \notin K, Keeps(K, before, after),
           NEW f, ReadsOnly(f, before)
    PROVE  ReadsOnly(ReadAfter(f, K, after), after)
<1> DEFINE f2 == ReadAfter(f, K, after)
<1>1. \A t \in DOMAIN before :
         f[t] = IF before[t].previous = NULL THEN <<t>> ELSE Append(f[before[t].previous], t)
  BY DEF ReadsOnly, Reads
<1>2. Reads(f2, after)
  <2>1. \A t \in DOMAIN after :
           f2[t] = IF after[t].previous = NULL THEN <<t>> ELSE Append(f2[after[t].previous], t)
    BY <1>1 DEF ReadAfter, Keeps
  <2> QED
    BY <2>1 DEF Reads, ReadAfter
<1>3. ASSUME NEW g, Reads(g, after) PROVE g = f2
  <2> DEFINE h == [t \in DOMAIN before |->
                     IF t \in K THEN g[t]
                     ELSE IF before[t].previous \in K THEN Append(g[before[t].previous], t)
                     ELSE f[t]]
  <2>1. \A t \in DOMAIN after :
           g[t] = IF after[t].previous = NULL THEN <<t>> ELSE Append(g[after[t].previous], t)
    BY <1>3 DEF Reads
  <2>2. \A t \in DOMAIN before :
           h[t] = IF before[t].previous = NULL THEN <<t>> ELSE Append(h[before[t].previous], t)
    <3> TAKE t \in DOMAIN before
    <3>1. CASE t \in K
      BY <2>1, <3>1 DEF Keeps
    <3>2. CASE t \notin K
      BY <1>1, <3>2 DEF Keeps
    <3> QED
      BY <3>1, <3>2
  <2>3. Reads(h, before)
    BY <2>2 DEF Reads
  <2>4. h = f
    BY <2>3 DEF ReadsOnly
  <2>5. \A t \in K : g[t] = f[t]
    BY <2>4 DEF Keeps
  <2>6. \A t \in DOMAIN after : g[t] = f2[t]
    BY <2>1, <2>5 DEF ReadAfter, Keeps
  <2>7. g = [t \in DOMAIN after |-> g[t]] /\ f2 = [t \in DOMAIN after |-> f2[t]]
    BY <1>3 DEF Reads, ReadAfter
  <2> HIDE DEF f2
  <2> QED
    BY <2>6, <2>7
<1> QED
  BY <1>2, <1>3 DEF ReadsOnly

LEMMA LeadsAfter ==
    ASSUME NEW before, NEW after, NEW K, NULL \notin DOMAIN after, Keeps(K, before, after),
           NEW f,
           \A t \in K : LeadsTo(f[t], t, before) /\ f[t] \in Seq(K),
           \A t \in DOMAIN after \ K : after[t].previous \in K =>
              after[t].recurrence = before[after[t].previous].recurrence
    PROVE  \A t \in DOMAIN after : LeadsTo(ReadAfter(f, K, after)[t], t, after)
<1>1. ASSUME NEW t \in K PROVE LeadsTo(f[t], t, after) /\ f[t] \in Seq(K)
  <2> DEFINE s == f[t]
  <2>1. s \in Seq(K) /\ Len(s) \in Nat /\ \A i \in 1 .. Len(s) : s[i] \in K
    BY ElementOfSeq, LenProperties
  <2>2. \A k \in K : /\ after[k].previous = before[k].previous
                     /\ after[k].recurrence = before[k].recurrence
                     /\ k \in DOMAIN after
    BY DEF Keeps
  <2>3. /\ Len(s) > 0 /\ s[Len(s)] = t
        /\ \A i \in 1 .. Len(s) - 1 : before[s[i + 1]].previous = s[i]
        /\ \A i \in 1 .. Len(s) : before[s[i]].recurrence = before[t].recurrence
    BY DEF LeadsTo
  <2>4. s \in Seq(DOMAIN after)
    BY <2>1, <2>2, SeqMonotonic
  <2> HIDE DEF s
  <2>5. ASSUME NEW i \in 1 .. Len(s) - 1 PROVE after[s[i + 1]].previous = s[i]
    <3>1. i + 1 \in 1 .. Len(s)
      BY <2>1
    <3> QED
      BY <2>1, <2>2, <2>3, <3>1
  <2>6. \A i \in 1 .. Len(s) : after[s[i]].recurrence = after[t].recurrence
    BY <2>1, <2>2, <2>3
  <2> QED
    BY <2>1, <2>3, <2>4, <2>5, <2>6 DEF LeadsTo, s
<1>2. ASSUME NEW t \in DOMAIN after, t \notin K, after[t].previous = NULL
      PROVE  LeadsTo(<<t>>, t, after)
  <2>1. <<t>> \in Seq(DOMAIN after) /\ Len(<<t>>) = 1 /\ <<t>>[1] = t
    OBVIOUS
  <2> QED
    BY <2>1 DEF LeadsTo
<1>3. ASSUME NEW t \in DOMAIN after, t \notin K, after[t].previous # NULL
      PROVE  LeadsTo(Append(f[after[t].previous], t), t, after)
  <2> DEFINE p == after[t].previous
             s == f[p]
             e == Append(s, t)
  <2>1. p \in K
    BY <1>3 DEF Keeps
  <2>2. /\ s \in Seq(DOMAIN after) /\ Len(s) \in Nat /\ Len(s) > 0 /\ s[Len(s)] = p
        /\ \A i \in 1 .. Len(s) - 1 : after[s[i + 1]].previous = s[i]
        /\ \A i \in 1 .. Len(s) : after[s[i]].recurrence = after[p].recurrence
    BY <1>1, <2>1, LenProperties DEF LeadsTo
  <2>3. after[p].recurrence = after[t].recurrence
    BY <1>3, <2>1 DEF Keeps
  <2> HIDE DEF s
  <2>4. /\ e \in Seq(DOMAIN after) /\ Len(e) = Len(s) + 1
        /\ \A i \in 1 .. Len(s) : e[i] = s[i]
        /\ e[Len(s) + 1] = t
    BY <2>2, AppendProperties
  <2> HIDE DEF e
  <2>5. ASSUME NEW i \in 1 .. Len(e) - 1 PROVE after[e[i + 1]].previous = e[i]
    <3>1. CASE i = Len(s)
      BY <2>2, <2>4, <3>1 DEF p
    <3>2. CASE i # Len(s)
      <4>1. i \in 1 .. Len(s) - 1 /\ i + 1 \in 1 .. Len(s)
        BY <2>2, <2>4, <3>2
      <4> QED
        BY <2>2, <2>4, <4>1
    <3> QED
      BY <3>1, <3>2
  <2>6. ASSUME NEW i \in 1 .. Len(e) PROVE after[e[i]].recurrence = after[t].recurrence
    BY <2>2, <2>3, <2>4
  <2> QED
    BY <2>2, <2>4, <2>5, <2>6 DEF LeadsTo, e, s
<1> QED
  BY <1>1, <1>2, <1>3 DEF ReadAfter

\* The occurrences after a step that keeps K.
LEMMA OccurrencesAfter ==
    ASSUME TypeOK', OccurrencesRead, NEW K, Keeps(K, tasks, tasks'),
           \A t \in K : Occurrences[t] \in Seq(K),
           \A t \in DOMAIN tasks' \ K : tasks'[t].previous \in K =>
              tasks'[t].recurrence = tasks[tasks'[t].previous].recurrence
    PROVE  OccurrencesRead' /\ Occurrences' = ReadAfter(Occurrences, K, tasks')
<1>1. NULL \notin DOMAIN tasks' /\ NULL \notin K
  BY NullAssumption DEF TypeOK, IsTaskTable, Keeps
<1>2. ReadsOnly(ReadAfter(Occurrences, K, tasks'), tasks')
  BY <1>1, ReadsAfter DEF OccurrencesRead
<1>3. OccurrencesOnly'
  BY OccurrencesAre, PTL
<1>4. Occurrences' = ReadAfter(Occurrences, K, tasks')
  BY <1>2, <1>3 DEF OccurrencesOnly
<1>5. \A t \in K : LeadsTo(Occurrences[t], t, tasks)
  BY DEF OccurrencesRead, Keeps
<1>6. \A t \in DOMAIN tasks' : LeadsTo(ReadAfter(Occurrences, K, tasks')[t], t, tasks')
  BY <1>1, <1>5, LeadsAfter
<1> QED
  BY <1>2, <1>4, <1>6 DEF OccurrencesRead

\* The same in the rows that stay, and shorter when none is new.
LEMMA OccurrencesKept ==
    ASSUME NEW K, Keeps(K, tasks, tasks'), Occurrences' = ReadAfter(Occurrences, K, tasks')
    PROVE  \A t \in K : Occurrences'[t] = Occurrences[t]
BY DEF ReadAfter, Keeps

-----------------------------------------------------------------------------
(* Which rows stay.                                                        *)

\* What is known of the occurrences that lead to t.
LEMMA Ancestors ==
    ASSUME OccurrencesRead, NEW t \in DOMAIN tasks
    PROVE  LET s == Occurrences[t] IN
           /\ s \in Seq(DOMAIN tasks) /\ Len(s) \in Nat /\ Len(s) > 0 /\ s[Len(s)] = t
           /\ \A i \in 1 .. Len(s) :
                 /\ s[i] \in DOMAIN tasks /\ tasks[s[i]].recurrence = tasks[t].recurrence
                 /\ i # Len(s) => i + 1 \in 1 .. Len(s) /\ tasks[s[i + 1]].previous = s[i]
<1> DEFINE s == Occurrences[t]
<1>1. /\ s \in Seq(DOMAIN tasks) /\ Len(s) > 0 /\ s[Len(s)] = t
      /\ \A i \in 1 .. Len(s) - 1 : tasks[s[i + 1]].previous = s[i]
      /\ \A i \in 1 .. Len(s) : tasks[s[i]].recurrence = tasks[t].recurrence
  BY DEF OccurrencesRead, LeadsTo
<1> HIDE DEF s
<1>2. Len(s) \in Nat /\ \A i \in 1 .. Len(s) : s[i] \in DOMAIN tasks
  BY <1>1, ElementOfSeq, LenProperties
<1> QED
  BY <1>1, <1>2 DEF s

LEMMA SeqOf ==
    ASSUME NEW S, NEW s \in Seq(S), NEW K, \A i \in 1 .. Len(s) : s[i] \in K
    PROVE  s \in Seq(K)
<1>1. s \in [1 .. Len(s) -> K] /\ Len(s) \in Nat
  BY LenProperties
<1> QED
  BY <1>1

\* A row that no other comes after is among the occurrences of no other.
LEMMA LastIsApart ==
    ASSUME OccurrencesRead, NEW c, \A s \in DOMAIN tasks : tasks[s].previous # c
    PROVE  \A t \in DOMAIN tasks \ {c} : Occurrences[t] \in Seq(DOMAIN tasks \ {c})
<1> SUFFICES ASSUME NEW t \in DOMAIN tasks \ {c}
             PROVE  Occurrences[t] \in Seq(DOMAIN tasks \ {c})
  OBVIOUS
<1> DEFINE s == Occurrences[t]
<1>1. /\ s \in Seq(DOMAIN tasks) /\ Len(s) \in Nat /\ s[Len(s)] = t
      /\ \A i \in 1 .. Len(s) :
            /\ s[i] \in DOMAIN tasks
            /\ i # Len(s) => i + 1 \in 1 .. Len(s) /\ tasks[s[i + 1]].previous = s[i]
  BY Ancestors
<1> HIDE DEF s
<1>2. \A i \in 1 .. Len(s) : s[i] \in DOMAIN tasks \ {c}
  BY <1>1
<1>3. s \in Seq(DOMAIN tasks \ {c})
  BY <1>1, <1>2, SeqOf
<1> QED
  BY <1>3 DEF s

\* The occurrences of other recurrences than r are apart from those of r.
LEMMA RecurrencesApart ==
    ASSUME OccurrencesRead, NEW r
    PROVE  LET K == {s \in DOMAIN tasks : tasks[s].recurrence # r}
           IN  \A t \in K : Occurrences[t] \in Seq(K)
<1> DEFINE K == {s \in DOMAIN tasks : tasks[s].recurrence # r}
<1> SUFFICES ASSUME NEW t \in K PROVE Occurrences[t] \in Seq(K)
  OBVIOUS
<1> DEFINE s == Occurrences[t]
<1>1. /\ s \in Seq(DOMAIN tasks)
      /\ \A i \in 1 .. Len(s) : s[i] \in DOMAIN tasks /\ tasks[s[i]].recurrence = tasks[t].recurrence
  BY Ancestors
<1> HIDE DEF s
<1>2. \A i \in 1 .. Len(s) : s[i] \in K
  BY <1>1
<1> HIDE DEF K
<1>3. s \in Seq(K)
  BY <1>1, <1>2, SeqOf
<1> QED
  BY <1>3 DEF s

-----------------------------------------------------------------------------
(* Steps that keep all rows, add one, take the last one, or dissolve.      *)

\* A row is added, or none, and may come after an old one of its recurrence.
LEMMA AddRow ==
    ASSUME ChainInv, TypeOK', OccurrencesRead,
           DOMAIN tasks \subseteq DOMAIN tasks', SameChain(DOMAIN tasks),
           \A t \in DOMAIN tasks' \ DOMAIN tasks :
              /\ tasks'[t].previous \in DOMAIN tasks \cup {NULL}
              /\ tasks'[t].previous \in DOMAIN tasks =>
                    tasks'[t].recurrence = tasks[tasks'[t].previous].recurrence
    PROVE  /\ OccurrencesRead'
           /\ \A t \in DOMAIN tasks : Occurrences'[t] = Occurrences[t]
           /\ \A t \in DOMAIN tasks' \ DOMAIN tasks :
                 Occurrences'[t] = IF tasks'[t].previous = NULL THEN <<t>>
                                   ELSE Append(Occurrences[tasks'[t].previous], t)
<1>1. Keeps(DOMAIN tasks, tasks, tasks')
  BY DEF Keeps, SameChain, ChainInv, References
<1>2. \A t \in DOMAIN tasks : Occurrences[t] \in Seq(DOMAIN tasks)
  BY Ancestors
<1>3. OccurrencesRead' /\ Occurrences' = ReadAfter(Occurrences, DOMAIN tasks, tasks')
  BY <1>1, <1>2, OccurrencesAfter
<1> QED
  BY <1>1, <1>3, OccurrencesKept DEF ReadAfter

\* The row c, which no other comes after, is taken away, or is alone after.
LEMMA TakeRow ==
    ASSUME ChainInv, TypeOK', OccurrencesRead, NEW c \in DOMAIN tasks,
           \A s \in DOMAIN tasks : tasks[s].previous # c,
           DOMAIN tasks' \ {c} = DOMAIN tasks \ {c}, SameChain(DOMAIN tasks \ {c}),
           c \in DOMAIN tasks' => tasks'[c].previous = NULL
    PROVE  /\ OccurrencesRead'
           /\ \A t \in DOMAIN tasks \ {c} : Occurrences'[t] = Occurrences[t]
           /\ c \in DOMAIN tasks' => Occurrences'[c] = <<c>>
<1> DEFINE K == DOMAIN tasks \ {c}
<1>1. Keeps(K, tasks, tasks')
  BY DEF Keeps, SameChain, ChainInv, References
<1>2. \A t \in K : Occurrences[t] \in Seq(K)
  BY LastIsApart
<1>3. \A t \in DOMAIN tasks' \ K : tasks'[t].previous \notin K
  BY NullAssumption DEF ChainInv, TypeOK, IsTaskTable
<1>4. OccurrencesRead' /\ Occurrences' = ReadAfter(Occurrences, K, tasks')
  BY <1>1, <1>2, <1>3, OccurrencesAfter
<1> QED
  BY <1>1, <1>4, OccurrencesKept DEF ReadAfter

\* The rows of recurrence r go, or are alone after.
LEMMA DissolveRows ==
    ASSUME ChainInv, TypeOK', OccurrencesRead, NEW r, r # NULL, Dissolves(r),
           DOMAIN tasks' \subseteq DOMAIN tasks,
           \A t \in DOMAIN tasks \ DOMAIN tasks' : tasks[t].recurrence = r
    PROVE  /\ OccurrencesRead'
           /\ \A t \in DOMAIN tasks : tasks[t].recurrence # r => Occurrences'[t] = Occurrences[t]
<1> DEFINE K == {s \in DOMAIN tasks : tasks[s].recurrence # r}
<1>1. \A t \in DOMAIN tasks : tasks[t].previous # NULL =>
         /\ tasks[t].previous \in DOMAIN tasks
         /\ tasks[tasks[t].previous].recurrence = tasks[t].recurrence
  BY DEF ChainInv, References, OneSuccessor
<1>2. \A t \in K : /\ t \in DOMAIN tasks'
                   /\ tasks'[t].previous = tasks[t].previous
                   /\ tasks'[t].recurrence = tasks[t].recurrence
                   /\ tasks[t].previous \in K \cup {NULL}
  BY <1>1 DEF Dissolves
<1>3. \A t \in DOMAIN tasks' \ K : tasks'[t].previous = NULL
  BY DEF Dissolves
<1>4. NULL \notin K
  BY NullAssumption DEF ChainInv, TypeOK, IsTaskTable
<1>5. \A t \in DOMAIN tasks \ K :
         \/ tasks[t].previous = NULL
         \/ tasks[t].previous \in DOMAIN tasks \ K /\ tasks[tasks[t].previous].previous \notin K
  BY <1>1, <1>4
<1>6. Keeps(K, tasks, tasks')
  BY <1>2, <1>3, <1>5 DEF Keeps
<1>7. \A t \in K : Occurrences[t] \in Seq(K)
  BY RecurrencesApart
<1>8. OccurrencesRead' /\ Occurrences' = ReadAfter(Occurrences, K, tasks')
  BY <1>3, <1>4, <1>6, <1>7, OccurrencesAfter
<1>9. \A t \in K : Occurrences'[t] = Occurrences[t]
  BY <1>6, <1>8, OccurrencesKept
<1> QED
  BY <1>8, <1>9

-----------------------------------------------------------------------------
(* What the steps are to the histories.                                    *)

LEMMA CurrentIn ==
    ASSUME ChainInv, NEW r \in DOMAIN recurrences
    PROVE  /\ recurrences[r] \in DOMAIN tasks /\ tasks[recurrences[r]].recurrence = r
           /\ r \in RecIds /\ r # NULL
BY NullAssumption DEF ChainInv, TypeOK, IsRecurrenceTable, References, CurrentIsLast

LEMMA InHistory ==
    ASSUME ChainInv, OccurrencesRead, NEW t, History!InSomeHistory(t)
    PROVE  t \in DOMAIN tasks /\ tasks[t].recurrence # NULL
<1>1. PICK r \in DOMAIN recurrences : t \in History!Range(Occurrences[recurrences[r]])
  BY DEF History!InSomeHistory, Histories
<1> DEFINE c == recurrences[r]
           s == Occurrences[c]
<1>2. c \in DOMAIN tasks /\ tasks[c].recurrence # NULL
  BY CurrentIn
<1>3. s \in Seq(DOMAIN tasks)
      /\ \A i \in 1 .. Len(s) : s[i] \in DOMAIN tasks /\ tasks[s[i]].recurrence = tasks[c].recurrence
  BY <1>2, Ancestors
<1> HIDE DEF c, s
<1>4. DOMAIN s = 1 .. Len(s)
  BY <1>3, LenProperties
<1>5. t \in History!Range(s)
  BY <1>1 DEF s, c
<1> QED
  BY <1>2, <1>3, <1>4, <1>5 DEF History!Range

LEMMA SameHistories ==
    ASSUME ChainInv, recurrences' = recurrences,
           \A t \in DOMAIN tasks : tasks[t].recurrence # NULL => Occurrences'[t] = Occurrences[t]
    PROVE  Histories' = Histories
BY CurrentIn DEF Histories

LEMMA RecurrenceBegins ==
    ASSUME ChainInv, OccurrencesRead, NEW t \in TaskIds, NEW r \in RecIds, Starts(t, r),
           t \in DOMAIN tasks => tasks[t].recurrence = NULL,
           Occurrences'[t] = <<t>>,
           \A s \in DOMAIN tasks \ {t} : Occurrences'[s] = Occurrences[s]
    PROVE  History!Next
<1>1. DOMAIN Histories = DOMAIN recurrences /\ r \notin DOMAIN Histories
  BY DEF Histories, Starts
<1>2. ~History!InSomeHistory(t)
  BY InHistory
<1>3. DOMAIN recurrences' = DOMAIN recurrences \cup {r} /\ recurrences'[r] = t
      /\ \A q \in DOMAIN recurrences : recurrences'[q] = recurrences[q]
  BY DEF Starts, Put
<1>4. \A q \in DOMAIN recurrences : recurrences[q] \in DOMAIN tasks \ {t}
  BY CurrentIn
<1>5. Histories' = [x \in DOMAIN Histories \cup {r} |-> IF x = r THEN <<t>> ELSE Histories[x]]
  BY <1>1, <1>3, <1>4 DEF Histories
<1>6. History!Begin(r, t)
  BY <1>1, <1>2, <1>5 DEF History!Begin
<1> QED
  BY <1>6 DEF History!Next

LEMMA RecurrenceAdvances ==
    ASSUME ChainInv, OccurrencesRead, NEW r \in DOMAIN recurrences, NEW n \in TaskIds,
           n \notin DOMAIN tasks, MovesTo(r, n),
           Occurrences'[n] = Append(Occurrences[recurrences[r]], n),
           \A s \in DOMAIN tasks : Occurrences'[s] = Occurrences[s]
    PROVE  History!Next
<1>1. ~History!InSomeHistory(n)
  BY InHistory
<1> DEFINE h == [Histories EXCEPT ![r] = Append(@, n)]
<1>2. Histories' = h
  <2>1. DOMAIN Histories' = DOMAIN recurrences /\ DOMAIN h = DOMAIN recurrences
    BY DEF Histories, MovesTo
  <2>2. \A q \in DOMAIN recurrences : Histories'[q] = h[q]
    BY CurrentIn DEF Histories, MovesTo
  <2>3. Histories' = [q \in DOMAIN Histories' |-> Histories'[q]] /\ h = [q \in DOMAIN h |-> h[q]]
    BY DEF Histories
  <2> HIDE DEF h
  <2> QED
    BY <2>1, <2>2, <2>3
<1>3. r \in DOMAIN Histories
  BY DEF Histories
<1>4. History!Advance(r, n)
  BY <1>1, <1>2 DEF History!Advance
<1> QED
  BY <1>3, <1>4 DEF History!Next

LEMMA RecurrenceUndone ==
    ASSUME ChainInv, OccurrencesRead, NEW r \in DOMAIN recurrences, NEW t \in DOMAIN tasks,
           tasks[recurrences[r]].previous = t, recurrences' = [recurrences EXCEPT ![r] = t],
           recurrences[r] # t,
           \A s \in DOMAIN tasks \ {recurrences[r]} : Occurrences'[s] = Occurrences[s]
    PROVE  History!Next
<1> DEFINE c == recurrences[r]
           s == Occurrences[t]
<1>1. c \in DOMAIN tasks /\ t # NULL
  BY CurrentIn, NullAssumption DEF ChainInv, TypeOK, IsTaskTable
<1>2. Occurrences[c] = Append(s, c)
  BY <1>1 DEF OccurrencesRead, ReadsOnly, Reads
<1>3. s \in Seq(DOMAIN tasks) /\ Len(s) \in Nat /\ Len(s) > 0
  BY Ancestors
<1>4. \A q \in DOMAIN recurrences \ {r} : recurrences[q] \in DOMAIN tasks \ {c}
  BY CurrentIn
<1>5. Occurrences'[t] = s
  OBVIOUS
<1>6. Histories[r] = Append(s, c) /\ r \in DOMAIN Histories
  BY <1>2 DEF Histories
<1>7. Histories' = [Histories EXCEPT ![r] = s]
  BY <1>4, <1>5 DEF Histories
<1> HIDE DEF s, c
<1>8. Len(Append(s, c)) = Len(s) + 1 /\ SubSeq(Append(s, c), 1, Len(s)) = s
  BY <1>1, <1>3, AppendProperties
<1>9. Len(Histories[r]) > 1 /\ SubSeq(Histories[r], 1, Len(Histories[r]) - 1) = s
  BY <1>3, <1>6, <1>8
<1>10. History!Undo(r)
  BY <1>7, <1>9 DEF History!Undo
<1> QED
  BY <1>6, <1>10 DEF History!Next

LEMMA RecurrenceEnds ==
    ASSUME ChainInv, OccurrencesRead, NEW r \in DOMAIN recurrences, Dissolves(r),
           \A t \in DOMAIN tasks : tasks[t].recurrence # r => Occurrences'[t] = Occurrences[t]
    PROVE  History!Next
<1>1. DOMAIN recurrences' = DOMAIN recurrences \ {r}
      /\ \A q \in DOMAIN recurrences' : recurrences'[q] = recurrences[q]
  BY DEF Dissolves, DropRecurrence, Restrict
<1>2. Histories' = History!Restrict(Histories, DOMAIN Histories \ {r})
  BY <1>1, CurrentIn DEF Histories, History!Restrict
<1>3. History!Dissolve(r) /\ r \in DOMAIN Histories
  BY <1>2 DEF History!Dissolve, Histories
<1> QED
  BY <1>3 DEF History!Next

-----------------------------------------------------------------------------
(* Every transaction.                                                      *)

HistoryStep == OccurrencesRead' /\ (History!Next \/ Histories' = Histories)

LEMMA SameRows ==
    ASSUME ChainInv, TypeOK', OccurrencesRead, DOMAIN tasks' = DOMAIN tasks,
           SameChain(DOMAIN tasks), recurrences' = recurrences
    PROVE  HistoryStep
BY AddRow, SameHistories DEF HistoryStep

LEMMA GroupStepHistory ==
    ASSUME ChainInv, TypeOK', OccurrencesRead, NEW u \in Users, GroupStep(u)
    PROVE  HistoryStep
<1>1. ASSUME NEW g \in GroupIds, CreateGroup(u, g) \/ JoinGroup(u, g)
      PROVE  HistoryStep
  BY <1>1, SameRows DEF CreateGroup, JoinGroup, SameChain
<1>2. ASSUME NEW g \in GroupIds, LeaveGroup(u, g) PROVE HistoryStep
  BY <1>2, LeaveGroupEffect, SameRows DEF ChainInv
<1> QED
  BY <1>1, <1>2 DEF GroupStep

LEMMA CreateTaskHistory ==
    ASSUME ChainInv, TypeOK', OccurrencesRead, NEW u, NEW t \in TaskIds, NEW v \in Users,
           NEW g \in GroupIds \cup {NULL}, NEW r \in RecIds \cup {NULL},
           CreateTask(u, t, v, g, r)
    PROVE  HistoryStep
<1>1. /\ t \notin DOMAIN tasks
      /\ DOMAIN tasks' = DOMAIN tasks \cup {t}
      /\ SameChain(DOMAIN tasks)
      /\ \/ Alone(t) /\ recurrences' = recurrences
         \/ r # NULL /\ Starts(t, r)
  BY CreateTaskEffect DEF ChainInv
<1>2. tasks'[t].previous = NULL
  BY <1>1 DEF Alone, Starts
<1>3. NULL \notin DOMAIN tasks
  BY NullAssumption DEF ChainInv, TypeOK, IsTaskTable
<1>4. /\ OccurrencesRead'
      /\ \A s \in DOMAIN tasks : Occurrences'[s] = Occurrences[s]
      /\ Occurrences'[t] = <<t>>
  BY <1>1, <1>2, <1>3, AddRow
<1>5. CASE recurrences' = recurrences
  BY <1>4, <1>5, SameHistories DEF HistoryStep
<1>6. CASE r # NULL /\ Starts(t, r)
  BY <1>1, <1>4, <1>6, RecurrenceBegins DEF HistoryStep
<1> QED
  BY <1>1, <1>5, <1>6

LEMMA UpdateTaskHistory ==
    ASSUME ChainInv, TypeOK', OccurrencesRead, NEW u, NEW t \in TaskIds, NEW v \in Users,
           NEW g \in GroupIds \cup {NULL}, NEW r \in RecIds \cup {NULL},
           UpdateTask(u, t, v, g, r)
    PROVE  HistoryStep
<1>1. /\ t \in DOMAIN tasks
      /\ DOMAIN tasks' = DOMAIN tasks
      /\ \/ SameChain(DOMAIN tasks) /\ recurrences' = recurrences
         \/ tasks[t].recurrence # NULL /\ Dissolves(tasks[t].recurrence)
         \/ /\ tasks[t].recurrence = NULL /\ r # NULL
            /\ SameChain(DOMAIN tasks \ {t}) /\ Starts(t, r)
  BY UpdateTaskEffect
<1>2. CASE SameChain(DOMAIN tasks) /\ recurrences' = recurrences
  BY <1>1, <1>2, SameRows
<1>3. CASE tasks[t].recurrence # NULL /\ Dissolves(tasks[t].recurrence)
  <2>1. tasks[t].recurrence \in DOMAIN recurrences
    BY <1>1, <1>3 DEF ChainInv, References
  <2>2. /\ OccurrencesRead'
        /\ \A s \in DOMAIN tasks :
              tasks[s].recurrence # tasks[t].recurrence => Occurrences'[s] = Occurrences[s]
    BY <1>1, <1>3, DissolveRows
  <2> QED
    BY <1>3, <2>1, <2>2, RecurrenceEnds DEF HistoryStep
<1>4. CASE /\ tasks[t].recurrence = NULL /\ r # NULL
           /\ SameChain(DOMAIN tasks \ {t}) /\ Starts(t, r)
  <2>1. \A s \in DOMAIN tasks : tasks[s].previous # t
    <3>1. t # NULL
      BY NullAssumption
    <3> QED
      BY <1>1, <1>4, <3>1 DEF ChainInv, OneSuccessor
  <2>2. tasks'[t].previous = NULL
    BY <1>4 DEF Starts
  <2>3. /\ OccurrencesRead'
        /\ \A s \in DOMAIN tasks \ {t} : Occurrences'[s] = Occurrences[s]
        /\ Occurrences'[t] = <<t>>
    BY <1>1, <1>4, <2>1, <2>2, TakeRow
  <2> QED
    BY <1>4, <2>3, RecurrenceBegins DEF HistoryStep
<1> QED
  BY <1>1, <1>2, <1>3, <1>4

LEMMA DeleteTaskHistory ==
    ASSUME ChainInv, TypeOK', OccurrencesRead, NEW u, NEW t \in TaskIds, DeleteTask(u, t)
    PROVE  HistoryStep
<1>1. /\ t \in DOMAIN tasks
      /\ DOMAIN tasks' = DOMAIN tasks \ {t}
      /\ \/ /\ tasks[t].recurrence = NULL
            /\ \A s \in DOMAIN tasks' : tasks[s].previous # t
            /\ SameChain(DOMAIN tasks')
            /\ recurrences' = recurrences
         \/ tasks[t].recurrence # NULL /\ Dissolves(tasks[t].recurrence)
  BY DeleteTaskEffect
<1>2. CASE tasks[t].recurrence = NULL
  <2>1. tasks[t].previous = NULL /\ t # NULL
    BY <1>1, <1>2, NullAssumption DEF ChainInv, OneSuccessor
  <2>2. /\ OccurrencesRead'
        /\ \A s \in DOMAIN tasks \ {t} : Occurrences'[s] = Occurrences[s]
    BY <1>1, <1>2, <2>1, TakeRow
  <2> QED
    BY <1>1, <1>2, <2>2, SameHistories DEF HistoryStep
<1>3. CASE tasks[t].recurrence # NULL
  <2>1. tasks[t].recurrence \in DOMAIN recurrences
    BY <1>1, <1>3 DEF ChainInv, References
  <2>2. /\ OccurrencesRead'
        /\ \A s \in DOMAIN tasks :
              tasks[s].recurrence # tasks[t].recurrence => Occurrences'[s] = Occurrences[s]
    BY <1>1, <1>3, DissolveRows
  <2> QED
    BY <1>1, <1>3, <2>1, <2>2, RecurrenceEnds DEF HistoryStep
<1> QED
  BY <1>2, <1>3

LEMMA ToggleStepHistory ==
    ASSUME ChainInv, TypeOK', OccurrencesRead, NEW u, ToggleStep(u)
    PROVE  HistoryStep
<1>1. ASSUME NEW t \in TaskIds, TogglePlain(u, t) PROVE HistoryStep
  BY <1>1, TogglePlainEffect, SameRows
<1>2. ASSUME NEW t \in TaskIds, NEW n \in TaskIds, CompleteCurrent(u, t, n)
      PROVE  HistoryStep
  <2>1. /\ t \in DOMAIN tasks /\ n \notin DOMAIN tasks
        /\ tasks[t].recurrence \in DOMAIN recurrences
        /\ recurrences[tasks[t].recurrence] = t
        /\ DOMAIN tasks' = DOMAIN tasks \cup {n}
        /\ NewOccurrence(t, n) /\ SameChain(DOMAIN tasks)
        /\ MovesTo(tasks[t].recurrence, n)
    BY <1>2, CompleteCurrentEffect
  <2>2. t # NULL /\ tasks'[n].previous = t /\ tasks'[n].recurrence = tasks[t].recurrence
    BY <2>1, NullAssumption DEF NewOccurrence
  <2>3. /\ OccurrencesRead'
        /\ \A s \in DOMAIN tasks : Occurrences'[s] = Occurrences[s]
        /\ Occurrences'[n] = Append(Occurrences[t], n)
    BY <2>1, <2>2, AddRow
  <2> QED
    BY <2>1, <2>3, RecurrenceAdvances DEF HistoryStep
<1>3. ASSUME NEW t \in TaskIds, ReopenPrevious(u, t) PROVE HistoryStep
  <2> DEFINE c == recurrences[tasks[t].recurrence]
  <2>1. /\ t \in DOMAIN tasks
        /\ tasks[t].recurrence \in DOMAIN recurrences
        /\ c \in DOMAIN tasks /\ c # t
        /\ tasks[c].previous = t
        /\ DOMAIN tasks' = DOMAIN tasks \ {c}
        /\ SameChain(DOMAIN tasks')
        /\ recurrences' = [recurrences EXCEPT ![tasks[t].recurrence] = t]
    BY <1>3, ReopenPreviousEffect
  <2>2. \A s \in DOMAIN tasks : tasks[s].previous # c
    BY <2>1 DEF ChainInv, CurrentIsLast
  <2>3. /\ OccurrencesRead'
        /\ \A s \in DOMAIN tasks \ {c} : Occurrences'[s] = Occurrences[s]
    BY <2>1, <2>2, TakeRow
  <2> QED
    BY <2>1, <2>3, RecurrenceUndone DEF HistoryStep
<1> QED
  BY <1>1, <1>2, <1>3 DEF ToggleStep

LEMMA NextHistory == ChainInv /\ OccurrencesRead /\ [Next]_vars => HistoryStep
<1> SUFFICES ASSUME ChainInv, OccurrencesRead, [Next]_vars PROVE HistoryStep
  OBVIOUS
<1>1. TypeOK'
  BY NextTypeOK DEF ChainInv
<1>2. CASE UNCHANGED vars
  BY <1>1, <1>2, SameRows DEF vars, SameChain
<1>3. ASSUME NEW u \in Users, WriteStep(u) PROVE HistoryStep
  BY <1>1, <1>3, CreateTaskHistory, UpdateTaskHistory, DeleteTaskHistory DEF WriteStep
<1> QED
  BY <1>1, <1>2, <1>3, GroupStepHistory, ToggleStepHistory DEF Next

LEMMA InitHistory == Init => OccurrencesRead /\ History!Init
<1> SUFFICES ASSUME Init PROVE OccurrencesRead /\ History!Init
  OBVIOUS
<1>1. DOMAIN tasks = {} /\ DOMAIN recurrences = {}
  BY DEF Init
<1>2. Histories = << >>
  BY <1>1 DEF Histories
<1>3. ReadsOnly([t \in {} |-> t], tasks)
  BY <1>1 DEF ReadsOnly, Reads
<1>4. ReadsOnly(Occurrences, tasks)
  BY <1>3, OccurrencesAre DEF OccurrencesOnly
<1> QED
  BY <1>1, <1>2, <1>4 DEF OccurrencesRead, History!Init

\* Whatever transactions run, recurrences are histories that only change at
\* their end: create_next and revert move them by one occurrence, and update
\* and delete dissolve them as a whole.
THEOREM HistoryImplemented == Spec => ImplementsHistory
<1>1. HistoryStep => OccurrencesRead' /\ [History!Next]_Histories
  BY DEF HistoryStep
<1> QED
  BY <1>1, InitHistory, NextHistory, InitChainInv, NextChainInv, PTL
     DEF Spec, ImplementsHistory, History!Spec
=============================================================================
