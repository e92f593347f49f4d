-------------------------- MODULE RecurrenceHistory --------------------------
(***************************************************************************)
(* What a recurrence promises its users, without tables or permissions:    *)
(* the occurrences of a recurring task form a history that only changes at *)
(* its end.  Completing the last occurrence appends the next one, undoing  *)
(* that takes the last one away, and a history is dissolved as a whole.    *)
(***************************************************************************)
EXTENDS Sequences, Naturals, Functions

CONSTANTS TaskIds, RecIds

VARIABLE history    \* recurrence id -> nonempty sequence of task ids

InSomeHistory(t) == \E r \in DOMAIN history : t \in Range(history[r])

Init == history = << >>

Begin(r, t) ==
    /\ r \notin DOMAIN history
    /\ ~InSomeHistory(t)
    /\ history' = [x \in DOMAIN history \cup {r} |-> IF x = r THEN <<t>> ELSE history[x]]

Advance(r, t) ==
    /\ ~InSomeHistory(t)
    /\ history' = [history EXCEPT ![r] = Append(@, t)]

Undo(r) ==
    /\ Len(history[r]) > 1
    /\ history' = [history EXCEPT ![r] = SubSeq(@, 1, Len(@) - 1)]

Dissolve(r) == history' = Restrict(history, DOMAIN history \ {r})

Next ==
    \/ \E r \in RecIds, t \in TaskIds : Begin(r, t)
    \/ \E r \in DOMAIN history :
          \/ \E t \in TaskIds : Advance(r, t)
          \/ Undo(r)
          \/ Dissolve(r)

Spec == Init /\ [][Next]_history
==============================================================================
