---------------------------- MODULE MCTaskValues ----------------------------
(***************************************************************************)
(* Model checking TaskValues: every estimate of small integers with a      *)
(* short hour, and dates around the end of February in a leap year, in a   *)
(* calendar that ends soon.                                                *)
(***************************************************************************)
EXTENDS TaskValues

Ints == -1 .. MaxInt

Day(year, month, day) == MonthStart(12 * year + month - 1) + day - 1

Jan30 == Day(2024, 1, 30)
Jan31 == Day(2024, 1, 31)
Feb1  == Day(2024, 2, 1)
Feb29 == Day(2024, 2, 29)

Periods == {<<Jan30, NULL>>, <<NULL, Jan31>>, <<NULL, Feb29>>,
            <<Jan31, Feb1>>, <<Jan30, Jan31>>, <<Jan31, Feb29>>}

First  == Day(2024, 2, 28)
Final  == Day(2024, 3, 1)

Earliest  == Day(2024, 1, 30)
Latest    == Day(2025, 3, 30)
Timestamp == Latest + (Latest - Earliest) + 9 * (RECURRENCE_MAX + 1)

Every(months, days) == [months |-> months, days |-> days]

Frequencies == {Every(1, 0), Every(0, 1), Every(1, 1), Every(12, 0), Every(13, 0),
                Every(29, 0), Every(30, 0)}
Rejected    == {Every(0, 0), Every(-1, 1), Every(1, -1)}

Request(start, end, estimate, frequency, isEvery) ==
    [start |-> start, end |-> end, estimate |-> estimate,
     frequency |-> frequency, isEvery |-> isEvery]

SomeRequests ==
    {Request(First, NULL, [days |-> 0, hours |-> h, minutes |-> m], NULL, FALSE) :
        h \in Ints, m \in Ints}
    \cup {Request(First, NULL, [days |-> -1, hours |-> 0, minutes |-> 0], NULL, FALSE)}
    \cup {Request(p[1], p[2], NULL, f, every) :
             p \in Periods, f \in Frequencies, every \in BOOLEAN}
    \cup {Request(First, e, NULL, f, TRUE) :
             e \in {NULL, First - 1, Latest, Latest + 1}, f \in Rejected \cup {NULL}}
=============================================================================
