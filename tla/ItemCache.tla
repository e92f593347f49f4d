------------------------------ MODULE ItemCache ------------------------------
(***************************************************************************)
(* The items that the client keeps (survival_list_repository.dart), beside *)
(* the server's tables they are copies of.  A fetch reads all of them and  *)
(* replaces the list; a create, update, toggle or delete changes the list  *)
(* at once where it can, and again when it is answered or fails.           *)
(*                                                                         *)
(* The items are those of one user, without groups, and none is completed  *)
(* for more than a day, after which get_tasks hides it.                    *)
(***************************************************************************)
EXTENDS SurvivalDb, Naturals

CONSTANTS
    Viewer,
    Slots,      \* bound on the requests that are under way at once
    Failure,    \* an answer that is an error
    MaxMisses   \* bound on misses

ASSUME ViewerAssumption == Users = {Viewer} /\ Failure # NULL
ASSUME BoundAssumption  == MaxMisses \in Nat

\* An item as the client needs it here, and lists of items by id.
ItemRow == [completed : BOOLEAN, recurs : BOOLEAN, canUpdate : BOOLEAN, canToggle : BOOLEAN]
Lists   == UNION {[ids -> ItemRow] : ids \in SUBSET TaskIds}

\* The items to put into the list and the ids to remove.
Answers == [put : Lists, removed : SUBSET TaskIds]

\* A request with its answer, if there is one, and the item it was sent for.
SentWith(ops, ids, items, recurs) ==
    [op : ops, id : ids, item : items, recurs : recurs, answer : Answers \cup {NULL, Failure}]
Sent == SentWith({"create"}, {NULL}, {NULL}, BOOLEAN)
        \cup SentWith({"update"}, TaskIds, ItemRow, BOOLEAN)
        \cup SentWith({"toggle", "delete"}, TaskIds, ItemRow, {FALSE})
Fetched == [rows : Lists \cup {NULL, Failure}]

ASSUME RecordAssumption ==
    /\ NULL \notin Lists \cup Answers \cup Sent \cup Fetched
    /\ Failure \notin Lists \cup Answers

VARIABLES
    loggedIn,
    cache,        \* _itemsStreamController: id -> item
    isFetching,   \* _isFetchingItemsStreamController
    pending,      \* _pendingItemsResponse: NULL or [rows], which are NULL at first
    request,      \* slot -> NULL or the request that was sent
    misses        \* history: what the list may lack since the last fetch

tables == <<groups, members, tasks, recurrences>>
client == <<loggedIn, cache, isFetching, pending>>
allVars == <<tables, client, request, misses>>

Quiet == \A s \in Slots : request[s] = NULL

\* The list may have come out of step with the tables.
Miss == misses < MaxMisses /\ misses' = misses + 1

-----------------------------------------------------------------------------
(* The server                                                              *)

\* What a response says of a task.  can_delete is can_update.
Item(t) == [completed |-> tasks[t].completed,
            recurs    |-> tasks[t].recurrence # NULL,
            canUpdate |-> MayUpdate(Viewer, t),
            canToggle |-> MayToggle(Viewer, t)]

Items(ids)      == [t \in ids |-> Item(t)]
ItemsAfter(ids) == [t \in ids \ {NULL} |-> Item(t)']

\* An id that the client does not know; the serial column repeats none.
Unused(t) ==
    /\ t \notin DOMAIN tasks \cup DOMAIN cache
    /\ pending # NULL /\ pending.rows \notin {NULL, Failure} => t \notin DOMAIN pending.rows
    /\ \A s \in Slots : request[s] # NULL =>
          /\ t # request[s].id
          /\ request[s].answer \notin {NULL, Failure} =>
                t \notin DOMAIN request[s].answer.put \cup request[s].answer.removed

Answer(s, answer) == request' = [request EXCEPT ![s].answer = answer]

Result(put, removed) == [put |-> put, removed |-> removed]

RecurrenceOf(recurs) == IF recurs THEN RecIds ELSE {NULL}

DoCreate(s) ==
    \E t \in TaskIds, r \in RecurrenceOf(request[s].recurs) :
        /\ Unused(t)
        /\ CreateTask(Viewer, t, Viewer, NULL, r)
        /\ Answer(s, Result(ItemsAfter({t}), {}))

DoUpdate(s, t) ==
    \E r \in RecurrenceOf(request[s].recurs) :
        /\ UpdateTask(Viewer, t, Viewer, NULL, r)
        /\ Answer(s, Result(ItemsAfter({t}), {}))

DoDelete(s, t) ==
    /\ DeleteTask(Viewer, t)
    /\ Answer(s, Result(<< >>, {t}))

\* Mutant: the answer leaves out that the former previous task is not
\* the previous one any more.
CompleteAlone(s, t) ==
    \E n \in TaskIds :
        /\ Unused(n)
        /\ CompleteCurrent(Viewer, t, n)
        /\ Answer(s, Result(ItemsAfter({t, n}), {}))

\* task_created and task_updated
DoComplete(s, t) ==
    \E n \in TaskIds :
        /\ Unused(n)
        /\ CompleteCurrent(Viewer, t, n)
        /\ Answer(s, Result(ItemsAfter({t, n, Previous(t)}), {}))

\* task_deleted and task_updated
DoReopen(s, t) ==
    /\ ReopenPrevious(Viewer, t)
    /\ Answer(s, Result(ItemsAfter({t, PreviousOf(tasks', recurrences', t)}), {Current(t)}))

DoToggle(s, t) ==
    /\ t \in DOMAIN tasks
    /\ IF tasks[t].completed # request[s].item.completed
       THEN Answer(s, Result(Items({t}), {})) /\ UNCHANGED tables
       ELSE \/ TogglePlain(Viewer, t) /\ Answer(s, Result(ItemsAfter({t}), {}))
            \/ DoComplete(s, t)
            \/ DoReopen(s, t)

\* The request ends a recurrence with past occurrences, which can be updated
\* and toggled again from then on; its answer does not mention them.
EndsHistory(s) ==
    /\ request[s].op \in {"update", "delete"} /\ ~request[s].recurs
    /\ Previous(request[s].id) # NULL

Execute(s) ==
    /\ request[s] # NULL
    /\ request[s].answer = NULL
    /\ \/ request[s].op = "create" /\ DoCreate(s)
       \/ \E t \in {request[s].id} :
             \/ request[s].op = "update" /\ DoUpdate(s, t)
             \/ request[s].op = "toggle" /\ DoToggle(s, t)
             \/ request[s].op = "delete" /\ DoDelete(s, t)
    /\ IF request[s].id # NULL /\ EndsHistory(s) THEN Miss ELSE UNCHANGED misses
    /\ UNCHANGED client

\* The request is refused, rolled back, or never arrives.
Refuse(s) ==
    /\ request[s] # NULL
    /\ request[s].answer = NULL
    /\ Answer(s, Failure)
    /\ UNCHANGED <<tables, client, misses>>

\* The transaction was committed, but its answer is lost.
LoseAnswer(s) ==
    /\ request[s] # NULL
    /\ request[s].answer \notin {NULL, Failure}
    /\ Answer(s, Failure)
    /\ Miss
    /\ UNCHANGED <<tables, client>>

\* The same user on another device.
Elsewhere ==
    /\ Miss
    /\ WriteStep(Viewer) \/ ToggleStep(Viewer)
    /\ \A t \in DOMAIN tasks' \ DOMAIN tasks : Unused(t)
    /\ UNCHANGED <<client, request>>

-----------------------------------------------------------------------------
(* Fetching                                                                *)

\* _fetchItems: a response that is pending is cancelled.
Fetch ==
    /\ isFetching' = (pending = NULL \/ isFetching)
    /\ pending' = [rows |-> NULL]
    /\ misses' = IF Quiet THEN 0 ELSE IF misses = 0 THEN 1 ELSE misses

Refresh ==
    /\ loggedIn
    /\ Fetch
    /\ UNCHANGED <<tables, loggedIn, cache, request>>

\* get_tasks runs its query.
Query ==
    /\ pending # NULL
    /\ pending.rows = NULL
    /\ pending' = [rows |-> Items(DOMAIN tasks)]
    /\ UNCHANGED <<tables, loggedIn, cache, isFetching, request, misses>>

\* onDone
FetchDone ==
    /\ pending # NULL
    /\ pending.rows \notin {NULL, Failure}
    /\ cache' = pending.rows
    /\ pending' = NULL
    /\ isFetching' = FALSE
    /\ UNCHANGED <<tables, loggedIn, request, misses>>

\* Mutant: onError forgets the response and leaves the indicator on.
FailAndForget ==
    /\ pending # NULL
    /\ pending.rows # Failure
    /\ pending' = NULL
    /\ UNCHANGED <<tables, loggedIn, cache, isFetching, request, misses>>

\* There is no onError: the response stays pending until the next fetch.
FetchFails ==
    /\ pending # NULL
    /\ pending.rows # Failure
    /\ pending' = [rows |-> Failure]
    /\ UNCHANGED <<tables, loggedIn, cache, isFetching, request, misses>>

\* The listener of _onItemsListen.
Login ==
    /\ ~loggedIn
    /\ loggedIn' = TRUE
    /\ Fetch
    /\ UNCHANGED <<tables, cache, request>>

\* Nothing that is under way is cancelled.
Logout ==
    /\ loggedIn
    /\ loggedIn' = FALSE
    /\ cache' = << >>
    /\ misses' = 1
    /\ UNCHANGED <<tables, isFetching, pending, request>>

-----------------------------------------------------------------------------
(* Writing.  The screens offer what the item they show allows.             *)

Send(s, op, t, recurs) ==
    /\ loggedIn
    /\ request[s] = NULL
    /\ request' = [request EXCEPT ![s] =
           [op |-> op, id |-> t, recurs |-> recurs, answer |-> NULL,
            item |-> IF t = NULL THEN NULL ELSE cache[t]]]
    /\ IF misses = 0 /\ Quiet /\ pending = NULL THEN UNCHANGED misses ELSE Miss
    /\ UNCHANGED <<tables, loggedIn, isFetching, pending>>

CreateItem(s, recurs) == Send(s, "create", NULL, recurs) /\ UNCHANGED cache

UpdateItem(s, t, recurs) ==
    /\ cache[t].canUpdate
    /\ cache' = [cache EXCEPT ![t].recurs = recurs]
    /\ Send(s, "update", t, recurs)

ToggleItem(s, t) ==
    /\ cache[t].canToggle
    /\ cache' = [cache EXCEPT ![t].completed = ~@]
    /\ Send(s, "toggle", t, FALSE)

DeleteItem(s, t) ==
    /\ cache[t].canUpdate
    /\ cache' = Restrict(cache, DOMAIN cache \ {t})
    /\ Send(s, "delete", t, FALSE)

\* _upsertItem, and the removal of the occurrence that a toggle deleted.
Apply(put, removed) ==
    [t \in DOMAIN put \cup (DOMAIN cache \ removed) |->
        IF t \in DOMAIN put THEN put[t] ELSE cache[t]]

\* A toggled item keeps what the short answer does not say.
Merged(q) ==
    IF q.op = "toggle" THEN [q.answer.put EXCEPT ![q.id].recurs = q.item.recurs]
                       ELSE q.answer.put

Done(s) ==
    /\ request' = [request EXCEPT ![s] = NULL]
    /\ UNCHANGED <<tables, loggedIn, isFetching, pending, misses>>

\* A deleted item was taken off when the request was sent.
Receive(s) ==
    LET q == request[s] IN
    /\ q # NULL
    /\ q.answer \notin {NULL, Failure}
    /\ cache' = IF q.op = "delete" THEN cache ELSE Apply(Merged(q), q.answer.removed)
    /\ Done(s)

\* catch: the item is put back as it was when the request was sent.
Undo(s) ==
    LET q == request[s] IN
    /\ q # NULL
    /\ q.answer = Failure
    /\ cache' = IF q.id = NULL THEN cache ELSE Put(cache, q.id, q.item)
    /\ Done(s)

-----------------------------------------------------------------------------
CacheInit ==
    /\ Init
    /\ loggedIn = FALSE
    /\ cache = << >>
    /\ isFetching = FALSE
    /\ pending = NULL
    /\ request = [s \in Slots |-> NULL]
    /\ misses = 1

Write(s) ==
    \/ \E recurs \in BOOLEAN : CreateItem(s, recurs)
    \/ \E t \in DOMAIN cache :
          \/ \E recurs \in BOOLEAN : UpdateItem(s, t, recurs)
          \/ ToggleItem(s, t) \/ DeleteItem(s, t)

CacheNext ==
    \/ Elsewhere
    \/ Refresh \/ Query \/ FetchDone \/ FetchFails \/ Login \/ Logout
    \/ \E s \in Slots :
          \/ Write(s)
          \/ Execute(s) \/ Refuse(s) \/ LoseAnswer(s)
          \/ Receive(s) \/ Undo(s)

CacheSpec == CacheInit /\ [][CacheNext]_allVars

-----------------------------------------------------------------------------
(* Properties                                                              *)

\* The tables and the items are well typed, and the indicator is on exactly
\* while a response is pending, however fetches cancel each other and fail.
CacheTypeOK ==
    /\ TypeOK
    /\ loggedIn \in BOOLEAN
    /\ cache \in Lists
    /\ pending \in Fetched \cup {NULL}
    /\ request \in [Slots -> Sent \cup {NULL}]
    /\ misses \in Nat
    /\ isFetching \in BOOLEAN
    /\ isFetching <=> pending # NULL

\* With nothing under way, the list is what the server would send: flags of
\* other tasks that a toggle changes, and undone failures, included.  This
\* needs that, since a fetch that started with no write under way, no write
\* overlapped another one or a fetch, no answer was lost, nobody wrote from
\* elsewhere and no recurrence with past occurrences was ended (misses).
CacheAgrees ==
    loggedIn /\ misses = 0 /\ Quiet /\ pending = NULL => cache = Items(DOMAIN tasks)
=============================================================================
