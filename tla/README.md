# Verification of survival-list

survival-list is a shared to-do list: a Flutter client (`src/client`), a gRPC
server in Rust (`src/server`, tonic and sqlx) and a Postgres database. Tasks can
belong to a group, have one responsible user, and can recur. This directory
holds TLA+ modules translated from the source, TLC configurations that check
them on small instances, and TLAPS proofs.

1. [Inventory](#inventory)
2. [Modules](#modules)
3. [Runs](#runs)
4. [What the runs found](#what-the-runs-found)
5. [Proofs](#proofs)
6. [Not modelled](#not-modelled)

## Inventory

### Server

| Component | Source (`src/server/`) | State | Operations | Hard part |
|---|---|---|---|---|
| Task tables | `migrations/*.sql` | `tasks`, `recurrences`; foreign keys with `CASCADE`, `SET NULL` and `RESTRICT` actions | the SQL statements | `tasks.recurrence_id`, `tasks.previous_task_id` and `recurrences.current_task_id` are three references that have to agree |
| Task transactions | `src/db/task.rs` 543-825 | none of their own | `create_task`, `update_task`, `toggle_task_completed`, `delete_task` | each reads first, decides, then writes in up to four statements at READ COMMITTED |
| Permissions | `src/db/task.rs` 42-118 | none | `can_update`, `can_toggle`, `can_delete`, `is_friend_task` | computed from a joined row; sent to the client, which shows or hides buttons |
| Groups | `src/db/group.rs` | `groups`, `users_groups` | `create_and_join_group`, `join_group_by_uid`, `update_group`, `leave_group` | a group's last member leaves; tasks of a member who leaves |
| Task query | `src/db/task.rs` 388-541 | none | `get_tasks` (streamed) | a recursive query counts the pending occurrences of an "every" recurrence, up to `RECURRENCE_MAX` |
| Users | `src/db/user.rs` | `users` | an upsert at each request, another one at login | a login that overlaps other requests of the user |
| Transaction wrapper | `src/db/database.rs`, `transaction.rs` | an open transaction | `in_transaction`, `end` | commit on `Ok`, rollback on `Err`, implicit rollback when dropped |
| gRPC service | `src/service/v1.rs` | none; a spawned task and a channel of 10 per stream | one handler per RPC | a slow or gone client of a stream; each request takes a connection twice |
| JWK verification | `src/auth/jwk/` | the key set behind a lock | `verify`, a refresh loop | the loop has to survive failing fetches and stop with its owner |

All state but the keys is in the database. Any number of handlers run at once on
the connections of a pool; they interact through rows and by waiting for a
connection. The interceptors of all connections share the keys with the update
task.

### Client

| Component | Source (`src/client/`) | State | Operations | Hard part |
|---|---|---|---|---|
| Items | `packages/survival_list_repository/` 60-308 | cached map of items, pending fetch, subscription to the user | fetch (a stream), create, update, delete, toggle | optimistic changes and their undo against a fetch that ends later; logout |
| Groups, participants | the same file, 310-515 | cached groups, participants of a group | fetch, create, join, leave, update | the same, and items of a group that was left |
| Authentication | `packages/authentication_repository/` | current user | log in, log out | a request of the old user answered after logout |
| Item forms | `lib/create_item/`, `lib/edit_item/` | form fields, a subscription | field changes, submit | the participants of a group chosen before |
| Group screens | `lib/join_group/` and others | form state | one call of the repository each | a QR code that is scanned many times |
| Schedule | `lib/schedule/` | filter and order | select | a comparison over dates that may be missing |

Views, localisation, generated code and build files keep no state a property
could be about.

### What makes the server correct

* *References*: no column names a row that is gone.
* *Recurrences*: the tasks of a recurrence form one chain, linked by
  `previous_task_id`, ending in `current_task_id`; only its last task may be
  open; history is never lost, except as a whole.
* *Permissions*: what `can_*` allows succeeds, and every open task can be
  completed by somebody.
* *Groups*: whoever is responsible for a group's task is a member; no group is
  without members.
* *Overlap*: requests that run at once do what they would do in turn, and all
  of them end.
* *Values*: what is committed can be read again, on every later day, and means what the
  request meant; a completion fails only for want of a next date; dates move forward; the number of pending occurrences is right.
* *Connections*: every connection comes back to the pool, and a response that
  ends without an error is complete.
* *Keys*: no token of the provider's current key is refused, retired keys are
  forgotten, and the update task ends with the server.

And the client: its list is what the server would send.

## Modules

| Module | What it is |
|---|---|
| `TaskTables` | the columns the server decides on, and each SQL statement and permission as an operator on the tables |
| `SurvivalDb` | the transactions on tasks and groups, one action per transaction that commits, one at a time |
| `RecurrenceHistory` | abstract: a recurrence is a sequence of occurrences that changes only at its end |
| `SurvivalDbHistory` | the refinement mapping from the tables to `RecurrenceHistory` |
| `MCSurvivalDb` | symmetry for TLC |
| `SurvivalDbProofs` | theorems about `SurvivalDb` |
| `SurvivalDbHistoryProofs` | `SurvivalDb` implements `RecurrenceHistory` |
| `TaskTransactions` | the task transactions again, one action per SQL *statement*, interleaved on several connections |
| `MCTaskTransactions` | instances for TLC: which pairs of requests may overlap |
| `TaskTransactionsProofs` | theorems about `TaskTransactions`, with those of `SurvivalDbProofs` for requests that overlap |
| `GroupTransactions` | joins, leaves and the writes that put a task into a group, interleaved in the same way |
| `GroupTransactionsProofs` | theorems about `GroupTransactions` |
| `Calendar` | how Postgres adds an interval to a date |
| `TaskValues` | dates, estimates and frequencies from the request to the row, through completions, and in the count of pending occurrences |
| `MCTaskValues` | the requests and dates for TLC |
| `TaskValuesProofs` | theorems about `TaskValues`, and lemmas about `Calendar` |
| `RequestStreams` | all requests on the pool of connections, and the streams of their responses |
| `RequestStreamsProofs` | theorems about `RequestStreams` |
| `KeyUpdate` | the keys that tokens are verified with, the task that updates them and the interceptors that read them |
| `MCKeyUpdate` | the headers for TLC |
| `KeyUpdateProofs` | theorems about `KeyUpdate` |
| `ItemCache` | the client's list of items, composed with `SurvivalDb` |
| `MCItemCache` | symmetry for TLC |
| `ItemCacheProofs` | theorems about `ItemCache`, on top of `SurvivalDbProofs` |

`TaskTables` is shared: `SurvivalDb`, `TaskTransactions` and `GroupTransactions` are
built from the same statements, so that the two detailed modules differ from
the serial one only in when a statement sees what.

### TaskTables and SurvivalDb

A table is a function from the ids of its live rows to the rows; `users_groups`
is a set of pairs. A task row keeps `responsible`, `group`, `completed`,
`previous` and `recurrence`; a recurrence row keeps its current task. Titles,
dates, estimates, and the kind and frequency of a recurrence are left out: no
branch of a transaction and no constraint that involves two rows depends on
them. `CurrentOf` and `PreviousOf` are the columns `get_task_unchecked` joins to
a task. Note that "previous" is the predecessor of the recurrence's *current*
task, not of the task itself.

| Action | Code |
|---|---|
| `CreateGroup`, `JoinGroup`, `LeaveGroup` | `create_and_join_group`, `join_group_by_uid`, `leave_group` with `unset_task_group_for_responsible` and `delete_group_if_empty` |
| `CreateTask`, `UpdateTask`, `DeleteTask` | the functions of those names; a parameter `r` is `NULL` for a request without recurrence |
| `TogglePlain`, `CompleteCurrent`, `ReopenPrevious` | the three successful arms of the `match` in `toggle_task_completed` |

A request that is refused or fails is rolled back and is a stuttering step.
Foreign key actions (`ON DELETE ...`) are part of the statement that triggers
them: `DeleteRow`, `CascadeRow`, `ClearGroup`; `RESTRICT` is the guard
`~IsPrevious`. `update_group` changes only the title and is a stuttering step.

### TaskTransactions

Each connection runs one request at a time: `Begin`, `Read`
(`get_task_unchecked`, remembered in `seen`), then one action per SQL statement,
then `Commit`. What a transaction decides after `Read` it decides on `seen`;
what a statement does depends on the tables as they are when it runs, that is,
on `Tasks(c)` and `Recs(c)`: the committed rows overlaid with the transaction's
own writes. The rows it wrote (`own`) are its locks. A statement runs when
every row it writes is free, and then re-evaluates its condition on the new
version of the row, as READ COMMITTED does. `unset_recurrence_internal` is two
steps, because it finds its rows with the snapshot of its start and locks them
later: a row inserted in between is not found.

`Drop` is a handler that is dropped, a lost connection or a stopped server: the
transaction disappears with its locks, at any point. `BreakDeadlock` is
Postgres ending one of the transactions that wait for each other. `Fail` is a
statement that finds no row where the code expects one, or violates
`RESTRICT`.

Left out here: groups and changes of the responsible, which are in
`GroupTransactions`, and `create_task` with a recurrence, whose rows nobody can
see before they are committed; it has the effect of `CreateTask` followed by an
update.

### GroupTransactions

The same locks and snapshots, for `join_group_by_uid`, `leave_group`,
`create_task` and `update_task` (without recurrences, which no statement on a
group looks at). A statement that may have to wait takes two steps: `FindTasks`,
`FindMember`, `FindGroup` and `FindTask` remember in `found` what matches in the
snapshot; `UnsetTasks`, `RemoveMember`, `DeleteGroup` and `AssignTask` write, once
`Granted`, the rows that still match. This is where `delete_group_if_empty` goes
wrong: its `NOT EXISTS` is part of the snapshot and is not evaluated again,
because the row of `groups` itself has not changed. `CheckReference` is the check
of a foreign key, which takes a share lock on the row of `groups`; `Cascade` is
what the deletion of a group does to memberships and tasks.

`create_and_join_group` is one step, because nobody sees its rows before they
are committed.

### TaskValues and Calendar

`Calendar` has the part of the Gregorian calendar that `date + interval` needs: the
months are added first and stop at the end of the month, then the days.
`Adds` says whether Postgres finds the sum, or ends the statement with "timestamp out of
range" (`LastTimestamp`).

`TaskValues` follows one task, and the occurrences that were completed before it
(`past`). `Write` is what `create_task` and `update_task` have in common: the
request is converted (`Accepted`; a date must be one that `time::Date` and a column
hold, `IsDate`, which ends with the year 9999), stored (`Stored`) and read again for the
answer (`Readable`), before the commit. An update with a frequency changes it for the past
occurrences too, which share the row of the recurrence; one without lets go of them (`Joined`).
`Complete` does what `create_next_recurrence_internal` does to the dates, and `Reopen` takes
the last completion back. Both read every task that their answer mentions;
if a sum or a reading fails, the request rolls back, which is no step.

`Occurrences`, `Depths` and `Count` are the recursive query of `get_tasks` and
`get_task_unchecked`, as a recursive function. `Computes` says that no sum in it is out
of range: it adds the frequency to the anchor of each depth but the last, and to both dates
where it goes on. `Loads` is `get_task_unchecked` ending without an error, and
`Readable` also makes the result a task.

In the run an hour has three minutes and the
largest integer is 4, so that every carry and every overflow happens; the
calendar ends soon, so that every date can run out of it.

### RequestStreams

A call is `Call`ed, waits for a connection (`Acquire`), upserts its user (`Upsert`,
`Login`), gives the connection back, and waits for a second one, for its
transaction (`Transact`) or, in a spawned task, for its query (`Query`). The task
then loops: `Fetch` a row, `Send` it into the channel, wait while that is full;
the client takes rows out (`ReceiveRow`), stops at the first error
(`ReceiveFailure`), sees the end (`SeeEnd`), reads no further (`Stall`) or goes
away (`Leave`). `Panic` is `send().await.unwrap()` once the receiver is gone. Every
wait for a connection can time out, every statement can fail.

`get_tasks`, `get_groups` and `get_group_participants` have the same loop; the map
names a different one of them for each of its steps.

### KeyUpdate

Time passes in ticks. The provider (external) publishes a key `Lead` ticks before
it signs with it and answers with the keys of the moment. `Check`, `Cancel`,
`Receive`, `FetchFails`, `StoreKeys` and `Wake` are the update task: `select!` drops
`key_update` wherever it is when the exit signal comes, and `StoreKeys` needs the
write lock. A handle is one clone of `AuthImpl`: `Call`, `Lock` and `Answer` are a
verification, `DropHandle` ends a connection and, for the last one, sends the
signal. `Validity` is `get_max_age`.

### ItemCache

The server side is `SurvivalDb` itself: `Execute` takes one of its transactions
and remembers the answer, that is, the items which the response of the handler
describes, as the tables are after the transaction. The client side is the
repository: `Refresh`, `Query`, `FetchDone` and `FetchFails` are a fetch; `CreateItem`,
`UpdateItem`, `ToggleItem` and `DeleteItem` change the list at once and send the
request; `Receive` puts the answer into the list (that of a deletion is ignored, its
item is gone already), `Undo` puts back the item as it was. `Refuse` is any failure before the commit, `LoseAnswer` one after it,
`Elsewhere` another device of the same user. Nothing is cancelled by `Logout`.

`misses` is a history variable. It is set or counted up when something happens that the
answers cannot tell the client: a write that overlaps another write or a fetch,
a lost answer, a write from elsewhere, the end of a recurrence that has past
occurrences (they can be updated again, and no answer says so). A fetch that
starts with no write under way sets it to zero. `CacheAgrees` says that all other
behaviour leaves the list right; in the counted cases it may be wrong until the next
fetch, and the code has nothing against that.

## Runs

All runs are exhaustive.

| Run | Checks | Bounds | Result |
|---|---|---|---|
| `tables` | `TypeOK`, `References`, `ResponsibleInGroup`, `GroupsInhabited`, `RecurrenceIsChain`, `PastIsCompleted`, `DeletableIsUnreferenced`, `OpenCanBeCompleted`, `PastIsKept`, `MovesOneOccurrence`, `ImplementsHistory` | 3 users, 1 group, 4 tasks, 2 recurrences | holds |
| `overlap` | `TypeOK`, `References`, `EveryRequestEnds` of `TaskTransactions` | 2 connections, 2 tasks, 1 recurrence, any two requests at once | holds |
| `overlap_serial` | `ImplementsSerial` | 2 connections, 4 tasks, 2 recurrences, the pairs of `SerialOverlaps` | holds |
| `group` | `TypeOK`, `References`, `GroupsInhabited`, `ResponsibleInGroup`, `EveryRequestEnds` of `GroupTransactions` | 2 users, 1 group, 1 task, 2 connections | holds |
| `values` | `CommittedIsReadable`, `AnswerMeansRequest`, `CanComplete`, `PendingIsTrue`, `MovesOn`, `KeepsLength` | see below | holds |
| `streams` | `TypeOK`, `NoConnectionLost`, `CleanEndIsComplete`, `NameIsKept`, `CallsEnd`, `LeaverFreesConnection` | 2 calls, 1 connection, a channel of 1, 2 rows, 1 user | holds |
| `keys` | `TypeOK`, `CurrentKeyAccepted`, `UpdatedWhileServing`, `TaskStops`, `RetiredKeyForgotten`, `VerificationEnds` | 2 keys, 2 connections, 1 failure in a row, 4 headers | holds |
| `cache` | `CacheTypeOK`, `CacheAgrees` | 1 user, 3 tasks, 1 recurrence, 2 requests at once, `MaxMisses` 1 | holds |
| `toggle_unexpected`, `reopen_refused`, `complete_twice`, `join_lost` | one property each | the smallest that shows it | violated, see below |

*Why the bounds are enough to be interesting.*

* `tables`: a chain of four tasks has a first, a middle, a previous and a current
  occurrence, all of which the code treats differently; two recurrences can be
  mixed up; three users in and out of a group let it survive a departure while
  a responsible outside it exists. `SurvivalDb` reuses ids of deleted rows,
  which changes nothing because nothing outlives a row there.
* `overlap`, `overlap_serial`, `group`: two connections produce every order of two
  transactions, any number of times. Two tasks are enough to lock rows in
  opposite orders, so that `BreakDeadlock` is needed; more are what a second
  completion inserts. `RoomForTask` and `RoomForRec` keep a request from starting
  that could run out of ids, and an id is reused only when no transaction
  remembers it; the serial columns never repeat one.
* `values`: all estimates over -1 to 4, and start and end dates, or none, at the ends
  of January and February 2024, a leap year, with frequencies of a day, a month, a
  month and a day, a year, thirteen, twenty-nine and thirty months. The last two are too
  large in a calendar of dates that ends in March 2025: completions fail for want of a next date,
  and the sum of an "every" recurrence is beyond the last timestamp for some dates and not
  for others, so that some creations fail. `LastTimestamp` is the least that
  `RangeAssumption` allows. Two days pass, and at most one completed occurrence is
  kept (`MaxPast`), which is enough for one whose frequency is changed by an update. `RECURRENCE_MAX`
  is 5, so that daily tasks reach and pass it.
* `streams`: one connection for two calls is the case in which holding one while
  waiting for another blocks for ever; two rows and a channel of one let it
  fill up with a row still to come.
* `keys`: `Lead` is the least that `TimeAssumption` allows for the headers: a pause
  after a failure that is as long as `Fallback` already breaks `CurrentKeyAccepted`,
  which is its mutant. The headers are one with max-age in second place, a
  zero, one that is no number, and none.
* `cache`: three tasks are a former previous, a previous and a current one; two
  requests overlap each other and a fetch. `MaxMisses` bounds how many
  unseen changes come between two fetches; after the first one
  `CacheAgrees` claims nothing until a fetch.

*Symmetry.* Ids, users, connections and slots that `Init` and `Next` do not mention by
name are interchangeable. Symmetry sets are used in `tables`, `overlap_serial` and
`cache`, which check no liveness.

*Deadlock* is checked in all runs but `keys`, whose system stops: after the
last connection, or after a first fetch that failed, nothing is left to do once
the provider rests.

*Fairness.* In `TaskTransactions` and `GroupTransactions` strong fairness of each
transaction's next statement and weak fairness of `BreakDeadlock`. Strong,
because a row that a statement waits for may be taken by others in between;
Postgres grants a lock in the order of its queue, so that nobody is passed over
for ever, and the tokio runtime polls every handler that is ready. Deadlock
detection is on by default. In `RequestStreams` strong fairness of `Connect`, since
sqlx's pool serves those who wait in turn; weak fairness of the handlers, tasks and
clients that do not stall. Timeouts are possible and nobody counts on them. In `KeyUpdate`
weak fairness of the task, of time and of the provider's answer, and strong fairness of
`Lock`, because tokio's lock is fair. Nothing is assumed of new requests, of a handler
that is dropped, of clients that leave and of connections that close.

*What some properties assume.* `CallsEnd` does not count calls whose
client stalls, and asks that stalled clients do not hold all connections: HTTP/2
has no timeout for them in this server. `GroupsInhabited` of `GroupTransactions` is about leaves
that do not overlap: two at once break it, because each sees the other's
membership. `ResponsibleInGroup` leaves out a leave that meets a write that puts a task
into the group in the leaver's name: it does not see the task. Both exceptions
are races of the code, known and stated where no comment or test says
otherwise.

*Refinement.* `ImplementsHistory` maps the tables to sequences by reading each
recurrence backwards from its current task; the abstract specification then
says that occurrences come and go only at the end. `ImplementsSerial` maps
`TaskTransactions` to `SurvivalDb` by forgetting the open transactions: every
commit must be one of its actions, on the tables of that moment, or a stutter.
It holds for the pairs in `SerialOverlaps`. All pairs of one request type with
another were tried; these pairs are not serial even alone: complete with
complete (`complete_twice`), complete with update (an update reads the current
task, waits while another request completes it, and then writes the completed
occurrence, which `can_update` forbids), complete with delete, reopen with
update, repeat with repeat (both insert a recurrence). Reopen with reopen and
with delete hold alone, but not together with complete and reopen: a reopen of
the first occurrence remembers the second as current; if that one is completed,
and reopened again, the first request finds no recurrence to move back and then
deletes the second occurrence, whose recurrence goes with it.

## What the runs found

* `toggle_unexpected`: `update_task` may give a *completed* task a recurrence.
  The task is then both current and completed, `can_toggle` says it may be
  toggled (`src/server/src/db/task.rs:91-110`), and `toggle_task_completed`
  answers "Unexpected task state" (line 791).
* `reopen_refused`: reopening the previous task deletes the current one with the
  viewer's permission on *that* task; if it has been moved out of the group,
  a member whom `can_toggle` allows to reopen is refused.
* `complete_twice`: two requests complete the same current task. The second
  waits for the first one's row lock, then inserts a second next task. The
  first one's next task is left behind: it is neither current nor previous, so
  no one can toggle, update or delete it.
* `join_lost`: the last member leaves while somebody joins. `delete_group_if_empty`
  does not see the new membership, waits for the join's share lock on the group, and
  then deletes the group; the cascade removes the membership, whose join has been
  answered.

## Proofs

The theorems hold for all values of the constants that satisfy the named
assumptions.

| Module | Theorem | Establishes |
|---|---|---|
| `SurvivalDbProofs` | `TypeCorrect` | `[]TypeOK` |
| | `ReferencesAreLive` | `[]References` |
| | `RecurrencesAreChains` | `[]RecurrenceIsChain` |
| | `PastOccurrencesCompleted` | `[]PastIsCompleted` |
| | `DeletableTasksUnreferenced` | `[]DeletableIsUnreferenced` |
| | `OpenTasksCompletable` | `[]OpenCanBeCompleted` |
| | `ResponsibleIsMember` | `[]ResponsibleInGroup` |
| | `NoEmptyGroups` | `[]GroupsInhabited` |
| | `HistoryIsKept` | `PastIsKept` |
| | `RecurrenceMovesOneOccurrence` | `MovesOneOccurrence` |
| `SurvivalDbHistoryProofs` | `HistoryImplemented` | `ImplementsHistory` |
| `TaskTransactionsProofs` | `ReferencesHold` | `[]References` |
| | `TypeCorrect` | `[]TypeOK` |
| | `SerialImplemented` | `ImplementsSerial`, for any `Overlaps` within `SerialOverlaps` |
| | `OverlapsKeepRecurrences` | for these, what `SurvivalDbProofs` proves of recurrences |
| | `OneTaskFollows` | for these, `[]OneNextTask`, which `complete_twice` violates |
| `GroupTransactionsProofs` | `ReferencesHold` | `[]References` |
| | `TypeCorrect` | `[]TypeOK` |
| | `ResponsibleHolds` | `ResponsibleInGroup` |
| | `InhabitedHolds` | `GroupsInhabited` |
| `TaskValuesProofs` | `ReadableHolds` | `[]CommittedIsReadable` |
| | `CompletionHolds` | `[]CanComplete` |
| | `AnswersHold` | `[]AnswerMeansRequest` |
| | `MovesOnHolds` | `MovesOn` |
| | `KeepsLengthHolds` | `KeepsLength` |
| | `PendingHolds` | `[]PendingIsTrue` |
| `ItemCacheProofs` | `ServerImplemented` | `CacheSpec => Spec` of `SurvivalDb` |
| | `CacheTypeCorrect` | `[]CacheTypeOK` |
| | `CacheIsInStep` | `[]CacheAgrees` |
| `KeyUpdateProofs` | `TypeCorrect` | `[]TypeOK` |
| | `TaskOutlivesConnections` | `[]UpdatedWhileServing` |
| | `CurrentKeyIsAccepted` | `[]CurrentKeyAccepted` |
| `RequestStreamsProofs` | `ConnectionsAreKept` | `[]NoConnectionLost` |
| | `NamesAreKept` | `NameIsKept` |
| | `CleanEndsAreComplete` | `[]CleanEndIsComplete` |
| | `TypeCorrect` | `[]TypeOK` |

### SurvivalDb

For all sets of users, groups, tasks and recurrences, finite or not. The only
assumption is `NullAssumption`: `NULL` is not an id.

*The argument.* `TypeOK` is inductive by itself. The properties of recurrences are
not: that a chain does not branch when `toggle_task_completed` appends to it
needs that no task follows the current one, which needs that deleting the current
task leaves its predecessor without a successor, which needs that it had only
one. `ChainInv` is their conjunction, `TypeOK`, `References`, `CurrentIsLast`,
`OneSuccessor`, `NoCycle` and `PastIsCompleted`, and is inductive.
`PastIsCompleted` must be part of it because `ReopenPrevious` makes a past
occurrence current. `GroupInv` adds `ResponsibleInGroup` and `GroupsInhabited`;
it needs `ChainInv` because completing a task copies its responsible and group
to the next one. The two action properties and the invariants on permissions
follow from `ChainInv`.

*The layout.* First, one typing lemma per SQL statement and per action. Then one
*effect* lemma per action that says what it does to the chains in a few
predicates (`SameChain`, `Starts`, `NewOccurrence`, `MovesTo`, `Dissolves`, ...).
Then lemmas that say which of these effects keep chains, and at the end one lemma
per action and invariant, and the theorems.

### SurvivalDbHistory

From `NullAssumption` as well. The mapping reads the rows of a recurrence backwards with the
recursive function `Occurrences`. What it yields for a given table would need an
induction over the rows; the invariant `OccurrencesRead` avoids it. It says that the
equation which defines `Occurrences` has exactly one solution for the tables of this state
(`ReadsOnly`), and that every sequence ends in its task and links each row to the one before
(`LeadsTo`). Both hold of empty tables, and a step changes a few rows: `Keeps` says which
rows stay as they are, together with all rows before them, and `ReadAfter` is then the one
solution after the step (`OccurrencesAfter`). `AddRow`, `TakeRow` and `DissolveRows` are its three
instances. The lemmas `RecurrenceBegins`, `RecurrenceAdvances`, `RecurrenceUndone` and
`RecurrenceEnds` then match the transactions to the abstract actions, from `ChainInv` and the
effects proved for `SurvivalDb`.

### TaskTransactions

For any number of connections, users, tasks and recurrences and any `Overlaps`, from
`NullAssumption` and `RowAssumption`: `NULL` is neither a row nor a request nor what a
request has read. `SerialImplemented` has the hypothesis `Overlaps \subseteq SerialOverlaps`,
since the other pairs are not serial (see *Refinement* above).

*The argument.* Each transaction sees tables of its own, the committed ones
with its rows in place of theirs. `Inv` says that the references are live in what *every* transaction
sees (`Refs`), not only in what is committed; so a commit makes tables
committed that are known to be sound. The hard case is what another transaction sees
after the commit, a combination that neither had seen. `Covered` settles it: a row
that a transaction wrote refers to a row it wrote as well, or to what the row
referred to before. So if one transaction deletes the row that the other refers to, then either
both wrote the deleted row, or the referring row was there before, and then the
deletion has seen it. `Excludes`, that a row has one writer, rules out the first.

*The layout.* `OverlayWritten` says what a transaction sees after a statement; one
lemma per statement says what it does to the tables it sees; `ExecuteKeeps` reduces every
statement that writes to that lemma and to the locks it waits for (`Locked`). `CommitFits`
is the hard case above; `CreateTaskKeeps` uses it too.

*Serial execution.* `SerialImplemented` is a refinement proof: a step of `TaskTransactions`
is a commit, whose tables have to be those of one action of `SurvivalDb` (or unchanged), or
changes no committed row. The invariant that it needs next to `Inv` is `SInv`. It has four
parts.

* `Knows`, with one predicate per kind of request (`CompleteKnows`, ..., `DeleteKnows`): what
  is still true of the committed tables of what the request has read, and which rows it
  has written so far (`Owns`), as a function of the tables as they are *now* and not as they were
  when it read. It also says how a request that was overtaken will end: a reopen whose current task has
  been completed meanwhile still has it as a predecessor, and so fails when it deletes it.
* `Unknown`: the rows that a transaction inserts are none that another request has read or is
  about. So what a request knows of its own rows is not about new ones.
* `Sound`: the committed rows agree among themselves; a recurrence is that of its current task, and
  its tasks have one responsible user.
* `Apart`: the requests that run are pairs of `SerialOverlaps`.

The permission to act needs no part of `SInv` of its own: without groups it depends on the
responsible user and on the position in the recurrence, which `Knows` has.

*Its layout.* One lemma per statement (`ReadKnows`, `SetKnows`, ...) says what the request
knows after it; `ExecuteKnows` and `QuietKnows` reduce them to the connection that takes the step. One
lemma per kind of commit (`SetLeaves`, `NextLeaves`, ...) says what it changes in the committed tables,
in the terms of `BesideComplete`, `BesideReopen`, `BesideRepeat` and `BesideDissolve`: the
changes that a request of that kind survives, by `BesideKnows`. These four and `Overlapping` are
where `SerialOverlaps` comes in: a completion does not leave a table that is `BesideComplete`, so two
of them may not overlap. One lemma per action of `SurvivalDb` (`SerialPlain`, `SerialComplete`, ...)
says that what the request knows at its commit is the guard of that action and that
its view is the result; `CommitComplete` to `CommitDelete` put the three together.

*What follows.* `Alone` is an instance of `SurvivalDbProofs`, so its theorems apply to the committed
tables of requests that overlap (`OverlapsKeepRecurrences`): chains, past occurrences, permissions, and the
two action properties. Its `OneSuccessor` gives `OneTaskFollows`, the counterpart of
`complete_twice`, whose two completions are not a pair of `SerialOverlaps`.

### GroupTransactions

For any number of users, groups and tasks, from `NullAssumption`, `JobAssumption`
(`NULL` is not a request) and `PoolAssumption`: the pool is finite, which only
`InhabitedHolds` needs, to turn a count of leaves into "no two of them".

*The argument.* `References` is about what is committed, so the invariant `Inv` has
to say of everything that is not committed yet why its commit will not break it.
`Covered`: a written row refers to no group, to a group whose row its
transaction shares, to the group it referred to before, or to one whose
foreign key is still to be checked. `Cleared`: a transaction that is about to
delete a group has written every committed row that refers to it. `Excludes`: a
row has one writer, and who deletes a group excludes who shares it. A commit of
one connection must keep all three for the others: the rows that it adds to a group that another
deletes would have to be shared, which `Excludes` forbids, or to have been in it before,
and then the other has written them, which `Excludes` forbids as well. `Flow` says which
writes are possible at which step; `TypeOK` follows from it and `Excludes`.

*The layout.* `Inv` says the same of every connection (`Fits`) and of every pair,
so a step is reduced to the connection that takes it (`StepKeeps`), then to
the kinds of step (`RollbackKeeps`, `FindKeeps`, `WriteKeeps`), then one lemma per
action. `CommitKeeps` and `CreateGroupKeeps` are the only ones that change tables.

*The two conditional properties.* `ResponsibleInGroup` and `GroupsInhabited` say `[]A => []B`,
where `A` says which requests may not overlap. Three more invariants are added
on top of `Inv`. `Roles` (`Plays`) says which request is at which step, and with which
locks; it holds without condition. `Assigned` (`Keeps`) says what
a transaction may count on until its commit: a writer's responsible is still a
member, unless the group is gone, and a leave has released every task that it owes
(`Owed`). `Inhabited` (`Stays`) says that a leave that keeps its group leaves
somebody in it. Each is kept by a step under `A` alone, so that the theorems follow with no
history of the overlaps. `Continues` does all three for the connection that takes a step;
`CommitRoles`, `CommitAssigned` and `CommitInhabited` do the others.

### TaskValues

For any set of requests with any integers as days, months, hours and minutes, any first and
last date, any `MaxInt`, any length of an hour and any number of past occurrences, from three
assumptions. `ValuesAssumption`: the three parameters are positive. `RequestAssumption`: requests
are well typed, and `NULL` is none of their values. `RangeAssumption`: today
is a date, and timestamps go on, after the last date, for longer than there are dates; they
reach the year 294276, dates 9999.

*The argument.* `Inv` says of the row, and of all past occurrences, that their dates are
dates, the estimate fits and the frequency is valid (`Kept`); that the row's first sum
exists (`Summable`); and that the last answer is what the row stores. It is inductive:
`Write` reads the row back, and what `Complete` inserts as well. That `Summable` is enough for the
row to be readable on every later day, when the query goes deeper, is `EveryComputes`: a
depth is reached only if it starts today or before, so its start is a date, and what
moved one date to another can be added to it once more, but for the days by which months
differ (`LagGrows` bounds what they add to the length of a task). `RangeAssumption` has room for that.
`AddsEarlier` carries a sum from a date to all earlier ones, and so from the
current occurrence to those before it.

*What is excluded.* Nothing puts past occurrences before the current one: the user may
move the current one to an earlier date. Then an update may choose a frequency that can be added to
the current dates and not to those of a past occurrence, which `update_task` does not
read. As soon as it has, `get_tasks` fails for everybody who sees that occurrence,
and so does toggling it, or completing the current one. Both `CommittedIsReadable` and `CanComplete`
therefore ask, of "every" recurrences, that an occurrence is `InOrder`, not after the
current one; it is wrong in the code otherwise. It takes a frequency of hundreds of thousands of years.

The other theorems are about
one step, and rest on the calendar: `MonthBounds` puts the first day of a month
between two linear bounds, from which `MonthOfDate` (the month of a date is the one that
contains it) and the order of months follow; `SpanInYear` and `SpansOfAnyLength` bound by how many
days spans of equally many months differ; `AddMonthsRises` says that adding months keeps the
order of dates, which is what keeps an occurrence's end after its start,
though a month's end may be cut off; `MovesDiffer` puts them together.

*The count of pending occurrences.* `PendingIsTrue` compares two recursive functions, what
the query of `get_tasks` walks through and what completions would show. That they are
the same up to the last depth of the query, for any `RECURRENCE_MAX`, is an induction over the depths (`Iteration`,
`IterationIsUnique`). The library's induction theorems take a predicate as a parameter, which
the provers cannot instantiate; the lemma `Smallest`, that every set of numbers has a
smallest member, follows from its theorem on the order of finite sets, which has none, and
`UpTo` is the induction. Dates never move back (`ReachedBefore`), so the occurrences that
are counted are the first ones, and `CutOff` compares the two counts: below
`RECURRENCE_MAX` they are equal, from there on the query's is a lower bound.

*What the proofs corrected.* Stating `KeepsLength` for every frequency showed that
three days, right up to a year, is too little for longer spans, for which the
theorem has nine. And the estimate that `Calendar` starts its search for the month of a
date from was too coarse for dates far away.

### ItemCache

For any number of items, recurrences and requests at once, from `NullAssumption`,
`ViewerAssumption` (one user), `BoundAssumption` and `RecordAssumption`: `NULL` and
`Failure` are no lists, answers or requests.

*The server.* `ServerImplemented`: every step of the composed system is one of
`SurvivalDb` or leaves the tables alone. So `ChainInv` holds here too, and with it the
lemmas about the effects of each transaction.

*The client.* `CacheAgrees` speaks of the moments with nothing under way. Its invariant
`CacheInv` must say what is known in between: as long as `misses` is zero (`InStep`),
either a fetch is pending, which will bring the tables as they are (or
fail, or has not read them yet); or nothing is under way and the list is right; or exactly one request
is under way, and then undoing it gives the right list as long as it was not
carried out, and applying its answer does after that (`Known`). The
heart is `AnswerLeadsOn`: if the answer tells all that the transaction changed
(`Tells`), the list before it leads to the list after it. That every answer does is one lemma
per transaction (`CreateDescribed` to `ReopenDescribed`): which items, with which flags, a transaction
can affect. A completion, for instance, changes the flags of the completed task, of the next
one and of the former previous one, and of no other.

*A strengthening.* An update or a deletion that ends a recurrence without a
previous occurrence must not change any other task. `ChainInv` does not say so: with
infinitely many tasks, tasks that only lead back to each other, without a first one, would satisfy it. `ChainEnds`, that
every set of tasks has one that no other of the set comes after, is inductive and
rules that out (`FirstIsAlone`).

### KeyUpdate

From `TimeAssumption`: a key is published longer ahead than the validity of any
header, two fetches and all retries take together. `CurrentKeyAccepted` speaks of the
key that is signed with now; the invariant `KeyInv` must speak of every published
key. Either the verifier has it, or the time until the task next stores keys is less than
`ripe`, the time until the provider may sign with it (`KeysInTime`). An answer
that is under way may lack a key too, if the store after it is in time
(`ResponseInTime`); this is why a fetch counts twice. `Slack` is the time that the failures still
allowed may take; the lemma `SlackStep` says that a failure uses up exactly one
retry and one fetch of it. `ExitInv` says that the signal is sent, and the task
stops, only with the last handle.

### RequestStreams

For any finite set of calls, any size of the pool and the channel, and any
number of rows. `ConnectionInv` counts the calls that hold a connection; the
lemmas `Takes`, `Returns`, `Keeps` and `Stays` say what taking, returning,
keeping and ignoring one does to the count, and each action is an instance of one of them. `NamesAreKept`
needs of it only that `pc` is defined for every call.

`CleanEndIsComplete` speaks of the end of a response; `RowsInv` says of every stream
that what the client has got, what is in the channel and what is still to come
are together the rows of the query, unless an error is still to come. `OneCall` reduces a step
to the call that takes it. `TypeCorrect` takes the bound on `free` from the count of
connections, the length of a channel from `ChannelInv`, and the rest from `UserInv` and
`CallsInv`: a call that is under way has its request.

*Only model-checked.* Every safety invariant, action property and refinement of the passing
runs is the subject of a theorem. What is left is liveness under fairness, which the
prover cannot do: `EveryRequestEnds`, `CallsEnd`, `LeaverFreesConnection`, `TaskStops`,
`VerificationEnds` and `RetiredKeyForgotten`.

## Not modelled

* The client's groups and participants, its forms and its group screens. The cache
  of groups takes the same steps as that of items, without toggles. The
  subscriptions of a form to the participants of groups chosen before are listed
  as hazards in `PROJECT.json`.
* Items of a client that belong to a group, or have been completed for more than a
  day: `ItemCache` has one user, and no items that `get_tasks` hides.
* The filter and order of the schedule, settings, views, localisation: functions of the
  state for display.
* `update_group`, titles and pictures: plain values that are stored and read.
* The verification of a token beyond the lookup of its key, which reads no state.
* Start and shutdown of the server: a fixed order of calls. A server that stops
  is a handler that is dropped, at every statement of the transaction modules.
* Generated code, the Android shell, CI.

Worth doing next: the cache of participants with a form on top of it.
