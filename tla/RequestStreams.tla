--------------------------- MODULE RequestStreams ---------------------------
(***************************************************************************)
(* The requests of all clients (src/server/src/service/v1.rs) on the pool  *)
(* of database connections.  A request first upserts its user.  Then a     *)
(* write runs a transaction; get_tasks, get_groups and                     *)
(* get_group_participants spawn a task that queries and sends the rows     *)
(* through a channel to the response, which the client reads or abandons.  *)
(*                                                                         *)
(* sqlx opens no more than PoolSize connections; a request that waits for  *)
(* one is served in turn, or fails after a timeout.                        *)
(***************************************************************************)
EXTENDS Naturals, FiniteSets, Sequences

CONSTANTS
    Calls,      \* the calls that may be under way at once
    Uids,       \* users, as the authentication names them
    Names,      \* that users log in with
    PoolSize,   \* max_connections of the pool: 10 by default
    Capacity,   \* of mpsc::channel: 10 in the code
    MaxRows,    \* bound on the rows of a query
    Unknown,    \* the name '?', also of a login without a name
    Failure,    \* an item that is an error
    NULL

ASSUME StreamAssumption ==
    /\ IsFiniteSet(Calls)
    /\ {PoolSize, Capacity} \subseteq Nat \ {0}
    /\ MaxRows \in Nat
    /\ Unknown \notin Names
    /\ Failure \notin Nat

Kinds == {"login", "write", "stream"}

VARIABLES
    users,     \* uid -> name, of the rows in the users table
    free,      \* connections that the pool can still hand out
    call,      \* call -> [kind, uid, name] of its request
    pc,        \* call -> where its handler, or its spawned task, is
    stream,    \* call -> the rows of its query, those still to come, the
               \* items in its channel, and the rows the client has got
    open,      \* calls whose client has not left nor seen the end
    stalled    \* those whose client does not read on

vars == <<users, free, call, pc, stream, open, stalled>>

Stream(asked) == [asked |-> asked, rows |-> asked, channel |-> << >>, got |-> << >>]

Holds(c) == pc[c] \in {"upsert", "transaction", "fetch", "send"}

Go(c, next) == pc' = [pc EXCEPT ![c] = next]

\* The call goes on without a connection.
Release(c, next) ==
    /\ Go(c, next)
    /\ free' = IF Holds(c) THEN free + 1 ELSE free
    /\ UNCHANGED <<call, stream, open, stalled>>

\* Nothing is left of the call.
End(c) ==
    /\ Go(c, "idle")
    /\ free' = IF Holds(c) THEN free + 1 ELSE free
    /\ call' = [call EXCEPT ![c] = NULL]
    /\ stream' = [stream EXCEPT ![c] = Stream(<< >>)]
    /\ open' = open \ {c} /\ stalled' = stalled \ {c}

\* The client drops the response, and the receiver with it.
DropReceiver(c) ==
    /\ open' = open \ {c} /\ stalled' = stalled \ {c}
    /\ stream' = [stream EXCEPT ![c] = [Stream(<< >>) EXCEPT !.rows = stream[c].rows]]
    /\ UNCHANGED <<users, free, call, pc>>

-----------------------------------------------------------------------------
(* The handlers                                                            *)

Call(c, request) ==
    /\ pc[c] = "idle"
    /\ call' = [call EXCEPT ![c] = request]
    /\ open' = open \cup {c}
    /\ Go(c, "user")
    /\ UNCHANGED <<users, free, stream, stalled>>

\* PgPool::acquire
Acquire(c) ==
    /\ free > 0
    /\ free' = free - 1
    /\ \/ pc[c] = "user"  /\ Go(c, "upsert")
       \/ pc[c] = "begin" /\ Go(c, "transaction")
    /\ UNCHANGED <<users, call, stream, open, stalled>>

\* Mutant: an existing user gets the name of the row that was to be inserted.
UpsertName(uid) == [u \in DOMAIN users \cup {uid} |-> IF u = uid THEN Unknown ELSE users[u]]

\* An existing row keeps its name.
UpsertUserId(uid) ==
    [u \in DOMAIN users \cup {uid} |-> IF u \in DOMAIN users THEN users[u] ELSE Unknown]

UpsertUser(uid, name) ==
    [u \in DOMAIN users \cup {uid} |-> IF u = uid THEN name ELSE users[u]]

\* Mutant: the connection of the upsert stays with the handler.
UpsertAndKeep(c) ==
    /\ pc[c] = "upsert"
    /\ users' = UpsertUserId(call[c].uid)
    /\ call[c].kind # "login"
    /\ Go(c, IF call[c].kind = "write" THEN "begin" ELSE "query")
    /\ UNCHANGED <<free, call, stream, open, stalled>>

\* get_user_id of a write or a stream
Upsert(c) ==
    /\ pc[c] = "upsert"
    /\ call[c].kind # "login"
    /\ users' = UpsertUserId(call[c].uid)
    /\ Release(c, IF call[c].kind = "write" THEN "begin" ELSE "query")

Login(c) ==
    /\ pc[c] = "upsert"
    /\ call[c].kind = "login"
    /\ users' = UpsertUser(call[c].uid, call[c].name)
    /\ End(c)

\* A transaction ends, with its result or with an error.
Transact(c) == pc[c] = "transaction" /\ End(c) /\ UNCHANGED users

\* The statement fails.
UpsertFails(c) == pc[c] = "upsert" /\ End(c) /\ UNCHANGED users

\* PoolTimedOut, in the handler.
Timeout(c) == pc[c] \in {"user", "begin"} /\ End(c) /\ UNCHANGED users

-----------------------------------------------------------------------------
(* The spawned task                                                        *)

\* The query sees n rows; the one at `bad` cannot be converted.
Query(c, n, bad) ==
    /\ pc[c] = "query"
    /\ free > 0
    /\ free' = free - 1
    /\ stream' = [stream EXCEPT ![c] = Stream([i \in 1 .. n |-> IF i = bad THEN Failure ELSE i])]
    /\ Go(c, "fetch")
    /\ UNCHANGED <<users, call, open, stalled>>

Fetch(c) ==
    /\ pc[c] = "fetch"
    /\ stream[c].rows # << >>
    /\ Go(c, "send")
    /\ UNCHANGED <<users, free, call, stream, open, stalled>>

\* PoolTimedOut, as the only item of the stream.
StreamTimeout(c) ==
    /\ pc[c] = "query"
    /\ stream' = [stream EXCEPT ![c] = Stream(<<Failure>>)]
    /\ Go(c, "last")
    /\ UNCHANGED <<users, free, call, open, stalled>>

\* The connection is lost: the stream of rows ends with an error.
StreamFails(c) ==
    /\ pc[c] = "fetch"
    /\ stream' = [stream EXCEPT ![c].rows = <<Failure>>]
    /\ Go(c, "last")
    /\ free' = free + 1
    /\ UNCHANGED <<users, call, open, stalled>>

\* The last row has been sent; the sender of the channel is dropped.
Finish(c) ==
    /\ pc[c] = "fetch"
    /\ stream[c].rows = << >>
    /\ IF c \in open THEN Release(c, "closed") ELSE End(c)
    /\ UNCHANGED users

\* Mutant: try_send, which drops the row when the channel is full.
SendOrDrop(c) ==
    /\ pc[c] \in {"send", "last"}
    /\ c \in open
    /\ stream' = [stream EXCEPT
           ![c].channel = IF Len(@) < Capacity THEN Append(@, Head(stream[c].rows)) ELSE @,
           ![c].rows = Tail(@)]
    /\ Go(c, IF pc[c] = "send" THEN "fetch" ELSE "closed")
    /\ UNCHANGED <<users, free, call, open, stalled>>

\* Mutant: the channel is unbounded.
SendAtOnce(c) ==
    /\ pc[c] \in {"send", "last"}
    /\ c \in open
    /\ stream' = [stream EXCEPT ![c].channel = Append(@, Head(stream[c].rows)), ![c].rows = Tail(@)]
    /\ Go(c, IF pc[c] = "send" THEN "fetch" ELSE "closed")
    /\ UNCHANGED <<users, free, call, open, stalled>>

\* send().await: there is room in the channel.
Send(c) ==
    /\ pc[c] \in {"send", "last"}
    /\ c \in open
    /\ Len(stream[c].channel) < Capacity
    /\ stream' = [stream EXCEPT ![c].channel = Append(@, Head(stream[c].rows)), ![c].rows = Tail(@)]
    /\ Go(c, IF pc[c] = "send" THEN "fetch" ELSE "closed")
    /\ UNCHANGED <<users, free, call, open, stalled>>

\* Mutant: the panic takes the connection with it.
PanicAndLeak(c) ==
    /\ pc[c] \in {"send", "last"}
    /\ c \notin open
    /\ Go(c, "idle")
    /\ UNCHANGED <<users, free, call, stream, open, stalled>>

\* Mutant: the task does not notice that the receiver is gone.
PanicNever(c) ==
    /\ pc[c] = "last"
    /\ c \notin open
    /\ End(c)
    /\ UNCHANGED users

\* send().await.unwrap() when the receiver is gone: the task unwinds, and
\* the stream of the query gives its connection back.
Panic(c) ==
    /\ pc[c] \in {"send", "last"}
    /\ c \notin open
    /\ End(c)
    /\ UNCHANGED users

-----------------------------------------------------------------------------
(* The client                                                              *)

InStream(c) == pc[c] \in {"fetch", "send", "last", "closed"}

ReceiveRow(c) ==
    LET item == Head(stream[c].channel) IN
    /\ c \in open \ stalled
    /\ stream[c].channel # << >>
    /\ item # Failure
    /\ stream' = [stream EXCEPT ![c].channel = Tail(@), ![c].got = Append(@, item)]
    /\ UNCHANGED <<users, free, call, pc, open, stalled>>

\* The response ends with the first error.
ReceiveFailure(c) ==
    /\ c \in open \ stalled
    /\ stream[c].channel # << >>
    /\ Head(stream[c].channel) = Failure
    /\ IF pc[c] = "closed" THEN End(c) /\ UNCHANGED users ELSE DropReceiver(c)

AtEnd(c) == c \in open /\ pc[c] = "closed" /\ stream[c].channel = << >>

SeeEnd(c) ==
    /\ AtEnd(c)
    /\ c \notin stalled
    /\ End(c)
    /\ UNCHANGED users

\* The client reads no further, but keeps the call.
Stall(c) ==
    /\ c \in open \ stalled
    /\ InStream(c)
    /\ stalled' = stalled \cup {c}
    /\ UNCHANGED <<users, free, call, pc, stream, open>>

\* The client cancels the call, or its connection is lost: its handler is
\* dropped, but a task that has been spawned goes on.  (A statement under
\* way may still take effect, as if the client had left just after it.)
Leave(c) ==
    /\ c \in open
    /\ IF pc[c] \in {"query", "fetch", "send", "last"}
       THEN DropReceiver(c)
       ELSE End(c) /\ UNCHANGED users

-----------------------------------------------------------------------------
Requests ==
    [kind : {"login"}, uid : Uids, name : Names \cup {Unknown}]
    \cup [kind : {"write", "stream"}, uid : Uids, name : {Unknown}]

Init ==
    /\ users = << >>
    /\ free = PoolSize
    /\ call = [c \in Calls |-> NULL]
    /\ pc = [c \in Calls |-> "idle"]
    /\ stream = [c \in Calls |-> Stream(<< >>)]
    /\ open = {} /\ stalled = {}

Serve(c) ==
    \/ Upsert(c) \/ Login(c) \/ UpsertFails(c) \/ Transact(c)
    \/ Fetch(c) \/ StreamFails(c) \/ Finish(c) \/ Send(c) \/ Panic(c)

Connect(c) ==
    \/ Acquire(c)
    \/ \E n \in 0 .. MaxRows : \E bad \in 0 .. n : Query(c, n, bad)

Next ==
    \E c \in Calls :
        \/ \E request \in Requests : Call(c, request)
        \/ Connect(c) \/ Timeout(c) \/ StreamTimeout(c) \/ Serve(c)
        \/ ReceiveRow(c) \/ ReceiveFailure(c) \/ SeeEnd(c) \/ Stall(c) \/ Leave(c)

Spec == Init /\ [][Next]_vars

\* Postgres answers, the runtime polls every task that can go on, the pool
\* hands out connections in turn, and clients that have not stalled read.
\* Nobody counts on the timeout.
Fairness ==
    \A c \in Calls :
        /\ SF_vars(Connect(c))
        /\ WF_vars(Serve(c))
        /\ WF_vars(ReceiveRow(c) \/ ReceiveFailure(c) \/ SeeEnd(c))

FairSpec == Spec /\ Fairness

-----------------------------------------------------------------------------
(* Properties                                                              *)

TypeOK ==
    /\ DOMAIN users \subseteq Uids
    /\ \A u \in DOMAIN users : users[u] \in Names \cup {Unknown}
    /\ free \in 0 .. PoolSize
    /\ call \in [Calls -> Requests \cup {NULL}]
    /\ stalled \subseteq open /\ open \subseteq Calls
    /\ \A c \in Calls :
          /\ Len(stream[c].channel) <= Capacity
          /\ pc[c] = "idle" => call[c] = NULL /\ c \notin open

\* No connection is lost: each is in the pool or with a call that goes on,
\* however calls end: answered, failed, timed out, abandoned, or panicking.
NoConnectionLost == free + Cardinality({c \in Calls : Holds(c)}) = PoolSize

\* A response that ends without an error has all the rows of its query, in
\* their order: an error, a full channel or a panic never makes it shorter.
CleanEndIsComplete == \A c \in Calls : AtEnd(c) => stream[c].got = stream[c].asked

\* A user is never deleted, and gets another name only as the answer of a
\* login, whichever requests of that user are under way meanwhile.
NamedByLogin(u, name) ==
    \E c \in Calls : /\ pc[c] = "upsert" /\ pc'[c] = "idle"
                     /\ call[c].kind = "login" /\ call[c].uid = u /\ call[c].name = name

KeepsNames ==
    \A u \in DOMAIN users :
        /\ u \in DOMAIN users'
        /\ users'[u] # users[u] => NamedByLogin(u, users'[u])

NameIsKept == [][KeepsNames]_vars

\* Every call ends whose client reads on, and so does the task of one whose
\* client has left, unless so many stalled clients keep their connections
\* that none is left: no request waits for a connection with one in hand.
HeldByStalled == {c \in stalled : Holds(c)}

CallsEnd ==
    [](Cardinality(HeldByStalled) < PoolSize) =>
        \A c \in Calls : pc[c] # "idle" ~> pc[c] = "idle" \/ c \in stalled

\* A client that leaves frees its connection, even if it had stalled.
LeaverFreesConnection == \A c \in Calls : Holds(c) /\ c \notin open ~> ~Holds(c)
=============================================================================
