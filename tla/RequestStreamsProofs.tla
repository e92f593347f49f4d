------------------------ MODULE RequestStreamsProofs ------------------------
(***************************************************************************)
(* Theorems about RequestStreams, for any number of calls, connections and *)
(* rows.                                                                   *)
(***************************************************************************)
EXTENDS RequestStreams, FiniteSetTheorems, SequenceTheorems, TLAPS

Holders == {c \in Calls : Holds(c)}

States == {"idle", "user", "upsert", "begin", "transaction", "query", "fetch", "send",
           "last", "closed"}

\* Where the connections are.
ConnectionInv ==
    /\ pc \in [Calls -> States]
    /\ free \in Nat
    /\ free + Cardinality(Holders) = PoolSize

LEMMA PoolIsFinite == PoolSize \in Nat /\ IsFiniteSet(Calls)
BY StreamAssumption DEF StreamAssumption

LEMMA HoldersFinite == IsFiniteSet(Holders) /\ Cardinality(Holders) \in Nat
<1>1. IsFiniteSet(Holders)
  BY PoolIsFinite, FS_Subset DEF Holders
<1> QED
  BY <1>1, FS_CardinalityType

\* A call that takes a connection from the pool.
LEMMA Takes ==
    ASSUME ConnectionInv, NEW c \in Calls, NEW next \in {"upsert", "transaction", "fetch"},
           ~Holds(c), free > 0, free' = free - 1, Go(c, next)
    PROVE  ConnectionInv'
<1>1. pc' \in [Calls -> States]
  BY DEF ConnectionInv, Go, States
<1>2. Holders' = Holders \cup {c} /\ c \notin Holders
  BY <1>1 DEF ConnectionInv, Holders, Holds, Go
<1>3. Cardinality(Holders') = Cardinality(Holders) + 1
  BY <1>2, HoldersFinite, FS_AddElement
<1> QED
  BY <1>1, <1>3, HoldersFinite DEF ConnectionInv

\* A call that goes on or ends without a connection, and returns the one it has.
LEMMA Returns ==
    ASSUME ConnectionInv, NEW c \in Calls, NEW next \in {"idle", "begin", "query", "closed"},
           free' = (IF Holds(c) THEN free + 1 ELSE free), Go(c, next)
    PROVE  ConnectionInv'
<1>1. pc' \in [Calls -> States]
  BY DEF ConnectionInv, Go, States
<1>2. Holders' = Holders \ {c}
  BY <1>1 DEF ConnectionInv, Holders, Holds, Go
<1>3. CASE Holds(c)
  <2>1. c \in Holders
    BY <1>3 DEF Holders
  <2>2. Cardinality(Holders') = Cardinality(Holders) - 1
    BY <1>2, <2>1, HoldersFinite, FS_RemoveElement
  <2> QED
    BY <1>1, <1>3, <2>2, HoldersFinite, PoolIsFinite DEF ConnectionInv
<1>4. CASE ~Holds(c)
  <2>1. Holders' = Holders
    BY <1>2, <1>4 DEF Holders
  <2> QED
    BY <1>1, <1>4, <2>1 DEF ConnectionInv
<1> QED
  BY <1>3, <1>4

\* A call that goes on and keeps what it has.
LEMMA Keeps ==
    ASSUME ConnectionInv, NEW c \in Calls, NEW next \in States, free' = free, Go(c, next),
           Holds(c) <=> next \in {"upsert", "transaction", "fetch", "send"}
    PROVE  ConnectionInv'
<1>1. pc' \in [Calls -> States]
  BY DEF ConnectionInv, Go
<1>2. Holders' = Holders
  BY <1>1 DEF ConnectionInv, Holders, Holds, Go
<1> QED
  BY <1>1, <1>2 DEF ConnectionInv

LEMMA Stays == ConnectionInv /\ UNCHANGED <<free, pc>> => ConnectionInv'
<1> SUFFICES ASSUME ConnectionInv, UNCHANGED <<free, pc>> PROVE ConnectionInv'
  OBVIOUS
<1>1. Holders' = Holders
  BY DEF Holders, Holds
<1> QED
  BY <1>1 DEF ConnectionInv

LEMMA EndReturns == ASSUME ConnectionInv, NEW c \in Calls, End(c) PROVE ConnectionInv'
BY Returns DEF End

LEMMA DropStays == ASSUME ConnectionInv, NEW c \in Calls, DropReceiver(c) PROVE ConnectionInv'
BY Stays DEF DropReceiver

LEMMA InitConnectionInv == Init => ConnectionInv
<1> SUFFICES ASSUME Init PROVE ConnectionInv
  OBVIOUS
<1>1. Holders = {}
  BY DEF Init, Holders, Holds
<1>2. pc \in [Calls -> States]
  BY DEF Init, States
<1> QED
  BY <1>1, <1>2, PoolIsFinite, FS_EmptySet DEF Init, ConnectionInv

LEMMA NextConnectionInv == ConnectionInv /\ [Next]_vars => ConnectionInv'
<1> SUFFICES ASSUME ConnectionInv, [Next]_vars PROVE ConnectionInv'
  OBVIOUS
<1>1. ASSUME NEW c \in Calls, NEW request \in Requests, Call(c, request) PROVE ConnectionInv'
  BY <1>1, Keeps DEF Call, Holds, States
<1>2. ASSUME NEW c \in Calls, Acquire(c) PROVE ConnectionInv'
  BY <1>2, Takes DEF Acquire, Holds
<1>3. ASSUME NEW c \in Calls, NEW n \in 0 .. MaxRows, NEW bad \in 0 .. n, Query(c, n, bad)
      PROVE  ConnectionInv'
  BY <1>3, Takes DEF Query, Holds
<1>4. ASSUME NEW c \in Calls, Upsert(c) PROVE ConnectionInv'
  BY <1>4, Returns DEF Upsert, Release
<1>5. ASSUME NEW c \in Calls, Login(c) \/ UpsertFails(c) \/ Timeout(c) \/ Transact(c)
      PROVE  ConnectionInv'
  BY <1>5, EndReturns DEF Login, UpsertFails, Timeout, Transact
<1>6. ASSUME NEW c \in Calls, Fetch(c) \/ StreamTimeout(c) PROVE ConnectionInv'
  BY <1>6, Keeps DEF Fetch, StreamTimeout, Holds, States
<1>7. ASSUME NEW c \in Calls, StreamFails(c) PROVE ConnectionInv'
  <2>1. pc[c] = "fetch" /\ Go(c, "last") /\ free' = free + 1
    BY <1>7 DEF StreamFails
  <2>2. pc' \in [Calls -> States]
    BY <2>1 DEF ConnectionInv, Go, States
  <2>3. Holders' = Holders \ {c} /\ c \in Holders
    BY <2>1 DEF ConnectionInv, Holders, Holds, Go
  <2>4. Cardinality(Holders') = Cardinality(Holders) - 1
    BY <2>3, HoldersFinite, FS_RemoveElement
  <2> QED
    BY <2>1, <2>2, <2>4, HoldersFinite, PoolIsFinite DEF ConnectionInv
<1>8. ASSUME NEW c \in Calls, Finish(c) PROVE ConnectionInv'
  BY <1>8, Returns, EndReturns DEF Finish, Release
<1>9. ASSUME NEW c \in Calls, Send(c) PROVE ConnectionInv'
  BY <1>9, Keeps DEF Send, Holds, States
<1>10. ASSUME NEW c \in Calls, Panic(c) \/ SeeEnd(c) PROVE ConnectionInv'
  BY <1>10, EndReturns DEF Panic, SeeEnd
<1>11. ASSUME NEW c \in Calls, ReceiveRow(c) \/ Stall(c) PROVE ConnectionInv'
  BY <1>11, Stays DEF ReceiveRow, Stall
<1>12. ASSUME NEW c \in Calls, ReceiveFailure(c) \/ Leave(c) PROVE ConnectionInv'
  BY <1>12, EndReturns, DropStays DEF ReceiveFailure, Leave
<1>13. CASE UNCHANGED vars
  BY <1>13, Stays DEF vars
<1> QED
  BY <1>1, <1>2, <1>3, <1>4, <1>5, <1>6, <1>7, <1>8, <1>9, <1>10, <1>11, <1>12, <1>13
  DEF Next, Serve, Connect

\* However calls end, each connection is in the pool or with one call that
\* goes on.
THEOREM ConnectionsAreKept == Spec => []NoConnectionLost
<1>1. ConnectionInv => NoConnectionLost
  BY DEF ConnectionInv, NoConnectionLost, Holders
<1> QED
  BY <1>1, InitConnectionInv, NextConnectionInv, PTL DEF Spec

-----------------------------------------------------------------------------
(* Names                                                                   *)

LEMMA LoginNames ==
    ASSUME ConnectionInv, NEW c \in Calls, Login(c)
    PROVE  KeepsNames
<1>1. DOMAIN users \subseteq DOMAIN users'
  BY DEF Login, UpsertUser
<1>2. pc[c] = "upsert" /\ pc'[c] = "idle" /\ call[c].kind = "login"
  BY DEF Login, End, Go, ConnectionInv
<1>3. ASSUME NEW u \in DOMAIN users, users'[u] # users[u]
      PROVE  call[c].uid = u /\ call[c].name = users'[u]
  BY <1>3 DEF Login, UpsertUser
<1> QED
  BY <1>1, <1>2, <1>3 DEF KeepsNames, NamedByLogin

LEMMA UpsertNames ==
    ASSUME NEW c \in Calls, Upsert(c)
    PROVE  KeepsNames
<1>1. \A u \in DOMAIN users : u \in DOMAIN users' /\ users'[u] = users[u]
  BY DEF Upsert, UpsertUserId
<1> QED
  BY <1>1 DEF KeepsNames

\* A user is never deleted, and only a login gives another name.
THEOREM NamesAreKept == Spec => NameIsKept
<1>1. ASSUME UNCHANGED users PROVE KeepsNames
  BY <1>1 DEF KeepsNames
<1>2. ConnectionInv /\ [Next]_vars => [KeepsNames]_vars
  BY <1>1, LoginNames, UpsertNames DEF Next, Serve, Connect, Call, Acquire, Query, UpsertFails,
     Timeout, Transact, Fetch, StreamTimeout, StreamFails, Finish, Send, Panic, SeeEnd, ReceiveRow,
     Stall, ReceiveFailure, Leave, DropReceiver, vars
<1> QED
  BY <1>2, InitConnectionInv, NextConnectionInv, PTL DEF Spec, NameIsKept

-----------------------------------------------------------------------------
(* Rows                                                                    *)

Items == Nat \cup {Failure}

LEMMA MoveHead ==
    ASSUME NEW S, NEW a \in Seq(S), NEW b \in Seq(S), b # << >>
    PROVE  /\ Append(a, Head(b)) \in Seq(S) /\ Tail(b) \in Seq(S)
           /\ Append(a, Head(b)) \o Tail(b) = a \o b
<1>1. Head(b) \in S /\ Tail(b) \in Seq(S) /\ Append(a, Head(b)) \in Seq(S)
  BY HeadTailProperties
<1>2. Append(a, Head(b)) \o Tail(b) \in Seq(S) /\ a \o b \in Seq(S)
  BY <1>1
<1>3. Len(Append(a, Head(b)) \o Tail(b)) = Len(a \o b)
  BY <1>1
<1>4. ASSUME NEW i \in 1 .. Len(a \o b)
      PROVE (Append(a, Head(b)) \o Tail(b))[i] = (a \o b)[i]
  BY <1>1, <1>4
<1> QED
  BY <1>2, <1>3, <1>4, SeqEqual

LEMMA TailOfConcat ==
    ASSUME NEW S, NEW a \in Seq(S), NEW b \in Seq(S), a # << >>
    PROVE  Tail(a) \o b = Tail(a \o b) /\ Head(a \o b) = Head(a) /\ a \o b # << >>
<1>1. Tail(a) \in Seq(S) /\ a \o b \in Seq(S) /\ Len(a \o b) = Len(a) + Len(b) /\ Len(a) > 0
  BY HeadTailProperties
<1>2. a \o b # << >> /\ Head(a \o b) = Head(a)
  BY <1>1
<1>3. Tail(a) \o b \in Seq(S) /\ Tail(a \o b) \in Seq(S)
  BY <1>1, <1>2
<1>4. Len(Tail(a) \o b) = Len(Tail(a \o b))
  BY <1>1, <1>2
<1>5. ASSUME NEW i \in 1 .. Len(Tail(a) \o b)
      PROVE (Tail(a) \o b)[i] = Tail(a \o b)[i]
  BY <1>1, <1>2, <1>5
<1> QED
  BY <1>2, <1>3, <1>4, <1>5, SeqEqual

HasFailure(s) == \E i \in DOMAIN s : s[i] = Failure

LEMMA FailureStays ==
    ASSUME NEW s \in Seq(Items), s # << >>, HasFailure(s), Head(s) # Failure
    PROVE  HasFailure(Tail(s))
<1>1. PICK i \in DOMAIN s : s[i] = Failure
  BY DEF HasFailure
<1>2. i \in 1 .. Len(s) /\ i # 1
  BY <1>1
<1>3. i - 1 \in DOMAIN Tail(s) /\ Tail(s)[i - 1] = s[i]
  BY <1>2
<1> QED
  BY <1>1, <1>3 DEF HasFailure

Streams == [asked : Seq(Items), rows : Seq(Items), channel : Seq(Items), got : Seq(Items)]

Pending(s) == s.channel \o s.rows
Complete(s) == s.asked = s.got \o Pending(s) \/ HasFailure(Pending(s))

CallInv(c) ==
    /\ c \in open /\ InStream(c) => Complete(stream[c])
    /\ pc[c] = "send" => stream[c].rows # << >>
    /\ pc[c] = "last" => Len(stream[c].rows) = 1
    /\ pc[c] = "closed" => stream[c].rows = << >>

\* Nothing gets lost on the way from the query to the client.
RowsInv ==
    /\ pc \in [Calls -> States]
    /\ stream \in [Calls -> Streams]
    /\ \A c \in Calls : CallInv(c)

LEMMA NewStream ==
    ASSUME NEW rows \in Seq(Items)
    PROVE  /\ Stream(rows) \in Streams
           /\ Complete(Stream(rows)) /\ Stream(rows).rows = rows
<1>1. << >> \in Seq(Items) /\ << >> \o rows = rows
  BY ConcatEmptySeq
<1> QED
  BY <1>1 DEF Stream, Streams, Complete, Pending

\* A step changes one call.
LEMMA OneCall ==
    ASSUME RowsInv, NEW c \in Calls,
           pc' \in [Calls -> States], stream' \in [Calls -> Streams],
           \A d \in Calls \ {c} : /\ pc'[d] = pc[d] /\ stream'[d] = stream[d]
                                  /\ d \in open' => d \in open,
           CallInv(c)'
    PROVE  RowsInv'
<1>1. ASSUME NEW d \in Calls, d # c PROVE CallInv(d)'
  BY <1>1 DEF RowsInv, CallInv, InStream
<1> QED
  BY <1>1 DEF RowsInv

\* The step moves the call and keeps its stream.
LEMMA Moves ==
    ASSUME RowsInv, NEW c \in Calls, NEW next \in States, Go(c, next), UNCHANGED stream,
           \A d \in Calls \ {c} : d \in open' => d \in open,
           \/ next \in {"idle", "user", "upsert", "begin", "transaction", "query"}
           \/ /\ InStream(c)
              /\ c \in open' => c \in open
              /\ next = "send" => stream[c].rows # << >>
              /\ next = "closed" => stream[c].rows = << >>
              /\ next \in {"fetch", "send", "closed"}
    PROVE  RowsInv'
<1>1. pc' \in [Calls -> States] /\ pc'[c] = next
      /\ \A d \in Calls \ {c} : pc'[d] = pc[d]
  BY DEF RowsInv, Go
<1>2. CASE next \in {"idle", "user", "upsert", "begin", "transaction", "query"}
  <2>1. CallInv(c)'
    BY <1>1, <1>2 DEF CallInv, InStream
  <2> QED
    BY <1>1, <2>1, OneCall DEF RowsInv
<1>3. CASE next \in {"fetch", "send", "closed"} /\ InStream(c)
  <2>1. stream'[c] = stream[c] /\ CallInv(c)
    BY DEF RowsInv
  <2>2. c \in open' => Complete(stream'[c])
    BY <1>3, <2>1 DEF CallInv
  <2>3. CallInv(c)'
    BY <1>1, <1>3, <2>1, <2>2 DEF CallInv
  <2> QED
    BY <1>1, <2>3, OneCall DEF RowsInv
<1> QED
  BY <1>2, <1>3

LEMMA Ends == ASSUME RowsInv, NEW c \in Calls, End(c) PROVE RowsInv'
<1>1. << >> \in Seq(Items)
  OBVIOUS
<1>2. Stream(<< >>) \in Streams
  BY <1>1, NewStream
<1>3. pc' \in [Calls -> States] /\ pc'[c] = "idle"
      /\ stream' \in [Calls -> Streams]
      /\ \A d \in Calls \ {c} : pc'[d] = pc[d] /\ stream'[d] = stream[d]
  BY <1>2 DEF RowsInv, End, Go, States
<1>4. CallInv(c)'
  BY <1>3 DEF CallInv, InStream
<1> QED
  BY <1>3, <1>4, OneCall DEF End

LEMMA Drops == ASSUME RowsInv, NEW c \in Calls, DropReceiver(c) PROVE RowsInv'
<1>1. << >> \in Seq(Items)
  OBVIOUS
<1>2. stream[c].rows \in Seq(Items)
  BY DEF RowsInv, Streams
<1>3. [Stream(<< >>) EXCEPT !.rows = stream[c].rows] \in Streams
      /\ [Stream(<< >>) EXCEPT !.rows = stream[c].rows].rows = stream[c].rows
  BY <1>1, <1>2 DEF Stream, Streams
<1>4. stream' \in [Calls -> Streams] /\ stream'[c].rows = stream[c].rows
      /\ \A d \in Calls \ {c} : stream'[d] = stream[d]
  BY <1>3 DEF RowsInv, DropReceiver
<1>5. CallInv(c)'
  BY <1>4 DEF RowsInv, CallInv, DropReceiver
<1> QED
  BY <1>4, <1>5, OneCall DEF DropReceiver, RowsInv

\* The step keeps where every call is and what it has.
LEMMA Rests ==
    ASSUME RowsInv, UNCHANGED <<pc, stream>>, open' \subseteq open
    PROVE  RowsInv'
BY DEF RowsInv, CallInv, InStream

LEMMA QueryRows ==
    ASSUME RowsInv, NEW c \in Calls, NEW n \in 0 .. MaxRows, NEW bad \in 0 .. n, Query(c, n, bad)
    PROVE  RowsInv'
<1> DEFINE rows == [i \in 1 .. n |-> IF i = bad THEN Failure ELSE i]
<1>1. rows \in Seq(Items)
  <2>1. n \in Nat /\ rows \in [1 .. n -> Items]
    BY StreamAssumption DEF StreamAssumption, Items
  <2> QED
    BY <2>1, IsASeq
<1> HIDE DEF rows
<1>2. Stream(rows) \in Streams /\ Complete(Stream(rows))
  BY <1>1, NewStream
<1>3. stream' = [stream EXCEPT ![c] = Stream(rows)]
  BY DEF Query, rows
<1>4. pc' \in [Calls -> States] /\ pc'[c] = "fetch"
      /\ stream' \in [Calls -> Streams] /\ stream'[c] = Stream(rows)
      /\ \A d \in Calls \ {c} : pc'[d] = pc[d] /\ stream'[d] = stream[d]
  BY <1>2, <1>3 DEF RowsInv, Query, Go, States
<1>5. CallInv(c)'
  BY <1>2, <1>4 DEF CallInv
<1> QED
  BY <1>4, <1>5, OneCall DEF Query

LEMMA OneFailure == <<Failure>> \in Seq(Items) /\ Len(<<Failure>>) = 1
BY DEF Items

LEMMA TimeoutRows == ASSUME RowsInv, NEW c \in Calls, StreamTimeout(c) PROVE RowsInv'
<1>1. Stream(<<Failure>>) \in Streams /\ Complete(Stream(<<Failure>>))
      /\ Stream(<<Failure>>).rows = <<Failure>>
  BY OneFailure, NewStream
<1>2. pc' \in [Calls -> States] /\ pc'[c] = "last"
      /\ stream' \in [Calls -> Streams] /\ stream'[c] = Stream(<<Failure>>)
      /\ \A d \in Calls \ {c} : pc'[d] = pc[d] /\ stream'[d] = stream[d]
  BY <1>1 DEF RowsInv, StreamTimeout, Go, States
<1>3. CallInv(c)'
  BY <1>1, <1>2, OneFailure DEF CallInv
<1> QED
  BY <1>2, <1>3, OneCall DEF StreamTimeout

LEMMA FailRows == ASSUME RowsInv, NEW c \in Calls, StreamFails(c) PROVE RowsInv'
<1> DEFINE s == [stream[c] EXCEPT !.rows = <<Failure>>]
<1>1. stream[c] \in Streams
  BY DEF RowsInv
<1>2. s \in Streams /\ s.rows = <<Failure>> /\ s.channel = stream[c].channel
  BY <1>1, OneFailure DEF Streams
<1>3. HasFailure(s.channel \o <<Failure>>)
  <2>1. s.channel \in Seq(Items)
    BY <1>2 DEF Streams
  <2>2. (s.channel \o <<Failure>>)[Len(s.channel) + 1] = Failure
        /\ Len(s.channel) + 1 \in DOMAIN (s.channel \o <<Failure>>)
    BY <2>1, OneFailure
  <2> QED
    BY <2>2 DEF HasFailure
<1>4. Complete(s)
  BY <1>2, <1>3 DEF Complete, Pending
<1> HIDE DEF s
<1>5. stream' = [stream EXCEPT ![c] = s]
  BY DEF StreamFails, RowsInv, s
<1>6. pc' \in [Calls -> States] /\ pc'[c] = "last"
      /\ stream' \in [Calls -> Streams] /\ stream'[c] = s
      /\ \A d \in Calls \ {c} : pc'[d] = pc[d] /\ stream'[d] = stream[d]
  BY <1>2, <1>5 DEF RowsInv, StreamFails, Go, States
<1>7. CallInv(c)'
  BY <1>2, <1>4, <1>6, OneFailure DEF CallInv
<1> QED
  BY <1>6, <1>7, OneCall DEF StreamFails

LEMMA SendRows == ASSUME RowsInv, NEW c \in Calls, Send(c) PROVE RowsInv'
<1> DEFINE s == [stream[c] EXCEPT !.channel = Append(@, Head(stream[c].rows)), !.rows = Tail(@)]
<1>1. stream[c] \in Streams /\ Complete(stream[c])
      /\ (pc[c] = "send" => stream[c].rows # << >>)
      /\ (pc[c] = "last" => Len(stream[c].rows) = 1)
      /\ pc[c] \in {"send", "last"}
  BY DEF RowsInv, CallInv, Send, InStream
<1>2. stream[c].channel \in Seq(Items) /\ stream[c].rows \in Seq(Items)
  BY <1>1 DEF Streams
<1>3. stream[c].rows # << >>
  <2>1. Len(stream[c].rows) = 1 => stream[c].rows # << >>
    BY EmptySeq
  <2> QED
    BY <1>1, <2>1
<1>4. /\ Append(stream[c].channel, Head(stream[c].rows)) \in Seq(Items)
      /\ Tail(stream[c].rows) \in Seq(Items)
      /\ Append(stream[c].channel, Head(stream[c].rows)) \o Tail(stream[c].rows)
            = stream[c].channel \o stream[c].rows
  BY <1>2, <1>3, MoveHead
<1>5. s \in Streams /\ s.asked = stream[c].asked /\ s.got = stream[c].got
      /\ Pending(s) = Pending(stream[c]) /\ s.rows = Tail(stream[c].rows)
  BY <1>1, <1>4 DEF Streams, Pending
<1>6. Complete(s)
  BY <1>1, <1>5 DEF Complete
<1>7. pc[c] = "last" => s.rows = << >>
  <2>1. Len(Tail(stream[c].rows)) = Len(stream[c].rows) - 1
    BY <1>2, <1>3, HeadTailProperties
  <2>2. Len(Tail(stream[c].rows)) = 0 => Tail(stream[c].rows) = << >>
    BY <1>4, EmptySeq
  <2> QED
    BY <1>1, <1>5, <2>1, <2>2
<1> HIDE DEF s
<1>8. stream' = [stream EXCEPT ![c] = s]
  BY DEF Send, RowsInv, s
<1>9. pc' \in [Calls -> States] /\ pc'[c] = (IF pc[c] = "send" THEN "fetch" ELSE "closed")
      /\ stream' \in [Calls -> Streams] /\ stream'[c] = s
      /\ \A d \in Calls \ {c} : pc'[d] = pc[d] /\ stream'[d] = stream[d]
  BY <1>5, <1>8 DEF RowsInv, Send, Go, States
<1>10. CallInv(c)'
  BY <1>6, <1>7, <1>9 DEF CallInv, Send
<1> QED
  BY <1>9, <1>10, OneCall DEF Send

LEMMA ReceiveRows == ASSUME RowsInv, NEW c \in Calls, ReceiveRow(c) PROVE RowsInv'
<1> DEFINE item == Head(stream[c].channel)
           s == [stream[c] EXCEPT !.channel = Tail(@), !.got = Append(@, item)]
<1>1. stream[c] \in Streams /\ stream[c].channel # << >> /\ item # Failure /\ CallInv(c)
  BY DEF RowsInv, ReceiveRow
<1>2. stream[c].channel \in Seq(Items) /\ stream[c].rows \in Seq(Items) /\ stream[c].got \in Seq(Items)
  BY <1>1 DEF Streams
<1> DEFINE p == Pending(stream[c])
<1>3. p \in Seq(Items) /\ p # << >> /\ Head(p) = item
      /\ Tail(stream[c].channel) \o stream[c].rows = Tail(p)
  <2>1. stream[c].channel \o stream[c].rows \in Seq(Items)
    BY <1>2, ConcatProperties
  <2>2. Tail(stream[c].channel) \o stream[c].rows = Tail(stream[c].channel \o stream[c].rows)
        /\ Head(stream[c].channel \o stream[c].rows) = Head(stream[c].channel)
        /\ stream[c].channel \o stream[c].rows # << >>
    BY <1>1, <1>2, TailOfConcat
  <2> QED
    BY <2>1, <2>2 DEF Pending
<1> HIDE DEF p
<1>4. item \in Items /\ Tail(stream[c].channel) \in Seq(Items) /\ Append(stream[c].got, item) \in Seq(Items)
  BY <1>1, <1>2, HeadTailProperties
<1>5. s \in Streams /\ s.asked = stream[c].asked /\ s.got = Append(stream[c].got, item)
      /\ Pending(s) = Tail(p) /\ s.rows = stream[c].rows
  BY <1>1, <1>2, <1>3, <1>4 DEF Streams, Pending, p
<1>6. Complete(stream[c]) => Complete(s)
  <2>1. CASE stream[c].asked = stream[c].got \o p
    <3>1. Append(stream[c].got, Head(p)) \o Tail(p) = stream[c].got \o p
      BY <1>2, <1>3, MoveHead
    <3>2. s.got \o Pending(s) = stream[c].got \o p
      BY <1>3, <1>5, <3>1
    <3> QED
      BY <2>1, <1>5, <3>2 DEF Complete
  <2>2. CASE HasFailure(p)
    BY <2>2, <1>1, <1>3, <1>5, FailureStays DEF Complete, p
  <2> QED
    BY <2>1, <2>2 DEF Complete, p
<1> HIDE DEF s, item
<1>7. stream' = [stream EXCEPT ![c] = s]
  BY DEF ReceiveRow, RowsInv, s, item
<1>8. stream' \in [Calls -> Streams] /\ stream'[c] = s
      /\ \A d \in Calls \ {c} : stream'[d] = stream[d]
  BY <1>5, <1>7 DEF RowsInv
<1>9. CallInv(c)'
  BY <1>1, <1>5, <1>6, <1>8 DEF CallInv, ReceiveRow, InStream
<1> QED
  BY <1>8, <1>9, OneCall DEF ReceiveRow, RowsInv

LEMMA InitRowsInv == Init => RowsInv
<1>1. << >> \in Seq(Items)
  OBVIOUS
<1>2. Stream(<< >>) \in Streams
  BY <1>1, NewStream
<1> QED
  BY <1>2 DEF Init, RowsInv, CallInv, InStream, States

LEMMA NextRowsInv == RowsInv /\ [Next]_vars => RowsInv'
<1> SUFFICES ASSUME RowsInv, [Next]_vars PROVE RowsInv'
  OBVIOUS
<1>1. ASSUME NEW c \in Calls, NEW request \in Requests, Call(c, request) PROVE RowsInv'
  BY <1>1, Moves DEF Call, States
<1>2. ASSUME NEW c \in Calls, Acquire(c) PROVE RowsInv'
  BY <1>2, Moves DEF Acquire, States
<1>3. ASSUME NEW c \in Calls, Upsert(c) PROVE RowsInv'
  BY <1>3, Moves DEF Upsert, Release, States
<1>4. ASSUME NEW c \in Calls, Login(c) \/ UpsertFails(c) \/ Transact(c) \/ Timeout(c)
                              \/ Panic(c) \/ SeeEnd(c)
      PROVE RowsInv'
  BY <1>4, Ends DEF Login, UpsertFails, Transact, Timeout, Panic, SeeEnd
<1>5. ASSUME NEW c \in Calls, Fetch(c) PROVE RowsInv'
  BY <1>5, Moves DEF Fetch, States, InStream
<1>6. ASSUME NEW c \in Calls, Finish(c) PROVE RowsInv'
  BY <1>6, Moves, Ends DEF Finish, Release, States, InStream
<1>7. ASSUME NEW c \in Calls, ReceiveFailure(c) \/ Leave(c) PROVE RowsInv'
  BY <1>7, Ends, Drops DEF ReceiveFailure, Leave
<1>8. ASSUME NEW c \in Calls, Stall(c) PROVE RowsInv'
  BY <1>8, Rests DEF Stall
<1>9. CASE UNCHANGED vars
  BY <1>9, Rests DEF vars
<1> QED
  BY <1>1, <1>2, <1>3, <1>4, <1>5, <1>6, <1>7, <1>8, <1>9,
     QueryRows, TimeoutRows, FailRows, SendRows, ReceiveRows
  DEF Next, Serve, Connect

\* A response that ends without an error has all the rows of its query.
THEOREM CleanEndsAreComplete == Spec => []CleanEndIsComplete
<1>1. RowsInv => CleanEndIsComplete
  <2> SUFFICES ASSUME RowsInv, NEW c \in Calls, AtEnd(c) PROVE stream[c].got = stream[c].asked
    BY DEF CleanEndIsComplete
  <2>1. stream[c] \in Streams /\ Complete(stream[c])
        /\ stream[c].channel = << >> /\ stream[c].rows = << >>
    BY DEF RowsInv, CallInv, AtEnd, InStream
  <2>2. Pending(stream[c]) = << >> /\ ~HasFailure(<< >>)
    BY <2>1 DEF Pending, HasFailure
  <2>3. stream[c].got \o << >> = stream[c].got
    BY <2>1, ConcatEmptySeq DEF Streams
  <2> QED
    BY <2>1, <2>2, <2>3 DEF Complete
<1> QED
  BY <1>1, InitRowsInv, NextRowsInv, PTL DEF Spec

-----------------------------------------------------------------------------
(* Types                                                                   *)

UserInv ==
    /\ DOMAIN users \subseteq Uids
    /\ \A u \in DOMAIN users : users[u] \in Names \cup {Unknown}

CallsInv ==
    /\ call \in [Calls -> Requests \cup {NULL}]
    /\ stalled \subseteq open /\ open \subseteq Calls
    /\ \A c \in Calls : IF pc[c] = "idle" THEN call[c] = NULL /\ c \notin open
                                          ELSE call[c] \in Requests

ChannelInv == \A c \in Calls : Len(stream[c].channel) <= Capacity

LEMMA UpsertTypes ==
    ASSUME UserInv, CallsInv, NEW c \in Calls, Upsert(c) \/ Login(c)
    PROVE  UserInv'
<1>1. call[c] \in Requests
  BY DEF CallsInv, Upsert, Login
<1>2. call[c].uid \in Uids /\ call[c].name \in Names \cup {Unknown}
  BY <1>1 DEF Requests
<1>3. CASE Upsert(c)
  BY <1>2, <1>3 DEF Upsert, UpsertUserId, UserInv
<1>4. CASE Login(c)
  BY <1>2, <1>4 DEF Login, UpsertUser, UserInv
<1> QED
  BY <1>3, <1>4

LEMMA NextUserInv == UserInv /\ CallsInv /\ [Next]_vars => UserInv'
<1> SUFFICES ASSUME UserInv, CallsInv, [Next]_vars PROVE UserInv'
  OBVIOUS
<1>1. CASE UNCHANGED users
  BY <1>1 DEF UserInv
<1> QED
  BY <1>1, UpsertTypes DEF Next, Serve, Connect, Call, Acquire, Query, UpsertFails,
     Timeout, Transact, Fetch, StreamTimeout, StreamFails, Finish, Send, Panic, SeeEnd, ReceiveRow,
     Stall, ReceiveFailure, Leave, DropReceiver, vars

\* A step of a call that goes on, whose client may leave or stall.
LEMMA GoesOn ==
    ASSUME CallsInv, pc \in [Calls -> States], NEW c \in Calls, NEW next \in States \ {"idle"},
           pc[c] # "idle", Go(c, next) \/ pc' = pc, UNCHANGED call,
           open' \subseteq open, stalled' \subseteq open'
    PROVE  CallsInv'
<1>1. \A d \in Calls : pc'[d] = "idle" <=> pc[d] = "idle"
  BY DEF Go
<1> QED
  BY <1>1 DEF CallsInv

LEMMA EndsTypes ==
    ASSUME CallsInv, pc \in [Calls -> States], NEW c \in Calls, End(c)
    PROVE  CallsInv'
<1>1. pc'[c] = "idle" /\ call'[c] = NULL /\ c \notin open'
  BY DEF CallsInv, End, Go
<1>2. ASSUME NEW d \in Calls, d # c
      PROVE  pc'[d] = pc[d] /\ call'[d] = call[d] /\ (d \in open' <=> d \in open)
  BY <1>2 DEF CallsInv, End, Go
<1>3. call' \in [Calls -> Requests \cup {NULL}] /\ stalled' \subseteq open' /\ open' \subseteq Calls
  BY DEF CallsInv, End
<1> QED
  BY <1>1, <1>2, <1>3 DEF CallsInv

LEMMA CallTypes ==
    ASSUME CallsInv, pc \in [Calls -> States], NEW c \in Calls, NEW request \in Requests,
           Call(c, request)
    PROVE  CallsInv'
<1>1. pc'[c] = "user" /\ call'[c] = request
  BY DEF CallsInv, Call, Go
<1>2. ASSUME NEW d \in Calls, d # c
      PROVE  pc'[d] = pc[d] /\ call'[d] = call[d] /\ (d \in open' <=> d \in open)
  BY <1>2 DEF CallsInv, Call, Go
<1>3. call' \in [Calls -> Requests \cup {NULL}] /\ stalled' \subseteq open' /\ open' \subseteq Calls
  BY DEF CallsInv, Call
<1> QED
  BY <1>1, <1>2, <1>3 DEF CallsInv

LEMMA NextCallsInv == CallsInv /\ RowsInv /\ [Next]_vars => CallsInv'
<1> SUFFICES ASSUME CallsInv, RowsInv, [Next]_vars PROVE CallsInv'
  OBVIOUS
<1>1. pc \in [Calls -> States] /\ stalled \subseteq open
  BY DEF RowsInv, CallsInv
<1>2. ASSUME NEW c \in Calls, Acquire(c) \/ Upsert(c) \/ StreamTimeout(c) \/ StreamFails(c)
                              \/ Fetch(c) \/ Send(c)
      PROVE  CallsInv'
  BY <1>1, <1>2, GoesOn
  DEF Acquire, Upsert, Release, StreamTimeout, StreamFails, Fetch, Send, States
<1>3. ASSUME NEW c \in Calls, NEW n \in 0 .. MaxRows, NEW bad \in 0 .. n, Query(c, n, bad)
      PROVE  CallsInv'
  BY <1>1, <1>3, GoesOn DEF Query, States
<1>4. ASSUME NEW c \in Calls, Login(c) \/ UpsertFails(c) \/ Transact(c) \/ Timeout(c)
                              \/ Panic(c) \/ SeeEnd(c)
      PROVE  CallsInv'
  BY <1>1, <1>4, EndsTypes DEF Login, UpsertFails, Transact, Timeout, Panic, SeeEnd
<1>5. ASSUME NEW c \in Calls, Finish(c) PROVE CallsInv'
  BY <1>1, <1>5, GoesOn, EndsTypes DEF Finish, Release, States
<1>6. ASSUME NEW c \in Calls, DropReceiver(c) PROVE CallsInv'
  BY <1>6 DEF DropReceiver, CallsInv
<1>7. ASSUME NEW c \in Calls, ReceiveFailure(c) \/ Leave(c) PROVE CallsInv'
  BY <1>1, <1>6, <1>7, EndsTypes DEF ReceiveFailure, Leave
<1>8. ASSUME NEW c \in Calls, ReceiveRow(c) \/ Stall(c) PROVE CallsInv'
  BY <1>8 DEF ReceiveRow, Stall, CallsInv
<1>9. CASE UNCHANGED vars
  BY <1>9 DEF vars, CallsInv
<1> QED
  BY <1>1, <1>2, <1>3, <1>4, <1>5, <1>7, <1>8, <1>9, CallTypes DEF Next, Serve, Connect

\* The channel of one call changes, to one that is no longer than its capacity.
LEMMA OneChannel ==
    ASSUME ChannelInv, NEW c \in Calls, Len(stream'[c].channel) <= Capacity,
           \A d \in Calls \ {c} : stream'[d] = stream[d]
    PROVE  ChannelInv'
BY DEF ChannelInv

LEMMA NoRows ==
    ASSUME RowsInv, ChannelInv, NEW c \in Calls, NEW s,
           stream' = [stream EXCEPT ![c] = s], s.channel = << >>
    PROVE  ChannelInv'
<1>1. stream'[c].channel = << >> /\ \A d \in Calls \ {c} : stream'[d] = stream[d]
  BY DEF RowsInv
<1>2. Len(<< >>) <= Capacity
  BY EmptySeq, StreamAssumption DEF StreamAssumption
<1> QED
  BY <1>1, <1>2, OneChannel

LEMMA NoRowsOf == ASSUME NEW rows PROVE Stream(rows).channel = << >>
BY DEF Stream

LEMMA NextChannelInv == ChannelInv /\ RowsInv /\ [Next]_vars => ChannelInv'
<1> SUFFICES ASSUME ChannelInv, RowsInv, [Next]_vars PROVE ChannelInv'
  OBVIOUS
<1>1. CASE UNCHANGED stream
  BY <1>1 DEF ChannelInv
<1>2. ASSUME NEW c \in Calls, End(c) PROVE ChannelInv'
  BY <1>2, NoRows, NoRowsOf DEF End
<1>3. ASSUME NEW c \in Calls, DropReceiver(c) PROVE ChannelInv'
  <2>1. [Stream(<< >>) EXCEPT !.rows = stream[c].rows].channel = << >>
    BY DEF Stream
  <2> QED
    BY <1>3, <2>1, NoRows DEF DropReceiver
<1>4. ASSUME NEW c \in Calls, NEW n \in 0 .. MaxRows, NEW bad \in 0 .. n, Query(c, n, bad)
      PROVE  ChannelInv'
  BY <1>4, NoRows, NoRowsOf DEF Query
<1>5. ASSUME NEW c \in Calls, StreamTimeout(c) PROVE ChannelInv'
  BY <1>5, NoRows, NoRowsOf DEF StreamTimeout
<1>6. ASSUME NEW c \in Calls, StreamFails(c) PROVE ChannelInv'
  <2>1. stream'[c].channel = stream[c].channel /\ \A d \in Calls \ {c} : stream'[d] = stream[d]
    BY <1>6 DEF StreamFails, RowsInv, Streams
  <2> QED
    BY <2>1, OneChannel DEF ChannelInv
<1>7. ASSUME NEW c \in Calls, Send(c) PROVE ChannelInv'
  <2>1. stream'[c].channel = Append(stream[c].channel, Head(stream[c].rows))
        /\ \A d \in Calls \ {c} : stream'[d] = stream[d]
    BY <1>7 DEF Send, RowsInv, Streams
  <2>2. stream[c].channel \in Seq(Items) /\ Len(stream[c].channel) < Capacity
    BY <1>7 DEF Send, RowsInv, Streams
  <2>3. Len(Append(stream[c].channel, Head(stream[c].rows))) = Len(stream[c].channel) + 1
    BY <2>2
  <2>4. Len(stream[c].channel) + 1 <= Capacity
    BY <2>2, LenProperties, StreamAssumption DEF StreamAssumption
  <2> QED
    BY <2>1, <2>3, <2>4, OneChannel
<1>8. ASSUME NEW c \in Calls, ReceiveRow(c) PROVE ChannelInv'
  <2>1. stream'[c].channel = Tail(stream[c].channel)
        /\ \A d \in Calls \ {c} : stream'[d] = stream[d]
    BY <1>8 DEF ReceiveRow, RowsInv, Streams
  <2>2. stream[c].channel \in Seq(Items) /\ stream[c].channel # << >>
        /\ Len(stream[c].channel) <= Capacity
    BY <1>8 DEF ReceiveRow, RowsInv, Streams, ChannelInv
  <2>3. Len(Tail(stream[c].channel)) = Len(stream[c].channel) - 1
        /\ Len(stream[c].channel) \in Nat
    BY <2>2, HeadTailProperties, LenProperties
  <2>4. Len(Tail(stream[c].channel)) <= Capacity
    BY <2>2, <2>3, StreamAssumption DEF StreamAssumption
  <2> QED
    BY <2>1, <2>4, OneChannel
<1> QED
  BY <1>1, <1>2, <1>3, <1>4, <1>5, <1>6, <1>7, <1>8
  DEF Next, Serve, Connect, Call, Acquire, Upsert, Login, Release, UpsertFails, Transact, Timeout,
      Fetch, Finish, Panic, SeeEnd, Stall, ReceiveFailure, Leave, vars

LEMMA InitTypes == Init => UserInv /\ CallsInv /\ ChannelInv
<1> SUFFICES ASSUME Init PROVE UserInv /\ CallsInv /\ ChannelInv
  OBVIOUS
<1>1. UserInv
  BY DEF Init, UserInv
<1>2. CallsInv
  BY DEF Init, CallsInv
<1>3. ChannelInv
  <2>1. Len(<< >>) <= Capacity
    BY EmptySeq, StreamAssumption DEF StreamAssumption
  <2> QED
    BY <2>1 DEF Init, ChannelInv, Stream
<1> QED
  BY <1>1, <1>2, <1>3

\* The users, the calls and the channels stay well typed and bounded.
THEOREM TypeCorrect == Spec => []TypeOK
<1>1. ConnectionInv => free \in 0 .. PoolSize
  BY HoldersFinite, PoolIsFinite DEF ConnectionInv
<1>2. ConnectionInv /\ UserInv /\ CallsInv /\ ChannelInv => TypeOK
  BY <1>1 DEF UserInv, CallsInv, ChannelInv, TypeOK
<1> QED
  BY <1>2, InitConnectionInv, NextConnectionInv, InitRowsInv, NextRowsInv,
     InitTypes, NextUserInv, NextCallsInv, NextChannelInv, PTL DEF Spec
=============================================================================
