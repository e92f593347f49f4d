-------------------------- MODULE KeyUpdateProofs --------------------------
(***************************************************************************)
(* Theorems about KeyUpdate, for every set of keys, connections and        *)
(* headers, and all times and numbers of failures that TimeAssumption      *)
(* allows.                                                                 *)
(***************************************************************************)
EXTENDS KeyUpdate, TLAPS

-----------------------------------------------------------------------------
(* Type correctness                                                        *)

LEMMA TimesAreNat ==
    /\ Fallback \in Nat /\ Retry \in Nat /\ FetchTime \in Nat
    /\ MaxFailures \in Nat /\ Lead \in Nat
BY TimeAssumption DEF TimeAssumption

LEMMA ValidityIsNat == ASSUME NEW header \in Headers PROVE Validity(header) \in Nat
BY TimesAreNat DEF Validity

LEMMA InitTypeOK == Init => TypeOK
<1> SUFFICES ASSUME Init PROVE TypeOK
  OBVIOUS
<1>1. published \subseteq Keys /\ signing \in published /\ keys \subseteq Keys
  BY DEF Init
<1>2. handles \subseteq Handles /\ exit \in BOOLEAN
  BY DEF Init
<1>3. verifying \in [Handles -> {"no", "wait", "read"}]
  BY DEF Init
<1>4. {timer, ripe, failures} \subseteq Nat
  BY TimesAreNat DEF Init
<1>5. /\ response \in [keys : SUBSET Keys, header : Headers] \cup {NULL}
      /\ pc = "new"
  BY DEF Init
<1> QED
  BY <1>1, <1>2, <1>3, <1>4, <1>5 DEF TypeOK

LEMMA NextTypeOK == TypeOK /\ [Next]_vars => TypeOK'
<1> SUFFICES ASSUME TypeOK, [Next]_vars PROVE TypeOK'
  OBVIOUS
<1> USE DEF TypeOK
<1>1. ASSUME NEW k \in Keys, Publish(k) PROVE TypeOK'
  BY <1>1, TimesAreNat DEF Publish, users
<1>2. ASSUME NEW k \in Keys, SignWith(k) PROVE TypeOK'
  BY <1>2 DEF SignWith, users
<1>3. ASSUME NEW k \in Keys, Retire(k) PROVE TypeOK'
  BY <1>3 DEF Retire, users
<1>4. ASSUME NEW header \in Headers, Serve(header) PROVE TypeOK'
  BY <1>4 DEF Serve, provider, users
<1>5. ASSUME NEW h \in Handles, Start(h) PROVE TypeOK'
  BY <1>5 DEF Start, provider
<1>6. CASE StartFails
  BY <1>6 DEF StartFails, provider, users
<1>7. CASE Check
  BY <1>7, TimesAreNat DEF Check, provider, users
<1>8. CASE Cancel
  BY <1>8 DEF Cancel, provider, users
<1>9. CASE Receive
  BY <1>9 DEF Receive, provider, users
<1>10. CASE FetchFails
  BY <1>10, TimesAreNat DEF FetchFails, provider, users
<1>11. CASE StoreKeys
  BY <1>11, ValidityIsNat DEF StoreKeys, provider, users
<1>12. CASE Wake
  BY <1>12 DEF Wake, provider, users
<1>13. CASE Tick
  BY <1>13 DEF Tick, users
<1>14. ASSUME NEW h \in Handles, Clone(h) \/ DropHandle(h) PROVE TypeOK'
  BY <1>14 DEF Clone, DropHandle, provider
<1>15. ASSUME NEW h \in Handles, Call(h) \/ Lock(h) \/ Answer(h) PROVE TypeOK'
  BY <1>15 DEF Call, Lock, Answer, provider
<1>16. CASE UNCHANGED vars
  BY <1>16 DEF vars, provider, users
<1> QED
  BY <1>1, <1>2, <1>3, <1>4, <1>5, <1>6, <1>7, <1>8, <1>9, <1>10, <1>11,
     <1>12, <1>13, <1>14, <1>15, <1>16 DEF Next, Task

\* The state of the update task, of the provider and of the interceptors
\* stays well typed, and nothing is stored that has not been received.
THEOREM TypeCorrect == Spec => []TypeOK
BY InitTypeOK, NextTypeOK, PTL DEF Spec

-----------------------------------------------------------------------------
(* The exit signal and the connections                                     *)

ExitInv ==
    /\ exit => handles = {}
    /\ pc \in {"new", "panicked"} => handles = {} /\ ~exit
    /\ pc = "stopped" => handles = {}

LEMMA InitExitInv == Init => ExitInv
BY DEF Init, ExitInv

LEMMA NextExitInv == ExitInv /\ [Next]_vars => ExitInv'
<1> SUFFICES ASSUME ExitInv, [Next]_vars PROVE ExitInv'
  OBVIOUS
<1> USE DEF ExitInv
<1>1. ASSUME NEW k \in Keys, Publish(k) \/ SignWith(k) \/ Retire(k) PROVE ExitInv'
  BY <1>1 DEF Publish, SignWith, Retire, users
<1>2. ASSUME NEW header \in Headers, Serve(header) PROVE ExitInv'
  BY <1>2 DEF Serve, users
<1>3. ASSUME NEW h \in Handles, Start(h) PROVE ExitInv'
  BY <1>3 DEF Start
<1>4. CASE StartFails
  BY <1>4 DEF StartFails, users
<1>5. CASE Task
  BY <1>5 DEF Task, Check, Cancel, Receive, FetchFails, StoreKeys, Wake, users
<1>6. CASE Tick
  BY <1>6 DEF Tick, users
<1>7. ASSUME NEW h \in Handles, Clone(h) PROVE ExitInv'
  BY <1>7 DEF Clone
<1>8. ASSUME NEW h \in Handles, DropHandle(h) PROVE ExitInv'
  BY <1>8 DEF DropHandle
<1>9. ASSUME NEW h \in Handles, Call(h) \/ Lock(h) \/ Answer(h) PROVE ExitInv'
  BY <1>9 DEF Call, Lock, Answer
<1>10. CASE UNCHANGED vars
  BY <1>10 DEF vars, users
<1> QED
  BY <1>1, <1>2, <1>3, <1>4, <1>5, <1>6, <1>7, <1>8, <1>9, <1>10 DEF Next

\* The update task does not stop while a connection is left.
THEOREM TaskOutlivesConnections == Spec => []UpdatedWhileServing
<1>1. ExitInv => UpdatedWhileServing
  BY DEF ExitInv, UpdatedWhileServing
<1> QED
  BY <1>1, InitExitInv, NextExitInv, PTL DEF Spec

-----------------------------------------------------------------------------
(* The time until the task stores the keys of an answer given from now on  *)
(* is less than the time until the provider may sign with a new key.       *)

\* What the failures that are still possible cost.
Slack(n) == (MaxFailures - n) * (Retry + FetchTime)

TimeToStore ==
    Slack(failures) + (IF pc = "check" THEN FetchTime ELSE timer)
                    + (IF pc = "sleep" THEN FetchTime ELSE 0)

\* The same, after the keys of the present response have been stored.
TimeToNextStore == timer + Validity(response.header) + FetchTime + Slack(0)

\* From the first fetch until the last connection is gone.
Alive == pc = "new" \/ handles # {}

Bounds ==
    /\ failures \in 0 .. MaxFailures
    /\ pc = "new" => failures = 0
    /\ pc \in {"new", "fetch", "store"} => timer <= FetchTime
    /\ response # NULL => pc \in {"new", "fetch", "store"}

InTime(k, S, time) == k \in S \/ time < ripe

KeysInTime ==
    pc # "new" =>
        /\ TimeToStore < Lead
        /\ signing \in keys
        /\ \A k \in published : InTime(k, keys, TimeToStore)

ResponseInTime ==
    response # NULL =>
        /\ TimeToNextStore < Lead
        /\ signing \in response.keys
        /\ \A k \in published : InTime(k, response.keys, TimeToNextStore)

KeyInv == Alive => Bounds /\ KeysInTime /\ ResponseInTime

LEMMA ProductIsNat == ASSUME NEW m \in Nat, NEW n \in Nat PROVE m * n \in Nat
OBVIOUS

LEMMA SlackIsNat == ASSUME NEW n \in 0 .. MaxFailures PROVE Slack(n) \in Nat
<1>1. MaxFailures - n \in Nat /\ Retry + FetchTime \in Nat
  BY TimesAreNat
<1> QED
  BY <1>1, ProductIsNat DEF Slack

LEMMA SlackStep ==
    ASSUME NEW n \in 0 .. MaxFailures, n < MaxFailures
    PROVE  /\ n + 1 \in 0 .. MaxFailures
           /\ Slack(n) = Slack(n + 1) + Retry + FetchTime
<1>1. n + 1 \in 0 .. MaxFailures
  BY TimesAreNat
<1> DEFINE m == MaxFailures - (n + 1)
           c == Retry + FetchTime
<1>2. m \in Nat /\ c \in Nat /\ MaxFailures - n = m + 1
  BY TimesAreNat
<1>3. (m + 1) * c = m * c + c
  BY <1>2
<1>4. Slack(n) = m * c + c /\ Slack(n + 1) = m * c
  BY <1>2, <1>3 DEF Slack
<1>5. m * c \in Nat
  BY <1>2, ProductIsNat
<1> QED
  BY <1>1, <1>4, <1>5, TimesAreNat

LEMMA SlackBelowLead ==
    ASSUME NEW header \in Headers
    PROVE  Validity(header) + 2 * FetchTime + Slack(0) < Lead
<1>1. Slack(0) = MaxFailures * (Retry + FetchTime)
  BY TimesAreNat DEF Slack
<1>2. Validity(header) + 2 * FetchTime + MaxFailures * (Retry + FetchTime) < Lead
  BY TimeAssumption DEF TimeAssumption
<1> QED
  BY <1>1, <1>2

\* What is known of the times in a state.
LEMMA TimesOfState ==
    ASSUME TypeOK, Bounds
    PROVE  /\ timer \in Nat /\ ripe \in Nat /\ failures \in Nat
           /\ Slack(failures) \in Nat /\ Slack(0) \in Nat
           /\ response # NULL => Validity(response.header) \in Nat
<1>1. timer \in Nat /\ ripe \in Nat /\ failures \in Nat
  BY DEF TypeOK
<1>2. Slack(failures) \in Nat /\ Slack(0) \in Nat
  BY SlackIsNat, TimesAreNat DEF Bounds
<1>3. response # NULL => response.header \in Headers
  BY DEF TypeOK
<1> QED
  BY <1>1, <1>2, <1>3, ValidityIsNat

LEMMA InitKeyInv == Init => KeyInv
BY TimesAreNat DEF Init, KeyInv, Bounds, KeysInTime, ResponseInTime

LEMMA ProviderKeyInv ==
    ASSUME TypeOK, KeyInv, Alive,
           NEW k \in Keys, Publish(k) \/ SignWith(k) \/ Retire(k)
    PROVE  Bounds' /\ KeysInTime' /\ ResponseInTime'
<1> USE DEF KeyInv
<1>1. Bounds'
  BY DEF Publish, SignWith, Retire, Bounds, users
<1>2. TimeToStore' = TimeToStore /\ TimeToNextStore' = TimeToNextStore
  BY DEF Publish, SignWith, Retire, TimeToStore, TimeToNextStore
<1>3. CASE Publish(k)
  <2>1. ripe' = Lead /\ signing' = signing /\ keys' = keys /\ pc' = pc /\ response' = response
    BY <1>3 DEF Publish
  <2> QED
    BY <1>1, <1>2, <2>1 DEF KeysInTime, ResponseInTime, InTime
<1>4. CASE SignWith(k)
  <2>1. /\ ripe = 0 /\ k \in published /\ signing' = k /\ published' = published
        /\ ripe' = ripe /\ keys' = keys /\ pc' = pc /\ response' = response
    BY <1>4 DEF SignWith
  <2>2. pc # "new" => k \in keys
    <3>1. TimeToStore \in Nat
      BY TimesOfState, TimesAreNat DEF TimeToStore
    <3> QED
      BY <2>1, <3>1 DEF KeysInTime, InTime
  <2>3. response # NULL => k \in response.keys
    <3>1. response # NULL => TimeToNextStore \in Nat
      BY TimesOfState, TimesAreNat DEF TimeToNextStore
    <3> QED
      BY <2>1, <3>1 DEF ResponseInTime, InTime
  <2> QED
    BY <1>1, <1>2, <2>1, <2>2, <2>3 DEF KeysInTime, ResponseInTime, InTime
<1>5. CASE Retire(k)
  <2>1. /\ published' \subseteq published /\ signing' = signing
        /\ ripe' = ripe /\ keys' = keys /\ pc' = pc /\ response' = response
    BY <1>5 DEF Retire, users
  <2> QED
    BY <1>1, <1>2, <2>1 DEF KeysInTime, ResponseInTime, InTime
<1> QED
  BY <1>3, <1>4, <1>5

LEMMA ServeKeyInv ==
    ASSUME TypeOK, KeyInv, Alive, NEW header \in Headers, Serve(header)
    PROVE  Bounds' /\ KeysInTime' /\ ResponseInTime'
<1> USE DEF KeyInv
<1>1. /\ published' = published /\ signing' = signing /\ ripe' = ripe /\ keys' = keys
      /\ pc' = pc /\ timer' = timer /\ failures' = failures
      /\ response' = [keys |-> published, header |-> header]
      /\ pc \in {"new", "fetch"}
  BY DEF Serve, provider
<1>2. Bounds'
  BY <1>1 DEF Bounds
<1>3. KeysInTime'
  BY <1>1 DEF KeysInTime, InTime, TimeToStore
<1>4. TimeToNextStore' < Lead
  <2>1. timer <= FetchTime
    BY <1>1 DEF Bounds
  <2>2. TimeToNextStore' = timer + Validity(header) + FetchTime + Slack(0)
    BY <1>1 DEF TimeToNextStore
  <2> QED
    BY <2>1, <2>2, SlackBelowLead, ValidityIsNat, TimesOfState, TimesAreNat
<1>5. ResponseInTime'
  BY <1>1, <1>4 DEF ResponseInTime, InTime, TypeOK
<1> QED
  BY <1>2, <1>3, <1>5

LEMMA StartKeyInv ==
    ASSUME TypeOK, KeyInv, NEW h \in Handles, Start(h)
    PROVE  Bounds' /\ KeysInTime' /\ ResponseInTime'
<1> USE DEF KeyInv
<1>1. /\ pc = "new" /\ response # NULL /\ keys' = response.keys /\ pc' = "check"
      /\ response' = NULL /\ UNCHANGED <<published, signing, ripe, timer, failures>>
  BY DEF Start, provider
<1>2. Bounds /\ ResponseInTime
  BY <1>1 DEF Alive
<1>3. Bounds' /\ failures = 0
  BY <1>1, <1>2 DEF Bounds
<1>4. TimeToStore' = Slack(0) + FetchTime /\ TimeToStore' <= TimeToNextStore
  BY <1>1, <1>2, <1>3, TimesOfState, TimesAreNat DEF TimeToStore, TimeToNextStore
<1>5. TimeToStore' \in Nat /\ TimeToNextStore \in Nat
  BY <1>1, <1>2, <1>4, TimesOfState, TimesAreNat DEF TimeToNextStore
<1>6. ripe \in Nat
  BY DEF TypeOK
<1>7. KeysInTime'
  BY <1>1, <1>2, <1>4, <1>5, <1>6, TimesAreNat DEF KeysInTime, ResponseInTime, InTime
<1> QED
  BY <1>1, <1>3, <1>7 DEF ResponseInTime

LEMMA TaskKeyInv ==
    ASSUME TypeOK, ExitInv, KeyInv, Alive, handles' = handles, Task
    PROVE  Bounds' /\ KeysInTime' /\ ResponseInTime'
<1> USE DEF KeyInv
<1>1. ~exit
  BY DEF ExitInv, Alive
<1>2. CASE Check
  <2>1. pc = "check" /\ pc' = "fetch" /\ timer' = FetchTime
    BY <1>1, <1>2 DEF Check
  <2>2. UNCHANGED <<published, signing, ripe, keys, response, failures>>
    BY <1>2 DEF Check, provider
  <2>3. Bounds' /\ TimeToStore' = TimeToStore /\ response = NULL
    BY <2>1, <2>2, TimesOfState, TimesAreNat DEF Bounds, TimeToStore
  <2> QED
    BY <2>1, <2>2, <2>3 DEF KeysInTime, ResponseInTime, InTime
<1>3. CASE Cancel
  BY <1>1, <1>3 DEF Cancel
<1>4. CASE Receive
  <2>1. pc = "fetch" /\ pc' = "store"
    BY <1>4 DEF Receive
  <2>2. UNCHANGED <<published, signing, ripe, keys, response, failures, timer>>
    BY <1>4 DEF Receive, provider
  <2>3. Bounds' /\ TimeToStore' = TimeToStore /\ TimeToNextStore' = TimeToNextStore
    BY <2>1, <2>2 DEF Bounds, TimeToStore, TimeToNextStore
  <2> QED
    BY <2>1, <2>2, <2>3 DEF KeysInTime, ResponseInTime, InTime
<1>5. CASE FetchFails
  <2>1. /\ pc = "fetch" /\ pc' = "sleep" /\ timer' = Retry /\ response' = NULL
        /\ failures < MaxFailures /\ failures' = failures + 1
    BY <1>5 DEF FetchFails
  <2>2. UNCHANGED <<published, signing, ripe, keys>>
    BY <1>5 DEF FetchFails, provider
  <2>3. Bounds'
    BY <2>1, TimesAreNat DEF Bounds
  <2>4. Slack(failures) = Slack(failures + 1) + Retry + FetchTime /\ Slack(failures + 1) \in Nat
    BY <2>1, SlackStep, SlackIsNat DEF Bounds
  <2>5. TimeToStore' = Slack(failures) /\ TimeToStore = Slack(failures) + timer
    BY <2>1, <2>4, TimesOfState, TimesAreNat DEF TimeToStore
  <2>6. TimeToStore' <= TimeToStore /\ TimeToStore \in Nat /\ TimeToStore' \in Nat /\ ripe \in Nat
    BY <2>5, TimesOfState
  <2> QED
    BY <2>1, <2>2, <2>3, <2>6, TimesAreNat DEF KeysInTime, ResponseInTime, InTime
<1>6. CASE StoreKeys
  <2>1. /\ pc = "store" /\ pc' = "sleep" /\ keys' = response.keys
        /\ timer' = Validity(response.header) /\ failures' = 0 /\ response' = NULL
    BY <1>6 DEF StoreKeys
  <2>2. UNCHANGED <<published, signing, ripe>>
    BY <1>6 DEF StoreKeys, provider
  <2>3. response # NULL
    BY <2>1 DEF TypeOK
  <2>4. Bounds'
    BY <2>1, TimesAreNat DEF Bounds
  <2>5. TimeToStore' = Slack(0) + Validity(response.header) + FetchTime
    BY <2>1 DEF TimeToStore
  <2>6. /\ TimeToStore' <= TimeToNextStore /\ TimeToStore' \in Nat
        /\ TimeToNextStore \in Nat /\ ripe \in Nat
    BY <2>3, <2>5, TimesOfState, TimesAreNat DEF TimeToNextStore
  <2> QED
    BY <2>1, <2>2, <2>3, <2>4, <2>6, TimesAreNat DEF KeysInTime, ResponseInTime, InTime
<1>7. CASE Wake
  <2>1. pc = "sleep" /\ timer = 0 /\ pc' = "check"
    BY <1>7 DEF Wake
  <2>2. UNCHANGED <<published, signing, ripe, keys, response, failures, timer>>
    BY <1>7 DEF Wake, provider
  <2>3. Bounds' /\ TimeToStore' = TimeToStore /\ response = NULL
    BY <2>1, <2>2, TimesOfState, TimesAreNat DEF Bounds, TimeToStore
  <2> QED
    BY <2>1, <2>2, <2>3 DEF KeysInTime, ResponseInTime, InTime
<1> QED
  BY <1>2, <1>3, <1>4, <1>5, <1>6, <1>7 DEF Task

LEMMA TickKeyInv ==
    ASSUME TypeOK, ExitInv, KeyInv, Alive, Tick
    PROVE  Bounds' /\ KeysInTime' /\ ResponseInTime'
<1> USE DEF KeyInv
<1>1. pc \in {"new", "fetch", "sleep"} /\ timer > 0
  BY DEF Tick, ExitInv, Alive
<1>2. timer' = timer - 1 /\ ripe' = (IF ripe > 0 THEN ripe - 1 ELSE 0)
  BY <1>1 DEF Tick
<1>3. UNCHANGED <<published, signing, keys, pc, response, failures>>
  BY DEF Tick
<1>4. Bounds'
  BY <1>1, <1>2, <1>3, TimesOfState, TimesAreNat DEF Bounds
<1>5. TimeToStore \in Nat /\ TimeToStore' = TimeToStore - 1 /\ TimeToStore' \in Nat
  BY <1>1, <1>2, <1>3, TimesOfState, TimesAreNat DEF TimeToStore
<1>6. response # NULL =>
        /\ TimeToNextStore \in Nat
        /\ TimeToNextStore' = TimeToNextStore - 1
        /\ TimeToNextStore' \in Nat
  BY <1>1, <1>2, <1>3, TimesOfState, TimesAreNat DEF TimeToNextStore
<1>7. ripe \in Nat
  BY DEF TypeOK
<1>8. KeysInTime'
  BY <1>2, <1>3, <1>5, <1>7, TimesAreNat DEF KeysInTime, InTime
<1>9. ResponseInTime'
  BY <1>2, <1>3, <1>6, <1>7, TimesAreNat DEF ResponseInTime, InTime
<1> QED
  BY <1>4, <1>8, <1>9

LEMMA QuietKeyInv ==
    ASSUME KeyInv, Alive,
           UNCHANGED <<published, signing, ripe, keys, pc, timer, response, failures>>
    PROVE  Bounds' /\ KeysInTime' /\ ResponseInTime'
BY DEF KeyInv, Bounds, KeysInTime, ResponseInTime, InTime, TimeToStore, TimeToNextStore

LEMMA NextKeyInv == TypeOK /\ ExitInv /\ KeyInv /\ [Next]_vars => KeyInv'
<1> SUFFICES ASSUME TypeOK, ExitInv, KeyInv, [Next]_vars, Alive'
             PROVE  Bounds' /\ KeysInTime' /\ ResponseInTime'
  BY DEF KeyInv
<1>1. ASSUME NEW k \in Keys, Publish(k) \/ SignWith(k) \/ Retire(k)
      PROVE  Bounds' /\ KeysInTime' /\ ResponseInTime'
  <2>1. Alive
    BY <1>1 DEF Publish, SignWith, Retire, Alive, users
  <2> QED
    BY <1>1, <2>1, ProviderKeyInv
<1>2. ASSUME NEW header \in Headers, Serve(header)
      PROVE  Bounds' /\ KeysInTime' /\ ResponseInTime'
  <2>1. Alive
    BY <1>2 DEF Serve, Alive, users
  <2> QED
    BY <1>2, <2>1, ServeKeyInv
<1>3. ASSUME NEW h \in Handles, Start(h)
      PROVE  Bounds' /\ KeysInTime' /\ ResponseInTime'
  BY <1>3, StartKeyInv
<1>4. CASE StartFails
  BY <1>4 DEF StartFails, ExitInv, Alive, users
<1>5. CASE Task
  <2>1. handles' = handles /\ pc # "new"
    BY <1>5 DEF Task, Check, Cancel, Receive, FetchFails, StoreKeys, Wake, users
  <2>2. pc' # "new"
    BY <1>5 DEF Task, Check, Cancel, Receive, FetchFails, StoreKeys, Wake
  <2>3. Alive
    BY <2>1, <2>2 DEF Alive
  <2> QED
    BY <1>5, <2>1, <2>3, TaskKeyInv
<1>6. CASE Tick
  <2>1. Alive
    BY <1>6 DEF Tick, Alive, users
  <2> QED
    BY <1>6, <2>1, TickKeyInv
<1>7. ASSUME NEW h \in Handles,
             Clone(h) \/ DropHandle(h) \/ Call(h) \/ Lock(h) \/ Answer(h)
      PROVE  Bounds' /\ KeysInTime' /\ ResponseInTime'
  <2>1. Alive
    BY <1>7 DEF Clone, DropHandle, Call, Lock, Answer, Alive
  <2>2. UNCHANGED <<published, signing, ripe, keys, pc, timer, response, failures>>
    BY <1>7 DEF Clone, DropHandle, Call, Lock, Answer, provider
  <2> QED
    BY <2>1, <2>2, QuietKeyInv
<1>8. CASE UNCHANGED vars
  <2>1. UNCHANGED <<published, signing, ripe, keys, pc, timer, response, failures, handles>>
    BY <1>8 DEF vars, provider, users
  <2> QED
    BY <2>1, QuietKeyInv DEF Alive
<1> QED
  BY <1>1, <1>2, <1>3, <1>4, <1>5, <1>6, <1>7, <1>8 DEF Next

\* While there are connections, the key that the provider signs with is known
\* to the verifier, at whatever moments the provider rotates its keys, however
\* long its answers are valid and whichever fetches fail, as long as its lead is
\* longer than TimeAssumption says.
THEOREM CurrentKeyIsAccepted == Spec => []CurrentKeyAccepted
<1>1. ExitInv /\ KeyInv => CurrentKeyAccepted
  BY DEF ExitInv, KeyInv, KeysInTime, Alive, CurrentKeyAccepted, HasKey
<1> QED
  BY <1>1, InitTypeOK, NextTypeOK, InitExitInv, NextExitInv, InitKeyInv, NextKeyInv, PTL DEF Spec
=============================================================================
