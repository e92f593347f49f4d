----------------------------- MODULE KeyUpdate -----------------------------
(***************************************************************************)
(* The keys that tokens are verified with (src/server/src/auth/jwk): a     *)
(* task fetches them again and again, the interceptors of all connections  *)
(* read them, and the last of these stops the task.  Time passes in ticks. *)
(*                                                                         *)
(* The key provider is external.  It publishes a key Lead ticks before it  *)
(* signs with it, answers within FetchTime, and no more than MaxFailures   *)
(* fetches fail in a row.                                                  *)
(***************************************************************************)
EXTENDS Naturals, Sequences

CONSTANTS
    Keys,          \* key ids, with their key material
    Handles,       \* clones of AuthImpl, one per connection and one in main
    Headers,       \* Cache-Control headers the provider sends
    Fallback,      \* FALLBACK_TIMEOUT
    Retry,         \* the pause after an error
    FetchTime, MaxFailures, Lead,
    NULL

\* get_max_age: the first max-age counts; one without a number is an error,
\* as is a header without one (or none: << >>), and stands for Fallback.
Validity(header) ==
    LET ages == SelectSeq(header, LAMBDA directive : directive.name = "max-age")
    IN  IF ages = << >> \/ ages[1].value \notin Nat THEN Fallback ELSE ages[1].value

ASSUME TimeAssumption ==
    /\ {Fallback, Retry, FetchTime, MaxFailures, Lead} \subseteq Nat
    /\ \A header \in Headers :
          Validity(header) + 2 * FetchTime + MaxFailures * (Retry + FetchTime) < Lead

VARIABLES
    published, signing,   \* of the provider
    ripe,                 \* ticks until it may sign with a new key
    keys,                 \* the verifier's map
    handles,              \* live clones; the last drop sends the exit signal
    verifying,            \* handle -> "no", "wait" (for the lock) or "read"
    exit,                 \* the value of the watch channel
    pc,                   \* of the update task
    timer,                \* until its fetch or its sleep ends
    response,             \* the keys and the header of an answer on its way
    failures              \* fetches that failed since the last success

provider == <<published, signing, ripe>>
users    == <<handles, verifying, exit>>
vars     == <<provider, keys, users, pc, timer, response, failures>>

-----------------------------------------------------------------------------
(* The provider                                                            *)

Publish(k) ==
    /\ published = {signing}
    /\ k # signing
    /\ published' = published \cup {k}
    /\ ripe' = Lead
    /\ UNCHANGED <<signing, keys, users, pc, timer, response, failures>>

SignWith(k) ==
    /\ ripe = 0
    /\ k \in published \ {signing}
    /\ signing' = k
    /\ UNCHANGED <<published, ripe, keys, users, pc, timer, response, failures>>

\* An old key is dropped once nothing is left to be published for.
Retire(k) ==
    /\ ripe = 0
    /\ k \in published \ {signing}
    /\ published' = published \ {k}
    /\ UNCHANGED <<signing, ripe, keys, users, pc, timer, response, failures>>

\* It answers a fetch with the keys of this moment.
Serve(header) ==
    /\ pc \in {"new", "fetch"}
    /\ response = NULL
    /\ response' = [keys |-> published, header |-> header]
    /\ UNCHANGED <<provider, keys, users, pc, timer, failures>>

-----------------------------------------------------------------------------
(* The update task                                                         *)

\* JwkAuth::new: the first fetch, which must not fail, fills the verifier.
Start(h) ==
    /\ pc = "new"
    /\ response # NULL
    /\ keys' = response.keys
    /\ handles' = {h}
    /\ pc' = "check"
    /\ response' = NULL
    /\ UNCHANGED <<provider, verifying, exit, timer, failures>>

StartFails ==
    /\ pc = "new"
    /\ pc' = "panicked"
    /\ response' = NULL
    /\ UNCHANGED <<provider, keys, users, timer, failures>>

\* Mutant: the loop ends with the exit of any connection.
StopEarly ==
    /\ pc = "check"
    /\ pc' = IF exit \/ handles # Handles THEN "stopped" ELSE "fetch"
    /\ timer' = FetchTime
    /\ UNCHANGED <<provider, keys, users, response, failures>>

\* should_exit
Check ==
    /\ pc = "check"
    /\ pc' = IF exit THEN "stopped" ELSE "fetch"
    /\ timer' = FetchTime
    /\ UNCHANGED <<provider, keys, users, response, failures>>

\* select!: the change of the watch channel drops key_update where it is.
Cancel ==
    /\ exit
    /\ pc \in {"fetch", "store", "sleep"}
    /\ pc' = "check"
    /\ response' = NULL
    /\ UNCHANGED <<provider, keys, users, timer, failures>>

\* Mutant: the body of the answer is not awaited.
ReceiveEarly ==
    /\ pc = "fetch"
    /\ pc' = "store"
    /\ UNCHANGED <<provider, keys, users, timer, response, failures>>

Receive ==
    /\ pc = "fetch"
    /\ response # NULL
    /\ pc' = "store"
    /\ UNCHANGED <<provider, keys, users, timer, response, failures>>

\* Mutant: after an error the task sleeps as long as after a success.
FailSlowly ==
    /\ pc = "fetch"
    /\ failures < MaxFailures
    /\ pc' = "sleep"
    /\ timer' = Fallback
    /\ failures' = failures + 1
    /\ response' = NULL
    /\ UNCHANGED <<provider, keys, users>>

\* No answer, one that is not a list of keys, or one that got lost.
FetchFails ==
    /\ pc = "fetch"
    /\ failures < MaxFailures
    /\ pc' = "sleep"
    /\ timer' = Retry
    /\ failures' = failures + 1
    /\ response' = NULL
    /\ UNCHANGED <<provider, keys, users>>

\* Mutant: new keys are added to the old ones.
AddKeys ==
    /\ pc = "store"
    /\ \A h \in handles : verifying[h] # "read"
    /\ keys' = keys \cup response.keys
    /\ pc' = "sleep"
    /\ timer' = Validity(response.header)
    /\ failures' = 0
    /\ response' = NULL
    /\ UNCHANGED <<provider, users>>

\* Mutant: the write lock is kept during the sleep.
StoreAndHold ==
    /\ pc = "store"
    /\ \A h \in handles : verifying[h] # "read"
    /\ keys' = response.keys
    /\ failures' = 0
    /\ UNCHANGED <<provider, users, pc, timer, response>>

\* set_keys, under the write lock.
StoreKeys ==
    /\ pc = "store"
    /\ \A h \in handles : verifying[h] # "read"
    /\ keys' = response.keys
    /\ pc' = "sleep"
    /\ timer' = Validity(response.header)
    /\ failures' = 0
    /\ response' = NULL
    /\ UNCHANGED <<provider, users>>

Wake ==
    /\ pc = "sleep"
    /\ timer = 0
    /\ pc' = "check"
    /\ UNCHANGED <<provider, keys, users, timer, response, failures>>

-----------------------------------------------------------------------------
(* The interceptors                                                        *)

Clone(h) ==
    /\ handles # {}
    /\ h \notin handles
    /\ handles' = handles \cup {h}
    /\ UNCHANGED <<provider, keys, verifying, exit, pc, timer, response, failures>>

\* Mutant: the last clone does not send the exit signal.
DropQuietly(h) ==
    /\ h \in handles /\ verifying[h] = "no"
    /\ handles' = handles \ {h}
    /\ UNCHANGED <<provider, keys, verifying, exit, pc, timer, response, failures>>

\* Drop for JwkAuth runs when the last clone of its Arc goes.
DropHandle(h) ==
    /\ h \in handles /\ verifying[h] = "no"
    /\ handles' = handles \ {h}
    /\ exit' = (handles' = {})
    /\ UNCHANGED <<provider, keys, verifying, pc, timer, response, failures>>

Call(h) ==
    /\ h \in handles /\ verifying[h] = "no"
    /\ verifying' = [verifying EXCEPT ![h] = "wait"]
    /\ UNCHANGED <<provider, keys, handles, exit, pc, timer, response, failures>>

\* tokio's RwLock is fair: a reader queues behind a writer that waits.
Lock(h) ==
    /\ h \in handles /\ verifying[h] = "wait"
    /\ pc # "store"
    /\ verifying' = [verifying EXCEPT ![h] = "read"]
    /\ UNCHANGED <<provider, keys, handles, exit, pc, timer, response, failures>>

\* get_key; the rest of JwkVerifier::verify looks at the token only.
HasKey(k) == k \in keys

Answer(h) ==
    /\ h \in handles /\ verifying[h] = "read"
    /\ verifying' = [verifying EXCEPT ![h] = "no"]
    /\ UNCHANGED <<provider, keys, handles, exit, pc, timer, response, failures>>

-----------------------------------------------------------------------------
\* Everything but a fetch and a sleep takes no time that counts.
Tick ==
    /\ pc = "stopped" \/ (pc \in {"new", "fetch", "sleep"} /\ timer > 0)
    /\ timer' = IF timer > 0 THEN timer - 1 ELSE 0
    /\ ripe'  = IF ripe > 0 THEN ripe - 1 ELSE 0
    /\ UNCHANGED <<published, signing, keys, users, pc, response, failures>>

Task == Check \/ Cancel \/ Receive \/ FetchFails \/ StoreKeys \/ Wake

Init ==
    /\ signing \in Keys
    /\ published = {signing}
    /\ ripe = 0
    /\ keys = {}
    /\ handles = {}
    /\ verifying = [h \in Handles |-> "no"]
    /\ exit = FALSE
    /\ pc = "new"
    /\ timer = FetchTime
    /\ response = NULL
    /\ failures = 0

Next ==
    \/ \E k \in Keys : Publish(k) \/ SignWith(k) \/ Retire(k)
    \/ \E header \in Headers : Serve(header)
    \/ \E h \in Handles : Start(h) \/ Clone(h) \/ DropHandle(h) \/ Call(h) \/ Lock(h) \/ Answer(h)
    \/ StartFails \/ Task \/ Tick

Spec == Init /\ [][Next]_vars

\* The runtime polls every task that can go on, timers fire, the lock gets
\* round to every reader, and a fetch ends one way or the other.
Fairness ==
    /\ WF_vars(\E header \in Headers : Serve(header))
    /\ WF_vars(Check) /\ WF_vars(Cancel) /\ WF_vars(StoreKeys) /\ WF_vars(Wake)
    /\ WF_vars(Receive \/ FetchFails)
    /\ WF_vars(Tick)
    /\ \A h \in Handles : SF_vars(Lock(h)) /\ WF_vars(Answer(h))

FairSpec == Spec /\ Fairness

-----------------------------------------------------------------------------
(* Properties                                                              *)

TypeOK ==
    /\ published \subseteq Keys /\ signing \in published
    /\ keys \subseteq Keys
    /\ handles \subseteq Handles
    /\ verifying \in [Handles -> {"no", "wait", "read"}]
    /\ exit \in BOOLEAN
    /\ pc \in {"new", "panicked", "check", "fetch", "store", "sleep", "stopped"}
    /\ {timer, ripe, failures} \subseteq Nat
    /\ response \in [keys : SUBSET Keys, header : Headers] \cup {NULL}
    /\ pc = "store" => response # NULL

\* While there are connections, a token signed with the provider's current
\* key is never refused for want of the key: the sleep for the validity of
\* the answer, the retries and an answer that was on its way when the key
\* was published together stay within the provider's lead.
CurrentKeyAccepted == handles # {} => HasKey(signing)

\* The keys are kept up to date as long as a connection is left; Arc counts
\* them, and the exit signal is sent once.
UpdatedWhileServing == pc = "stopped" => handles = {}

\* The task ends after the last connection: no signal is lost between
\* should_exit and changed(), nor while it fetches, stores or sleeps.
Released == handles = {} /\ pc \notin {"new", "panicked"}

TaskStops == Released ~> pc = "stopped"

\* A key that the provider has retired is forgotten, however many fetches
\* fail in between.
RetiredKeyForgotten ==
    \A k \in Keys : k \in keys \ published ~> (k \notin keys \/ k \in published \/ Released)

\* Every verification is answered: those that wait for the write lock, and
\* those that the writer waits for.
VerificationEnds == \A h \in Handles : verifying[h] # "no" ~> verifying[h] = "no"
=============================================================================
