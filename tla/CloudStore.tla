---- MODULE CloudStore ----
(***************************************************************************)
(* The key-value stores that keep everything in one secret of a cloud      *)
(* provider (internal/util/awsstore.go, gcpstore.go, ocistore.go), used by *)
(* calls in one or more instances of the program.                          *)
(*                                                                         *)
(* Get, Set and Del are the same text in the three files; they differ in   *)
(* how the secret is initialised, read and written.                        *)
(***************************************************************************)
CONSTANTS
    Providers, \* the store types that may be configured
    Instances, \* instances of the program that share the secret
    Callers,   \* calls to the store, each by its own goroutine
    InstanceOf,\* where a call is made
    Keys,
    None,      \* no value
    Marker,    \* the secret says that it is not initialised
    Absent,    \* the secret does not exist
    Error      \* an error instead of the secret

ASSUME InstancesAssumption == InstanceOf \in [Callers -> Instances]

ASSUME ProvidersAssumption == Providers \subseteq {"aws", "gcp", "oci"}

Maps == [Keys -> Callers \cup {None}]
Empty == [k \in Keys |-> None]

ASSUME SecretsAssumption ==
    /\ None \notin Callers
    /\ Marker \notin Maps /\ Absent \notin Maps /\ Error \notin Maps
    /\ Marker # Absent

VARIABLES
    provider, \* config.Store.Type
    instance, \* an instance's store: "off", to be initialised, "up", "failed"
    secret,   \* what the provider stores
    lifecycle,\* whether an OCI secret is "active", "updating" or in a state
              \* it does not leave for "active": "failed"
    pc,       \* where a call is
    op,       \* what it was asked to do
    cfg,      \* the map it works on
    answer,   \* the value that Get returned
    readers,  \* the calls that hold their store's lock for reading
    writers,  \* ... and for writing
    stale,    \* history: calls whose cfg is not what is stored any more
    trust     \* history: "no" once a map was written or used that was not
              \* what is stored

cloud == <<secret, lifecycle>>
lock == <<readers, writers>>
vars == <<provider, instance, cloud, pc, op, cfg, answer, lock, stale, trust>>

\* The map that is stored, as a reader should see it.
Stored == IF secret \in Maps THEN secret ELSE Empty

\* Where a call is, as its caller could tell.
Status ==
    [c \in Callers |->
        IF pc[c] \in {"rlock", "read", "lock", "write"} THEN "busy"
        ELSE IF pc[c] = "wait" THEN "applied"
        ELSE pc[c]]

KV == INSTANCE KeyValue WITH map <- Stored, status <- Status

Final == {"done", "failed"}

TypeOK ==
    /\ provider \in Providers
    /\ instance \in [Instances -> {"off", "fresh", "up", "failed"}]
    /\ secret \in Maps \cup {Marker, Absent}
    /\ lifecycle \in {"active", "updating", "failed"}
    /\ pc \in [Callers -> {"idle", "rlock", "read", "lock", "write", "wait"} \cup Final]
    /\ op \in [Callers -> KV!Operations \cup {None}]
    /\ cfg \in [Callers -> Maps]
    /\ answer \in [Callers -> Callers \cup {None}]
    /\ readers \subseteq Callers /\ writers \subseteq Callers
    /\ stale \subseteq Callers
    /\ trust \in {"yes", "no"}

\* The operator creates the secret for AWS and GCP with the text that marks it
\* as not initialised; the program creates the one of OCI.
Init ==
    /\ provider \in Providers
    /\ instance = [i \in Instances |-> "off"]
    /\ secret = IF provider = "oci" THEN Absent ELSE Marker
    /\ lifecycle = "active"
    /\ pc = [c \in Callers |-> "idle"]
    /\ op = [c \in Callers |-> None]
    /\ cfg = [c \in Callers |-> Empty]
    /\ answer = [c \in Callers |-> None]
    /\ readers = {} /\ writers = {}
    /\ stale = {}
    /\ trust = "yes"

----------------------------------------------------------------------------
\* The secret, as each provider's code reads it.

\* A secret that is still the marker is a string: an error, like any other.
AwsGetSecret == {Error} \cup ({secret} \cap Maps)

\* Its "latest" version is what it was at the first of two requests; the marker
\* is not JSON.
GcpGetSecret == {Error} \cup ({secret} \cap Maps)

\* A secret that is not found, or that the key service does not decrypt, reads
\* as an empty one.
OciGetSecret == {Empty} \cup (IF secret \in Maps THEN {Error, secret} ELSE {})

GetSecret ==
    CASE provider = "aws" -> AwsGetSecret
      [] provider = "gcp" -> GcpGetSecret
      [] provider = "oci" -> OciGetSecret

\* The calls whose map changes to the secret make out of date.
Pending == {c \in Callers : pc[c] \in {"lock", "write"} /\ op[c].kind # "get"}

----------------------------------------------------------------------------
\* Init of the three stores, run when an instance starts.

Become(i, state) == instance' = [instance EXCEPT ![i] = state]

\* AWS and GCP: read the secret; a marker asks for the first content.
InitConnection(i) ==
    /\ instance[i] = "off" /\ provider \in {"aws", "gcp"}
    /\ \/ secret \in Maps /\ Become(i, "up")
       \/ secret = Marker /\ Become(i, "fresh")
       \/ Become(i, "failed")
    /\ UNCHANGED <<provider, cloud, pc, op, cfg, answer, lock, stale, trust>>

\* ... which is written over whatever is there by then.
InitSecret(i) ==
    /\ instance[i] = "fresh"
    /\ \/ /\ secret' = Empty
          /\ Become(i, "up") \/ Become(i, "failed")
          /\ stale' = IF Stored = Empty THEN stale ELSE stale \cup Pending
          /\ trust' = IF Stored = Empty THEN trust ELSE "no"
       \/ /\ Become(i, "failed")
          /\ UNCHANGED <<secret, stale, trust>>
    /\ UNCHANGED <<provider, lifecycle, pc, op, cfg, answer, lock>>

\* OCI: clients are made; the secret is not read.
InitClients(i) ==
    /\ instance[i] = "off" /\ provider = "oci"
    /\ Become(i, "up") \/ Become(i, "failed")
    /\ UNCHANGED <<provider, cloud, pc, op, cfg, answer, lock, stale, trust>>

----------------------------------------------------------------------------
\* Get, Set and Del.

Goto(c, label) == pc' = [pc EXCEPT ![c] = label]

Mates(c) == {d \in Callers : InstanceOf[d] = InstanceOf[c]} \ {c}

\* A call returns and gives back the lock it holds.
End(c, label) ==
    /\ Goto(c, label)
    /\ readers' = readers \ {c} /\ writers' = writers \ {c}

Call(c) ==
    /\ pc[c] = "idle" /\ instance[InstanceOf[c]] = "up"
    /\ \E o \in KV!Operations : op' = [op EXCEPT ![c] = o]
    /\ Goto(c, "rlock")
    /\ UNCHANGED <<provider, instance, cloud, cfg, answer, lock, stale, trust>>

RLock(c) ==
    /\ pc[c] = "rlock" /\ writers \cap Mates(c) = {}
    /\ readers' = readers \cup {c}
    /\ Goto(c, "read")
    /\ UNCHANGED <<provider, instance, cloud, op, cfg, answer, writers, stale, trust>>

\* A plausible slip: one return path does not give back the lock.
ReadErrorLocked(c) ==
    /\ pc[c] = "read" /\ Error \in GetSecret
    /\ Goto(c, "failed")
    /\ UNCHANGED <<provider, instance, cloud, op, cfg, answer, lock, stale, trust>>

ReadError(c) ==
    /\ pc[c] = "read" /\ Error \in GetSecret
    /\ End(c, "failed")
    /\ UNCHANGED <<provider, instance, cloud, op, cfg, answer, stale, trust>>

\* A value, or ErrKVNotFound.
Get(c) ==
    /\ pc[c] = "read" /\ op[c].kind = "get"
    /\ \E m \in GetSecret \ {Error} :
          /\ answer' = [answer EXCEPT ![c] = m[op[c].key]]
          /\ trust' = IF m = Stored THEN trust ELSE "no"
    /\ End(c, "done")
    /\ UNCHANGED <<provider, instance, cloud, op, cfg, stale>>

\* A plausible slip: the error is not looked at.
ReadUnchecked(c) ==
    /\ pc[c] = "read" /\ op[c].kind # "get"
    /\ \E m \in GetSecret : cfg' = [cfg EXCEPT ![c] = m]
    /\ End(c, "lock")
    /\ UNCHANGED <<provider, instance, cloud, op, answer, stale, trust>>

\* Set and Del give the lock back before they take it again for writing.
Read(c) ==
    /\ pc[c] = "read" /\ op[c].kind # "get"
    /\ \E m \in GetSecret \ {Error} :
          /\ cfg' = [cfg EXCEPT ![c] = m]
          /\ stale' = IF m = Stored THEN stale ELSE stale \cup {c}
    /\ End(c, "lock")
    /\ UNCHANGED <<provider, instance, cloud, op, answer, trust>>

Lock(c) ==
    /\ pc[c] = "lock" /\ (readers \cup writers) \cap Mates(c) = {}
    /\ writers' = writers \cup {c}
    /\ Goto(c, "write")
    /\ UNCHANGED <<provider, instance, cloud, op, cfg, answer, readers, stale, trust>>

\* The provider replaces the secret; the map goes with the call.
Replace(c) ==
    /\ pc[c] = "write"
    /\ cfg' = [cfg EXCEPT ![c] = Empty]
    /\ secret' = KV!Update(cfg[c], c, op[c])
    /\ stale' = (stale \cup Pending) \ {c}
    /\ trust' = IF c \in stale THEN "no" ELSE trust
    /\ UNCHANGED <<provider, instance, op, answer>>

\* UpdateSecret and AddSecretVersion; the answer may be lost.
AwsSetSecret(c) ==
    /\ provider = "aws" /\ Replace(c)
    /\ End(c, "done") \/ End(c, "failed")
    /\ UNCHANGED lifecycle

GcpSetSecret(c) ==
    /\ provider = "gcp" /\ Replace(c)
    /\ End(c, "done") \/ End(c, "failed")
    /\ UNCHANGED lifecycle

\* CreateSecret or UpdateSecret, which are refused while the secret is being
\* updated; then waitForSecret polls with the lock held.
OciSetSecret(c) ==
    /\ provider = "oci" /\ lifecycle = "active" /\ Replace(c)
    /\ lifecycle' = "updating"
    /\ \/ Goto(c, "wait") /\ UNCHANGED lock
       \/ End(c, "failed")

\* A plausible slip: the error is logged and the call returns without it.
SetSecretSilently(c) ==
    /\ pc[c] = "write"
    /\ End(c, "done")
    /\ UNCHANGED <<provider, instance, cloud, op, cfg, answer, stale, trust>>

SetSecretError(c) ==
    /\ pc[c] = "write"
    /\ cfg' = [cfg EXCEPT ![c] = Empty]
    /\ stale' = stale \ {c}
    /\ End(c, "failed")
    /\ UNCHANGED <<provider, instance, cloud, op, answer, trust>>

\* One poll of waitForSecret: the secret is active and the call returns, or the
\* request fails or finds another state and the loop goes on, the lock held.
WaitForSecret(c) ==
    /\ pc[c] = "wait"
    /\ \/ /\ lifecycle = "active"
          /\ End(c, "done")
          /\ UNCHANGED <<provider, instance, cloud, op, cfg, answer, stale, trust>>
       \/ UNCHANGED vars

----------------------------------------------------------------------------
\* The provider completes an update, or the secret ends in another state: the
\* update fails, somebody deletes it.
Update ==
    /\ lifecycle = "updating"
    /\ lifecycle' \in {"active", "failed"}
    /\ UNCHANGED <<provider, instance, secret, pc, op, cfg, answer, lock, stale, trust>>

\* An instance ends with all its calls, and may be started again.
Crash(i) ==
    /\ instance[i] \in {"fresh", "up"}
    /\ Become(i, "off")
    /\ LET lost == {c \in Callers : InstanceOf[c] = i /\ pc[c] \notin Final \cup {"idle"}}
       IN  /\ lost # {}
           /\ pc' = [c \in Callers |-> IF c \in lost THEN "failed" ELSE pc[c]]
           /\ readers' = readers \ lost /\ writers' = writers \ lost
    /\ UNCHANGED <<provider, cloud, op, cfg, answer, stale, trust>>

InitStore(i) == InitConnection(i) \/ InitSecret(i) \/ InitClients(i)
SetSecret(c) == AwsSetSecret(c) \/ GcpSetSecret(c) \/ OciSetSecret(c) \/ SetSecretError(c)
Step(c) == RLock(c) \/ ReadError(c) \/ Get(c) \/ Read(c) \/ Lock(c) \/ SetSecret(c)

\* No call is left, or none can be made.
Terminated ==
    /\ \A c \in Callers : pc[c] \in Final \/ (pc[c] = "idle" /\ instance[InstanceOf[c]] = "failed")
    /\ UNCHANGED vars

Next ==
    \/ \E i \in Instances : InitStore(i) \/ Crash(i)
    \/ \E c \in Callers : Call(c) \/ Step(c) \/ WaitForSecret(c)
    \/ Update
    \/ Terminated

Spec == Init /\ [][Next]_vars

\* Go runs a call's goroutine, and a request of the provider's client ends.  Not
\* that a poll ever succeeds or that the secret ever becomes active.
FairSpec == Spec /\ \A c \in Callers : WF_vars(Step(c))

----------------------------------------------------------------------------
\* The store is an atomic map for its callers in all instances, with failing
\* requests, lost answers and crashes, until two updates overlap (Set and Del
\* let go of the lock between reading and writing, awsstore.go:84-85, and other
\* instances do not share it), or OCI reads a secret it could not get as an
\* empty one (ocistore.go:235, 250, 255).
AtomicMap == KV!Spec

\* A call that waits for its store's lock waits for a call that is reading or
\* writing: whoever returns, fails or dies has given the lock back.  And whoever
\* writes the secret is alone with it in its instance (awsstore.go:42-139).
Locks ==
    /\ \A c \in readers : pc[c] = "read"
    /\ \A c \in writers : pc[c] \in {"write", "wait"}
    /\ \A c \in Callers : pc[c] \in {"write", "wait"} =>
          \A d \in Mates(c) : pc[d] \notin {"read", "write", "wait"}

\* A call returns, if no call in its own instance waits for ever for an OCI secret
\* to become active - the loop of waitForSecret has no other end and keeps the
\* lock (ocistore.go:317-327).  Neither the other paths (awsstore.go:67-100) nor
\* what the calls of other instances do can keep it from returning.
CallsReturn ==
    \A c \in Callers :
        (\A d \in {c} \cup Mates(c) : []<>(pc[d] # "wait")) => (pc[c] = "rlock" ~> pc[c] \in Final)
====
