---- MODULE CloudStoreProofs ----
(***************************************************************************)
(* The cloud stores implement an atomic map, for any number of instances,  *)
(* calls and keys, as far as CloudStore says they do.                      *)
(***************************************************************************)
EXTENDS CloudStore, TLAPS

Operations == [kind : {"get", "set", "del"}, key : Keys]

\* A call that works was asked something; one that will write was not asked to
\* get, and works on what is stored unless the history says otherwise.
WorkInv ==
    /\ \A c \in Callers : pc[c] # "idle" => op[c] \in Operations
    /\ \A c \in Callers : pc[c] \in {"lock", "write"} => op[c].kind # "get"
    /\ \A c \in Callers : pc[c] \in {"lock", "write"} /\ c \notin stale => cfg[c] = Stored

----------------------------------------------------------------------------
LEMMA EmptyType == Empty \in Maps /\ Stored \in Maps
  BY DEF Empty, Maps, Stored

\* An operation makes a map of a map.
LEMMA UpdateType ==
    ASSUME NEW m \in Maps, NEW c \in Callers, NEW o \in Operations
    PROVE  KV!Update(m, c, o) \in Maps
<1>1. CASE o.kind = "get"
  BY <1>1 DEF KV!Update
<1>2. CASE o.kind = "set"
  <2>1. KV!Update(m, c, o) = [m EXCEPT ![o.key] = c]
    BY <1>2 DEF KV!Update
  <2> QED
    BY <2>1 DEF Maps
<1>3. CASE o.kind = "del"
  <2>1. KV!Update(m, c, o) = [m EXCEPT ![o.key] = None]
    BY <1>3 DEF KV!Update
  <2> QED
    BY <2>1 DEF Maps
<1> QED
  BY <1>1, <1>2, <1>3 DEF Operations

\* What is read is a map or an error.
LEMMA ReadType ==
    ASSUME TypeOK, NEW m \in GetSecret \ {Error}
    PROVE  m \in Maps
  BY EmptyType, ProvidersAssumption DEF TypeOK, GetSecret, AwsGetSecret, GcpGetSecret, OciGetSecret

----------------------------------------------------------------------------
\* Type correctness of the whole module; WorkInv goes with it, because a write
\* stores a map only if the call was asked something.
THEOREM TypeCorrect == Spec => [](TypeOK /\ WorkInv)
<1> USE ProvidersAssumption
<1>1. Init => TypeOK /\ WorkInv
  BY EmptyType DEF Init, TypeOK, WorkInv, Final, KV!Operations
<1>2. TypeOK /\ WorkInv /\ [Next]_vars => TypeOK' /\ WorkInv'
  <2> SUFFICES ASSUME TypeOK, WorkInv, [Next]_vars PROVE TypeOK' /\ WorkInv'
    OBVIOUS
  <2> USE EmptyType
  <2>1. ASSUME NEW i \in Instances, InitConnection(i) \/ InitClients(i) PROVE TypeOK' /\ WorkInv'
    BY <2>1 DEF TypeOK, WorkInv, InitConnection, InitClients, Become, cloud, lock, Stored
  <2>2. ASSUME NEW i \in Instances, InitSecret(i) PROVE TypeOK' /\ WorkInv'
    <3>1. TypeOK'
      BY <2>2 DEF TypeOK, InitSecret, Become, lock, Pending
    <3>2. UNCHANGED <<pc, op, cfg>> /\ ((Stored' = Stored /\ stale' = stale) \/ stale' = stale \cup Pending)
      BY <2>2 DEF InitSecret, Stored, lock
    <3> QED
      BY <3>1, <3>2 DEF WorkInv, Pending
  <2>3. ASSUME NEW i \in Instances, Crash(i) PROVE TypeOK' /\ WorkInv'
    BY <2>3 DEF TypeOK, WorkInv, Crash, Become, cloud, Final, Stored
  <2>4. ASSUME NEW c \in Callers, Call(c) PROVE TypeOK' /\ WorkInv'
    BY <2>4 DEF TypeOK, WorkInv, Call, Goto, cloud, lock, Stored, Operations, KV!Operations
  <2>5. ASSUME NEW c \in Callers, RLock(c) \/ ReadError(c) \/ Lock(c) \/ WaitForSecret(c),
               ~UNCHANGED vars
        PROVE  TypeOK' /\ WorkInv'
    BY <2>5 DEF TypeOK, WorkInv, RLock, ReadError, Lock, WaitForSecret, End, Goto, cloud, Final, Stored
  <2>6. ASSUME NEW c \in Callers, Get(c) PROVE TypeOK' /\ WorkInv'
    <3>1. PICK m \in GetSecret \ {Error} :
             /\ answer' = [answer EXCEPT ![c] = m[op[c].key]]
             /\ trust' = IF m = Stored THEN trust ELSE "no"
      BY <2>6 DEF Get
    <3>2. m[op[c].key] \in Callers \cup {None}
      BY <2>6, ReadType DEF Get, WorkInv, Operations, Maps
    <3> QED
      BY <2>6, <3>1, <3>2 DEF TypeOK, WorkInv, Get, End, Goto, cloud, Final, Stored
  <2>7. ASSUME NEW c \in Callers, Read(c) PROVE TypeOK' /\ WorkInv'
    <3>1. PICK m \in GetSecret \ {Error} :
             /\ cfg' = [cfg EXCEPT ![c] = m]
             /\ stale' = IF m = Stored THEN stale ELSE stale \cup {c}
      BY <2>7 DEF Read
    <3>2. m \in Maps
      BY ReadType
    <3> QED
      BY <2>7, <3>1, <3>2 DEF TypeOK, WorkInv, Read, End, Goto, cloud, Final, Stored
  <2>8. ASSUME NEW c \in Callers, SetSecret(c) PROVE TypeOK' /\ WorkInv'
    <3>1. CASE SetSecretError(c)
      BY <2>8, <3>1 DEF TypeOK, WorkInv, SetSecretError, End, Goto, cloud, Final, Stored
    <3>2. CASE ~SetSecretError(c)
      <4>1. Replace(c)
        BY <2>8, <3>2 DEF SetSecret, AwsSetSecret, GcpSetSecret, OciSetSecret
      <4>2. KV!Update(cfg[c], c, op[c]) \in Maps
        BY <4>1, UpdateType DEF Replace, TypeOK, WorkInv
      <4>3. /\ pc' \in [Callers -> {"idle", "rlock", "read", "lock", "write", "wait"} \cup Final]
            /\ \A d \in Callers : d # c => pc'[d] = pc[d]
            /\ pc'[c] \in {"wait", "done", "failed"}
            /\ readers' \subseteq Callers /\ writers' \subseteq Callers
            /\ lifecycle' \in {"active", "updating", "failed"}
        BY <2>8, <3>2 DEF TypeOK, SetSecret, AwsSetSecret, GcpSetSecret, OciSetSecret, End, Goto, Final, lock
      <4>4. TypeOK'
        BY <4>1, <4>2, <4>3 DEF TypeOK, Replace, Pending
      <4>5. \A d \in Callers : pc'[d] \in {"lock", "write"} =>
               d # c /\ pc[d] \in {"lock", "write"} /\ d \in Pending
        BY <4>3 DEF Pending, WorkInv
      <4> QED
        BY <4>1, <4>3, <4>4, <4>5 DEF WorkInv, Replace
    <3> QED
      BY <3>1, <3>2
  <2>9. CASE Update
    BY <2>9 DEF TypeOK, WorkInv, Update, lock, Stored
  <2>10. CASE UNCHANGED vars
    BY <2>10 DEF TypeOK, WorkInv, vars, cloud, lock, Stored
  <2> QED
    BY <2>1, <2>2, <2>3, <2>4, <2>5, <2>6, <2>7, <2>8, <2>9, <2>10 DEF Next, InitStore, Step, Terminated
<1> QED
  BY <1>1, <1>2, PTL DEF Spec

----------------------------------------------------------------------------
\* The lock of a store is held exactly by the calls that read or write.
LockInv ==
    /\ readers = {c \in Callers : pc[c] = "read"}
    /\ writers = {c \in Callers : pc[c] \in {"write", "wait"}}
    /\ \A c \in writers : (readers \cup writers) \cap Mates(c) = {}

\* Steps that move no call into or out of its reading or writing.
LEMMA LockKept ==
    ASSUME LockInv, UNCHANGED lock,
           \A c \in Callers : pc'[c] = pc[c] \/ {pc[c], pc'[c]} \cap {"read", "write", "wait"} = {}
    PROVE  LockInv'
  BY DEF LockInv, lock, Mates

\* A call that ends, or stops reading.
LEMMA LockReleased ==
    ASSUME LockInv, NEW c \in Callers, NEW label \in {"lock", "done", "failed"},
           pc \in [Callers -> {"idle", "rlock", "read", "lock", "write", "wait"} \cup Final],
           End(c, label)
    PROVE  LockInv'
  BY DEF LockInv, End, Goto, Mates

LEMMA StepLock == TypeOK /\ LockInv /\ [Next]_vars => LockInv'
<1> SUFFICES ASSUME TypeOK, LockInv, [Next]_vars PROVE LockInv'
  OBVIOUS
<1>t. pc \in [Callers -> {"idle", "rlock", "read", "lock", "write", "wait"} \cup Final]
  BY DEF TypeOK
<1>1. ASSUME NEW i \in Instances, InitStore(i) PROVE LockInv'
  BY <1>1, LockKept DEF InitStore, InitConnection, InitSecret, InitClients
<1>2. ASSUME NEW i \in Instances, Crash(i) PROVE LockInv'
  BY <1>t, <1>2 DEF Crash, LockInv, Mates, Final
<1>3. ASSUME NEW c \in Callers, Call(c) PROVE LockInv'
  BY <1>t, <1>3, LockKept DEF Call, Goto
<1>4. ASSUME NEW c \in Callers, RLock(c) PROVE LockInv'
  BY <1>t, <1>4 DEF RLock, Goto, LockInv, Mates
<1>5. ASSUME NEW c \in Callers, Lock(c) PROVE LockInv'
  BY <1>t, <1>5 DEF Lock, Goto, LockInv, Mates
<1>6. ASSUME NEW c \in Callers, ~UNCHANGED vars,
             ReadError(c) \/ Get(c) \/ Read(c) \/ WaitForSecret(c) \/ SetSecretError(c)
      PROVE  LockInv'
  BY <1>t, <1>6, LockReleased DEF ReadError, Get, Read, WaitForSecret, SetSecretError
<1>7. ASSUME NEW c \in Callers, AwsSetSecret(c) \/ GcpSetSecret(c) PROVE LockInv'
  BY <1>t, <1>7, LockReleased DEF AwsSetSecret, GcpSetSecret
<1>8. ASSUME NEW c \in Callers, OciSetSecret(c) PROVE LockInv'
  <2>1. CASE End(c, "failed")
    BY <1>t, <2>1, LockReleased
  <2>2. CASE Goto(c, "wait") /\ UNCHANGED lock
    BY <1>t, <1>8, <2>2 DEF OciSetSecret, Replace, Goto, LockInv, lock, Mates
  <2> QED
    BY <1>8, <2>1, <2>2 DEF OciSetSecret
<1>9. CASE Update \/ UNCHANGED vars
  BY <1>9, LockKept DEF Update, vars
<1> QED
  BY <1>1, <1>2, <1>3, <1>4, <1>5, <1>6, <1>7, <1>8, <1>9 DEF Next, Step, SetSecret, Terminated

\* Nobody keeps the lock of a store, and a call that writes is alone
\* (awsstore.go:42-139, gcpstore.go, ocistore.go).
THEOREM LocksCorrect == Spec => []Locks
<1>1. Init => LockInv
  BY DEF Init, LockInv
<1>2. LockInv => Locks
  BY DEF LockInv, Locks, Mates
<1> QED
  BY <1>1, <1>2, StepLock, TypeCorrect, PTL DEF Spec

----------------------------------------------------------------------------
\* Where a call may be when it returns.
LEMMA ReturnStep ==
    ASSUME TypeOK, TypeOK', Stored' = Stored, UNCHANGED <<op, answer, trust>>,
           \A c \in Callers : \/ Status'[c] = Status[c]
                              \/ Status[c] = "applied" /\ Status'[c] \in {"done", "failed"}
                              \/ Status[c] = "busy" /\ Status'[c] = "failed"
    PROVE  KV!Return
<1>1. Status' \in [Callers -> {"idle", "busy", "applied", "done", "failed"}]
  BY DEF TypeOK, Status, Final
<1> QED
  BY <1>1 DEF KV!Return

\* A call whose map is what is stored writes as an atomic update would.
LEMMA WriteStep ==
    ASSUME TypeOK, WorkInv, NEW c \in Callers, Replace(c), c \notin stale,
           pc' \in [Callers -> {"idle", "rlock", "read", "lock", "write", "wait"} \cup Final],
           pc'[c] \in {"wait", "done", "failed"},
           \A d \in Callers : d # c => pc'[d] = pc[d]
    PROVE  KV!Apply(c)
<1>1. pc[c] = "write" /\ cfg[c] = Stored /\ op[c] \in Operations /\ op[c].kind # "get"
  BY DEF Replace, WorkInv
<1>2. Stored' = KV!Update(Stored, c, op[c])
  BY <1>1, EmptyType, UpdateType DEF Replace, Stored
<1>3. Status[c] = "busy"
  BY <1>1 DEF Status
<1>4. \E s \in {"applied", "done", "failed"} : Status' = [Status EXCEPT ![c] = s]
  <2>1. \A d \in Callers : d # c => Status'[d] = Status[d]
    BY DEF Status
  <2>2. Status'[c] \in {"applied", "done", "failed"}
    BY DEF Status
  <2>3. Status' = [Status EXCEPT ![c] = Status'[c]]
    BY <2>1, <2>2 DEF Status
  <2> QED
    BY <2>2, <2>3
<1>5. UNCHANGED <<op, trust, answer>>
  BY DEF Replace
<1> QED
  BY <1>1, <1>2, <1>3, <1>4, <1>5 DEF KV!Apply

\* The stores implement the atomic map, from the start until trust ends: every
\* step is a step of KeyValue's or does not show.
THEOREM AtomicMapCorrect == Spec => AtomicMap
<1>1. Init => KV!Init
  <2> SUFFICES ASSUME Init PROVE KV!Init
    OBVIOUS
  <2>1. Stored = Empty
    BY SecretsAssumption DEF Init, Stored
  <2>2. Status = [c \in Callers |-> "idle"]
    BY DEF Init, Status
  <2> QED
    BY <2>1, <2>2 DEF Init, KV!Init, Empty
<1>2. TypeOK /\ WorkInv /\ TypeOK' /\ [Next]_vars => [KV!Next]_(KV!vars)
  <2> SUFFICES ASSUME TypeOK, WorkInv, TypeOK', [Next]_vars
               PROVE  KV!Next \/ UNCHANGED KV!vars
    OBVIOUS
  <2> USE EmptyType
  <2>1. ASSUME NEW i \in Instances, InitConnection(i) \/ InitClients(i) PROVE UNCHANGED KV!vars
    BY <2>1 DEF InitConnection, InitClients, cloud, Stored, Status, KV!vars
  <2>2. ASSUME NEW i \in Instances, InitSecret(i) PROVE UNCHANGED KV!vars \/ KV!Broken
    <3>1. CASE trust' = "no"
      BY <3>1 DEF KV!Broken
    <3>2. CASE trust' # "no"
      <4>1. Stored' = Stored /\ trust' = trust
        BY <2>2, <3>2 DEF InitSecret, Stored
      <4> QED
        BY <2>2, <4>1 DEF InitSecret, Status, KV!vars
    <3> QED
      BY <3>1, <3>2
  <2>3. ASSUME NEW i \in Instances, Crash(i) PROVE KV!Return
    <3>1. Stored' = Stored /\ UNCHANGED <<op, answer, trust>>
      BY <2>3 DEF Crash, cloud, Stored
    <3>2. \A c \in Callers : pc'[c] = pc[c] \/ (pc[c] \notin Final \cup {"idle"} /\ pc'[c] = "failed")
      BY <2>3 DEF Crash, TypeOK
    <3>3. \A c \in Callers : \/ Status'[c] = Status[c]
                             \/ Status[c] = "applied" /\ Status'[c] \in {"done", "failed"}
                             \/ Status[c] = "busy" /\ Status'[c] = "failed"
      BY <3>2 DEF Status, Final, TypeOK
    <3> QED
      BY <3>1, <3>3, ReturnStep
  <2>4. ASSUME NEW c \in Callers, Call(c) PROVE KV!Begin(c)
    <3>1. Status[c] = "idle" /\ Status' = [Status EXCEPT ![c] = "busy"]
      BY <2>4 DEF Call, Goto, Status, TypeOK
    <3> QED
      BY <2>4, <3>1 DEF Call, cloud, Stored, KV!Begin
  <2>5. ASSUME NEW c \in Callers, RLock(c) \/ Read(c) \/ Lock(c) PROVE UNCHANGED KV!vars
    <3>1. Status' = Status
      BY <2>5 DEF RLock, Read, Lock, End, Goto, Status, TypeOK
    <3> QED
      BY <2>5, <3>1 DEF RLock, Read, Lock, cloud, Stored, KV!vars
  <2>6. ASSUME NEW c \in Callers, ReadError(c) \/ SetSecretError(c) \/ WaitForSecret(c),
               ~UNCHANGED vars
        PROVE  KV!Return
    <3>1. Stored' = Stored /\ UNCHANGED <<op, answer, trust>>
      BY <2>6 DEF ReadError, SetSecretError, WaitForSecret, cloud, Stored
    <3>2. \A d \in Callers : d # c => pc'[d] = pc[d]
      BY <2>6 DEF ReadError, SetSecretError, WaitForSecret, End, Goto, TypeOK
    <3>3. \/ pc[c] \in {"read", "write"} /\ pc'[c] = "failed"
          \/ pc[c] = "wait" /\ pc'[c] = "done"
      BY <2>6 DEF ReadError, SetSecretError, WaitForSecret, End, Goto, TypeOK
    <3>4. \A d \in Callers : \/ Status'[d] = Status[d]
                             \/ Status[d] = "applied" /\ Status'[d] \in {"done", "failed"}
                             \/ Status[d] = "busy" /\ Status'[d] = "failed"
      BY <3>2, <3>3 DEF Status
    <3> QED
      BY <3>1, <3>4, ReturnStep
  <2>7. ASSUME NEW c \in Callers, Get(c) PROVE KV!Apply(c) \/ KV!Broken
    <3>1. PICK m \in GetSecret \ {Error} :
             /\ answer' = [answer EXCEPT ![c] = m[op[c].key]]
             /\ trust' = IF m = Stored THEN trust ELSE "no"
      BY <2>7 DEF Get
    <3>2. CASE m = Stored
      <4>1. Status[c] = "busy" /\ Status' = [Status EXCEPT ![c] = "done"]
        BY <2>7 DEF Get, End, Goto, Status, TypeOK
      <4>2. op[c].kind = "get" /\ KV!Update(Stored, c, op[c]) = Stored
        BY <2>7 DEF Get, KV!Update
      <4>3. Stored' = Stored /\ UNCHANGED <<op, trust>>
        BY <2>7, <3>1, <3>2 DEF Get, cloud, Stored
      <4>4. answer' = [answer EXCEPT ![c] = Stored[op[c].key]]
        BY <3>1, <3>2
      <4>5. \E s \in {"applied", "done", "failed"} : Status' = [Status EXCEPT ![c] = s]
        BY <4>1
      <4> QED
        BY <4>1, <4>2, <4>3, <4>4, <4>5 DEF KV!Apply
    <3>3. CASE m # Stored
      BY <3>1, <3>3 DEF KV!Broken
    <3> QED
      BY <3>2, <3>3
  <2>8. ASSUME NEW c \in Callers, SetSecret(c), ~SetSecretError(c) PROVE KV!Apply(c) \/ KV!Broken
    <3>1. Replace(c)
      BY <2>8 DEF SetSecret, AwsSetSecret, GcpSetSecret, OciSetSecret
    <3>2. /\ pc'[c] \in {"wait", "done", "failed"}
          /\ \A d \in Callers : d # c => pc'[d] = pc[d]
      BY <2>8 DEF TypeOK, SetSecret, AwsSetSecret, GcpSetSecret, OciSetSecret, End, Goto
    <3>3. CASE c \in stale
      BY <3>1, <3>3 DEF Replace, KV!Broken
    <3>4. CASE c \notin stale
      BY <3>1, <3>2, <3>4, WriteStep DEF TypeOK
    <3> QED
      BY <3>3, <3>4
  <2>9. CASE Update
    BY <2>9 DEF Update, Stored, Status, KV!vars
  <2>10. CASE UNCHANGED vars
    BY <2>10 DEF vars, cloud, Stored, Status, KV!vars
  <2> QED
    BY <2>1, <2>2, <2>3, <2>4, <2>5, <2>6, <2>7, <2>8, <2>9, <2>10
    DEF Next, InitStore, Step, SetSecret, Terminated, KV!Next
<1> QED
  BY <1>1, <1>2, TypeCorrect, PTL DEF Spec, AtomicMap, KV!Spec
====
