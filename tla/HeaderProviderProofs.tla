---- MODULE HeaderProviderProofs ----
(***************************************************************************)
(* The token in use belongs to the agent whose initiation succeeded last,  *)
(* for any number of initiations, goroutines they left behind, lifetimes   *)
(* and durations of requests; no ticker panics while every token has a     *)
(* positive lifetime; and with LongLifetimes the token stays fresh.        *)
(***************************************************************************)
EXTENDS HeaderProvider, FiniteSetTheorems, TLAPS

\* A token as getTokenDuration reads it has the type of a token.
LEMMA TokenType ==
    ASSUME NEW o \in Initiations \cup {None}, NEW l \in Lifetimes
    PROVE  /\ Token(o, l) \in [owner : Initiations \cup {None}, life : Lifetimes \cup {0}, left : Nat]
           /\ Token(o, l).owner = o
  BY TimesAssumption DEF Token, Positive

\* Type correctness: lifetimes come from the backend or are zero, tickers are
\* never set to a negative time and no request takes longer than its timeout.
THEOREM TypeCorrect == Spec => []TypeOK
<1> USE NobodyAssumption, TimesAssumption
<1>1. Init => TypeOK
  BY DEF Init, TypeOK, NoToken, NoReply
<1>2. TypeOK /\ [Next]_vars => TypeOK'
  <2> SUFFICES ASSUME TypeOK, [Next]_vars PROVE TypeOK'
    OBVIOUS
  <2> USE DEF TypeOK, Goto, Alive, Working, Refreshing, provider
  <2>1. ASSUME NEW i \in Initiations, Initiate(i) PROVE TypeOK'
    BY <2>1 DEF Initiate
  <2>2. CASE Stop
    BY <2>2 DEF Stop
  <2>3. ASSUME NEW i \in Initiations, Step(i) PROVE TypeOK'
    <3>1. CASE LockForToken(i)
      BY <3>1 DEF LockForToken
    <3>2. CASE InitToken(i)
      BY <3>2, TokenType DEF InitToken, Odd
    <3>3. CASE InitTokenFails(i) \/ Refreshed(i) \/ RefreshFails(i)
      BY <3>3 DEF InitTokenFails, Refreshed, RefreshFails
    <3>4. CASE Arm(i)
      <4>1. ttl > 0 => ttl \div 2 \in Nat
        OBVIOUS
      <4> QED
        BY <3>4, <4>1 DEF Arm
    <3>5. CASE Refresh(i)
      BY <3>5 DEF Refresh
    <3>6. CASE Store(i)
      BY <3>6, TokenType DEF Store, Odd
    <3>7. CASE StoreDuration(i)
      BY <3>7 DEF StoreDuration, NoReply
    <3>8. CASE Stopped(i)
      BY <3>8 DEF Stopped
    <3> QED
      BY <2>3, <3>1, <3>2, <3>3, <3>4, <3>5, <3>6, <3>7, <3>8 DEF Step
  <2>4. CASE Tick
    <3>1. \A n \in Int : Positive(n) \in Nat
      BY DEF Positive
    <3>2. token' \in [owner : Initiations \cup {None}, life : Lifetimes \cup {0}, left : Nat]
      BY <2>4, <3>1 DEF Tick
    <3>3. timer' \in [Initiations -> Nat]
      BY <2>4, <3>1 DEF Tick
    <3>4. ASSUME NEW i \in Initiations, Requesting(i) \/ pc[i] = "refresh"
          PROVE  spent[i] + 1 \in 0 .. MaxRequestTime
      <4>1. spent[i] # MaxRequestTime
        BY <2>4, <3>4 DEF Tick, AtOnce, Requesting
      <4>2. spent[i] \in 0 .. MaxRequestTime
        OBVIOUS
      <4> QED
        BY <4>1, <4>2
    <3>5. spent' \in [Initiations -> 0 .. MaxRequestTime]
      BY <2>4, <3>4 DEF Tick
    <3> QED
      BY <2>4, <3>2, <3>3, <3>5 DEF Tick
  <2>5. CASE UNCHANGED vars
    BY <2>5 DEF vars
  <2> QED
    BY <2>1, <2>2, <2>3, <2>4, <2>5 DEF Next, Panicked
<1> QED
  BY <1>1, <1>2, PTL DEF Spec

----------------------------------------------------------------------------
\* As long as nothing overlapped, an initiation that is not over is the last
\* one and alone; and after one that succeeded the token and what goroutines
\* are about to store are for its credentials.
AloneInv ==
    /\ \A i \in Initiations :
          pc[i] \in {"init", "request"} =>
              /\ cred = i
              /\ \A j \in Initiations : j # i => pc[j] \notin Working
    /\ cred # None /\ pc[cred] \notin {"init", "request", "failed"} =>
          /\ token.owner = cred
          /\ \A i \in Initiations : pc[i] \in {"refresh", "store"} => reply[i].owner = cred

CredInv == crossed = "no" => AloneInv

\* The token belongs to the agent of the last successful initiation, whatever
\* goroutines of earlier ones do (header_provider.go:60-68, 116-153).
THEOREM TokenOfAgentCorrect == Spec => []TokenOfAgent
<1> USE NobodyAssumption, TimesAssumption
<1>1. Init => CredInv
  BY DEF Init, CredInv, AloneInv
<1>2. TypeOK /\ CredInv /\ [Next]_vars => CredInv'
  <2> SUFFICES ASSUME TypeOK, crossed = "no" => AloneInv, [Next]_vars, crossed' = "no"
               PROVE  AloneInv'
    BY DEF CredInv
  <2> USE DEF TypeOK, AloneInv, Goto, Working, Refreshing, provider
  <2>1. ASSUME NEW i \in Initiations, Initiate(i) PROVE AloneInv'
    <3>1. crossed = "no" /\ \A j \in Initiations : pc[j] \notin Working
      BY <2>1 DEF Initiate
    <3> QED
      BY <2>1, <3>1 DEF Initiate
  <2>2. CASE Stop
    BY <2>2 DEF Stop
  <2>3. ASSUME NEW i \in Initiations, Step(i) PROVE AloneInv'
    <3>1. CASE LockForToken(i)
      BY <3>1 DEF LockForToken
    <3>2. CASE InitToken(i)
      <4>1. PICK l \in Lifetimes :
              /\ token' = Token(cred, l)
              /\ Goto(i, IF l # 0 THEN "arm" ELSE IF pc[i] = "request" THEN "failed" ELSE "ended")
        BY <3>2 DEF InitToken
      <4>2. token'.owner = cred /\ UNCHANGED <<cred, reply, crossed>> /\ Requesting(i)
        BY <3>2, <4>1, TokenType DEF InitToken
      <4>3. CASE pc[i] = "request"
        BY <4>1, <4>2, <4>3
      <4>4. CASE pc[i] = "rerequest"
        BY <4>1, <4>2, <4>4
      <4> QED
        BY <4>2, <4>3, <4>4 DEF Requesting
    <3>3. CASE InitTokenFails(i)
      BY <3>3 DEF InitTokenFails, Requesting
    <3>4. CASE Arm(i)
      BY <3>4 DEF Arm
    <3>5. CASE Refresh(i)
      <4>1. crossed = "no" /\ \A j \in Initiations : pc[j] \notin {"init", "request"}
        BY <3>5 DEF Refresh
      <4> QED
        BY <3>5, <4>1 DEF Refresh
    <3>6. CASE Refreshed(i) \/ RefreshFails(i)
      BY <3>6 DEF Refreshed, RefreshFails
    <3>7. CASE Store(i)
      <4>1. PICK l \in Lifetimes :
              token' = Token(reply[i].owner, l) /\ reply' = [reply EXCEPT ![i].life = l]
        BY <3>7 DEF Store
      <4>2. token'.owner = reply[i].owner
        BY <4>1, TokenType
      <4>3. \A j \in Initiations : reply'[j].owner = reply[j].owner
        BY <4>1
      <4>4. pc[i] = "store" /\ pc' = [pc EXCEPT ![i] = "ttl"] /\ UNCHANGED <<cred, crossed>>
        BY <3>7 DEF Store
      <4> QED
        BY <4>2, <4>3, <4>4
    <3>8. CASE StoreDuration(i)
      BY <3>8 DEF StoreDuration
    <3>9. CASE Stopped(i)
      BY <3>9 DEF Stopped
    <3> QED
      BY <2>3, <3>1, <3>2, <3>3, <3>4, <3>5, <3>6, <3>7, <3>8, <3>9 DEF Step
  <2>4. CASE Tick
    <3>1. token'.owner = token.owner /\ UNCHANGED <<pc, cred, reply, crossed>>
      BY <2>4 DEF Tick
    <3> QED
      BY <3>1
  <2>5. CASE UNCHANGED vars
    BY <2>5 DEF vars
  <2> QED
    BY <2>1, <2>2, <2>3, <2>4, <2>5 DEF Next, Panicked
<1>3. CredInv => TokenOfAgent
  BY DEF CredInv, AloneInv, TokenOfAgent
<1> QED
  BY <1>1, <1>2, <1>3, TypeCorrect, PTL DEF Spec

----------------------------------------------------------------------------
\* As long as every token had a positive lifetime, tokenTTL is positive while a
\* goroutine is there to read it, and so is what one is about to write to it.
PositiveInv ==
    /\ process = "up"
    /\ \A i \in Initiations : pc[i] \in Alive => ttl > 0
    /\ \A i \in Initiations : pc[i] = "ttl" => reply[i].life > 0

RegularInv == odd = "no" => PositiveInv

\* No ticker panics before a token with an odd lifetime came
\* (header_provider.go:71, 92, 116-180).
THEOREM NoPanicCorrect == Spec => []NoPanic
<1> USE NobodyAssumption, TimesAssumption
<1>1. Init => RegularInv
  BY DEF Init, RegularInv, PositiveInv, Alive, Refreshing
<1>2. TypeOK /\ RegularInv /\ [Next]_vars => RegularInv'
  <2> SUFFICES ASSUME TypeOK, odd = "no" => PositiveInv, [Next]_vars, odd' = "no"
               PROVE  PositiveInv'
    BY DEF RegularInv
  <2> USE DEF TypeOK, PositiveInv, Goto, Alive, Refreshing, provider
  <2>1. ASSUME NEW i \in Initiations, Initiate(i) PROVE PositiveInv'
    BY <2>1 DEF Initiate
  <2>2. CASE Stop
    BY <2>2 DEF Stop
  <2>3. ASSUME NEW i \in Initiations, Step(i) PROVE PositiveInv'
    <3>1. CASE LockForToken(i)
      BY <3>1 DEF LockForToken
    <3>2. CASE InitToken(i)
      BY <3>2 DEF InitToken, Odd, Requesting
    <3>3. CASE InitTokenFails(i)
      BY <3>3 DEF InitTokenFails, Requesting
    <3>4. CASE Arm(i)
      BY <3>4 DEF Arm
    <3>5. CASE Refresh(i)
      BY <3>5 DEF Refresh
    <3>6. CASE Refreshed(i) \/ RefreshFails(i)
      BY <3>6 DEF Refreshed, RefreshFails
    <3>7. CASE Store(i)
      BY <3>7 DEF Store, Odd
    <3>8. CASE StoreDuration(i)
      BY <3>8 DEF StoreDuration
    <3>9. CASE Stopped(i)
      BY <3>9 DEF Stopped
    <3> QED
      BY <2>3, <3>1, <3>2, <3>3, <3>4, <3>5, <3>6, <3>7, <3>8, <3>9 DEF Step
  <2>4. CASE Tick
    BY <2>4 DEF Tick
  <2>5. CASE UNCHANGED vars
    BY <2>5 DEF vars
  <2> QED
    BY <2>1, <2>2, <2>3, <2>4, <2>5 DEF Next, Panicked
<1>3. TypeOK /\ RegularInv => NoPanic
  BY DEF RegularInv, PositiveInv, NoPanic, TypeOK
<1> QED
  BY <1>1, <1>2, <1>3, TypeCorrect, PTL DEF Spec

----------------------------------------------------------------------------
(***************************************************************************)
(* The token does not expire while it is refreshed.  This is a matter of   *)
(* time: a goroutine whose ticker fires after half of a lifetime may wait  *)
(* for the first requests of all other initiations, which hold the lock    *)
(* and fail, then its refresh fails, then it requests a new token.         *)
(***************************************************************************)

\* Initiations whose first request is yet to come, and the time until the lock
\* is free of first requests when all that can come do.
ToCome == {i \in Initiations : pc[i] \in {"idle", "init"}}
Queue ==
    MaxRequestTime * Cardinality(ToCome)
    + (IF lock # None /\ pc[lock] = "request" THEN MaxRequestTime - spent[lock] ELSE 0)

\* The time a goroutine needs besides.
Ahead(i) ==
    CASE pc[i] = "select" -> timer[i] + 2 * MaxRequestTime
      [] pc[i] = "refresh" -> 2 * MaxRequestTime - spent[i]
      [] pc[i] = "renew" -> MaxRequestTime
      [] OTHER -> 0

\* The token outlives what goroutine i is up to, or a request for a new token
\* that is under way; a ticker is set at once after a token came.
Rerequesting == lock # None /\ pc[lock] = "rerequest"
InTime(i) ==
    /\ pc[i] \in {"arm", "ttl"} => token.left = token.life
    /\ pc[i] \notin {"arm", "ttl"} /\ ~Rerequesting => token.left > Queue + Ahead(i)
DueInv ==
    process = "up" /\ token.life > 0 /\ (\A i \in Initiations : pc[i] # "ended") =>
        /\ Rerequesting => token.left > MaxRequestTime - spent[lock]
        /\ \A i \in Initiations : pc[i] \in Alive => InTime(i)

\* The lock is held during requests for new tokens, and only then.
LockInv == \A i \in Initiations : Requesting(i) <=> lock = i

\* Tickers are set to half of a lifetime at most.
TimerInv == \A i \in Initiations : \A l \in Lifetimes : l > 0 => Outlives(l, timer[i])

TimeInv == LockInv /\ TimerInv /\ DueInv

LEMMA StepLock == TypeOK /\ LockInv /\ [Next]_vars => LockInv'
<1> SUFFICES ASSUME TypeOK, LockInv, [Next]_vars PROVE LockInv'
  OBVIOUS
<1> USE NobodyAssumption DEF TypeOK, LockInv, Requesting, Goto, provider
<1>1. ASSUME NEW i \in Initiations, Initiate(i) PROVE LockInv'
  BY <1>1 DEF Initiate
<1>2. ASSUME NEW i \in Initiations, LockForToken(i) PROVE LockInv'
  BY <1>2 DEF LockForToken
<1>3. ASSUME NEW i \in Initiations, InitToken(i) \/ InitTokenFails(i) PROVE LockInv'
  BY <1>3 DEF InitToken, InitTokenFails
<1>4. ASSUME NEW i \in Initiations, Arm(i) \/ Refresh(i) PROVE LockInv'
  BY <1>4 DEF Arm, Refresh
<1>5. ASSUME NEW i \in Initiations, Refreshed(i) \/ RefreshFails(i) PROVE LockInv'
  BY <1>5 DEF Refreshed, RefreshFails
<1>6. ASSUME NEW i \in Initiations, Store(i) \/ StoreDuration(i) \/ Stopped(i) PROVE LockInv'
  BY <1>6 DEF Store, StoreDuration, Stopped
<1>7. CASE Stop \/ Tick \/ UNCHANGED vars
  BY <1>7 DEF Stop, Tick, vars
<1> QED
  BY <1>1, <1>2, <1>3, <1>4, <1>5, <1>6, <1>7 DEF Next, Step, Panicked

\* Requests for a new token exclude one another, and no path of initToken keeps
\* the lock that Store, LockForToken and the reads of the token wait for
\* (header_provider.go:116-153).
THEOREM LockCorrect == Spec => []LockInv
<1>1. Init => LockInv
  BY NobodyAssumption DEF Init, LockInv, Requesting
<1> QED
  BY <1>1, StepLock, TypeCorrect, PTL DEF Spec

LEMMA ProductNat == ASSUME NEW a \in Nat, NEW b \in Nat PROVE a * b \in Nat
  OBVIOUS

LEMMA ProductBound ==
    ASSUME NEW c \in Nat, NEW n \in Nat, NEW m \in Nat, c + 2 <= n
    PROVE  m * c + 3 * m <= (n + 1) * m
<1>1. PICK d \in Nat : n = c + 2 + d
  <2>1. n - (c + 2) \in Nat /\ n = c + 2 + (n - (c + 2))
    OBVIOUS
  <2> QED
    BY <2>1
<1>2. (n + 1) * m = m * c + 3 * m + d * m
  BY <1>1
<1>3. d * m \in Nat /\ m * c \in Nat
  BY ProductNat
<1> QED
  BY <1>2, <1>3

LEMMA StepTimer == LongLifetimes /\ TypeOK /\ TypeOK' /\ TimerInv /\ [Next]_vars => TimerInv'
<1> SUFFICES ASSUME LongLifetimes, TypeOK, TypeOK', TimerInv, [Next]_vars,
                    NEW j \in Initiations, NEW l \in Lifetimes, l > 0
             PROVE  Outlives(l, timer'[j])
  BY DEF TimerInv
<1> USE TimesAssumption DEF TypeOK
<1>1. Outlives(l, timer[j])
  BY DEF TimerInv
<1>2. \A t \in Nat : t <= timer[j] => Outlives(l, t)
  <2> Cardinality(Initiations) \in Nat
    BY FS_CardinalityType DEF LongLifetimes
  <2>1. Cardinality(Initiations) + 1 \in Nat
    OBVIOUS
  <2>2. (Cardinality(Initiations) + 1) * MaxRequestTime \in Nat
    BY <2>1, ProductNat
  <2> QED
    BY <1>1, <2>2 DEF Outlives
<1>3. ASSUME NEW i \in Initiations, Arm(i) PROVE Outlives(l, timer'[j])
  <2>1. CASE i = j /\ ttl > 0
    BY <1>3, <2>1 DEF Arm, LongLifetimes
  <2> QED
    BY <1>1, <1>3, <2>1 DEF Arm
<1>4. ASSUME NEW i \in Initiations, Stopped(i) PROVE Outlives(l, timer'[j])
  BY <1>1, <1>2, <1>4 DEF Stopped
<1>5. CASE Tick
  BY <1>2, <1>5 DEF Tick, Positive
<1>6. CASE UNCHANGED timer
  BY <1>1, <1>6
<1> QED
  BY <1>3, <1>4, <1>5, <1>6 DEF Next, Step, Panicked, vars, Initiate, Stop, LockForToken, InitToken,
     InitTokenFails, Refresh, Refreshed, RefreshFails, Store, StoreDuration

\* Where a goroutine is alive, all others' first requests and two more requests
\* take no more time than Outlives allows for.
LEMMA QueueBound ==
    ASSUME TypeOK, LockInv, LongLifetimes
    PROVE  /\ Cardinality(ToCome) \in Nat /\ Queue \in Nat
           /\ MaxRequestTime * Cardinality(ToCome) \in Nat
           /\ \A i \in Initiations : pc[i] \in Alive =>
                 Queue + 2 * MaxRequestTime <= (Cardinality(Initiations) + 1) * MaxRequestTime
<1> USE TimesAssumption DEF TypeOK
<1> DEFINE c == Cardinality(ToCome)
           n == Cardinality(Initiations)
           M == MaxRequestTime
<1>1. IsFiniteSet(Initiations) /\ IsFiniteSet(ToCome) /\ n \in Nat /\ c \in Nat
  BY FS_Subset, FS_CardinalityType DEF LongLifetimes, ToCome
<1>2. M * c \in Nat
  BY <1>1
<1>3. lock # None /\ pc[lock] = "request" => M - spent[lock] \in 0 .. M
  OBVIOUS
<1>4. Queue \in Nat
  BY <1>2, <1>3 DEF Queue
<1>5. ASSUME NEW i \in Initiations, pc[i] \in Alive
      PROVE  Queue + 2 * M <= (n + 1) * M
  <2>1. i \notin ToCome
    BY <1>5 DEF Alive, Refreshing, ToCome
  <2>2. IsFiniteSet(ToCome \cup {i}) /\ Cardinality(ToCome \cup {i}) = c + 1
    BY <1>1, <2>1, FS_AddElement
  <2>3. CASE lock # None /\ pc[lock] = "request"
    <3>1. lock \in Initiations /\ lock \notin ToCome \cup {i}
      BY <1>5, <2>3 DEF ToCome, Alive, Refreshing
    <3>2. Cardinality((ToCome \cup {i}) \cup {lock}) = Cardinality(ToCome \cup {i}) + 1
      BY <2>2, <3>1, FS_AddElement
    <3>3. (ToCome \cup {i}) \cup {lock} \in SUBSET Initiations
      BY <3>1 DEF ToCome
    <3>4. c + 2 <= n
      BY <1>1, <2>2, <3>2, <3>3, FS_Subset
    <3>5. M * c + 3 * M <= (n + 1) * M
      BY <1>1, <3>4, ProductBound
    <3>6. Queue <= M * c + M
      BY <1>2, <1>3, <2>3 DEF Queue
    <3>7. (n + 1) * M \in Nat
      BY <1>1, ProductNat
    <3> QED
      BY <1>2, <1>4, <3>5, <3>6, <3>7
  <2>4. CASE ~(lock # None /\ pc[lock] = "request")
    <3>1. ToCome \cup {i} \in SUBSET Initiations
      BY DEF ToCome
    <3>2. c + 1 <= n
      BY <1>1, <2>2, <3>1, FS_Subset
    <3>3. M * c + 2 * M <= (n + 1) * M
      BY <1>1, <1>2, <3>2
    <3> QED
      BY <1>2, <2>4, <3>3 DEF Queue
  <2> QED
    BY <2>3, <2>4
<1> QED
  BY <1>1, <1>2, <1>4, <1>5

\* A token that just came outlives everything.
LEMMA NewToken ==
    ASSUME TypeOK, LockInv, TimerInv, LongLifetimes, NEW l \in Lifetimes, l > 0,
           NEW i \in Initiations, pc[i] \in Alive
    PROVE  l > Queue + Ahead(i) /\ l > MaxRequestTime
<1> USE TimesAssumption DEF TypeOK
<1>1. Queue \in Nat /\ Queue + 2 * MaxRequestTime <= (Cardinality(Initiations) + 1) * MaxRequestTime
  BY QueueBound
<1>2. Cardinality(Initiations) + 1 \in Nat
  <2> Cardinality(Initiations) \in Nat
    BY FS_CardinalityType DEF LongLifetimes
  <2> QED
    OBVIOUS
<1>3. (Cardinality(Initiations) + 1) * MaxRequestTime \in Nat
  BY <1>2, ProductNat
<1>4. l > Queue + timer[i] + 2 * MaxRequestTime
  BY <1>1, <1>3 DEF TimerInv, Outlives
<1> QED
  BY <1>1, <1>4 DEF Ahead

\* A goroutine's needs are natural numbers.
LEMMA AheadType == ASSUME TypeOK, NEW i \in Initiations PROVE Ahead(i) \in Nat
  BY TimesAssumption DEF TypeOK, Ahead

\* A process that ended stays so, and so does one that panicked.
LEMMA NotOver ==
    ASSUME TypeOK, [Next]_vars, process' = "up", \A i \in Initiations : pc'[i] # "ended"
    PROVE  process = "up" /\ \A i \in Initiations : pc[i] # "ended"
<1> USE DEF TypeOK, Goto, provider
<1>1. CASE Stop \/ Tick \/ Panicked \/ UNCHANGED vars
  BY <1>1 DEF Stop, Tick, Panicked, vars
<1>2. ASSUME NEW i \in Initiations, Initiate(i), process = "up" PROVE \A j \in Initiations : pc[j] # "ended"
  BY <1>2 DEF Initiate
<1>3. ASSUME NEW i \in Initiations, LockForToken(i) \/ InitToken(i) \/ InitTokenFails(i)
      PROVE  \A j \in Initiations : pc[j] # "ended"
  BY <1>3 DEF LockForToken, InitToken, InitTokenFails, Requesting
<1>4. ASSUME NEW i \in Initiations, Arm(i) \/ Refresh(i) \/ Refreshed(i) \/ RefreshFails(i)
      PROVE  \A j \in Initiations : pc[j] # "ended"
  BY <1>4 DEF Arm, Refresh, Refreshed, RefreshFails
<1>5. ASSUME NEW i \in Initiations, Store(i) \/ StoreDuration(i) \/ Stopped(i)
      PROVE  \A j \in Initiations : pc[j] # "ended"
  BY <1>5 DEF Store, StoreDuration, Stopped
<1> QED
  BY <1>1, <1>2, <1>3, <1>4, <1>5 DEF Next, Step

LEMMA StepDue ==
    LongLifetimes /\ TypeOK /\ TypeOK' /\ LockInv /\ LockInv' /\ TimerInv /\ DueInv /\ [Next]_vars => DueInv'
<1> SUFFICES ASSUME LongLifetimes, TypeOK, TypeOK', LockInv, LockInv', TimerInv, DueInv, [Next]_vars,
                    process' = "up", token'.life > 0, \A i \in Initiations : pc'[i] # "ended"
             PROVE  /\ Rerequesting' => token'.left > MaxRequestTime - spent'[lock']
                    /\ \A i \in Initiations : pc'[i] \in Alive => InTime(i)'
  BY DEF DueInv
<1> DEFINE Goal == /\ Rerequesting' => token'.left > MaxRequestTime - spent'[lock']
                   /\ \A i \in Initiations : pc'[i] \in Alive => InTime(i)'
<1> USE NobodyAssumption, TimesAssumption DEF Goto, provider
<1>a. /\ Cardinality(ToCome) \in Nat /\ Queue \in Nat /\ MaxRequestTime * Cardinality(ToCome) \in Nat
      /\ \A i \in Initiations : Ahead(i) \in Nat
  BY QueueBound, AheadType
<1>b. process = "up" /\ \A i \in Initiations : pc[i] # "ended"
  BY NotOver
<1>c. token.life > 0 =>
          /\ Rerequesting => token.left > MaxRequestTime - spent[lock]
          /\ \A i \in Initiations : pc[i] \in Alive => InTime(i)
  BY <1>b DEF DueInv
\* A step that takes time from nobody.
<1>d. ASSUME UNCHANGED <<token, lock>>, Queue' = Queue, Rerequesting => spent'[lock] = spent[lock],
             \A i \in Initiations : pc'[i] = "rerequest" <=> pc[i] = "rerequest",
             \A i \in Initiations : pc'[i] \in {"arm", "ttl"} => pc[i] \in {"arm", "ttl"},
             \A i \in Initiations :
                 pc'[i] \in Alive => pc[i] \in Alive /\
                     (pc'[i] \in {"arm", "ttl"} \/ (pc[i] \notin {"arm", "ttl"} /\ Ahead(i)' <= Ahead(i)))
      PROVE  Goal
  <2>1. Rerequesting' = Rerequesting
    BY <1>d DEF Rerequesting, TypeOK
  <2>2. \A i \in Initiations : Ahead(i)' \in Int
    BY DEF TypeOK, Ahead
  <2>3. token.life > 0 /\ token.left \in Nat
    BY <1>d DEF TypeOK
  <2>4. Rerequesting' => token'.left > MaxRequestTime - spent'[lock']
    BY <1>c, <1>d, <2>1, <2>3
  <2>5. ASSUME NEW i \in Initiations, pc'[i] \in Alive PROVE InTime(i)'
    <3>1. InTime(i) /\ pc[i] \in Alive
      BY <1>c, <1>d, <2>3, <2>5
    <3>2. CASE pc'[i] \in {"arm", "ttl"}
      BY <1>d, <3>1, <3>2 DEF InTime
    <3>3. CASE pc'[i] \notin {"arm", "ttl"}
      <4>1. pc[i] \notin {"arm", "ttl"} /\ Ahead(i)' <= Ahead(i)
        BY <1>d, <2>5, <3>3
      <4> QED
        BY <1>a, <1>d, <2>1, <2>2, <2>3, <3>1, <3>3, <4>1 DEF InTime
    <3> QED
      BY <3>2, <3>3
  <2> QED
    BY <2>4, <2>5
\* A new token, when the lock is free.
<1>e. ASSUME NEW l \in Lifetimes, l > 0, token'.life = l, token'.left = l, lock' = None, Queue' <= Queue,
             Queue' \in Int, UNCHANGED timer,
             \A i \in Initiations :
                 pc'[i] \in Alive \ {"arm", "ttl"} => pc[i] \in Alive /\ pc'[i] = pc[i] /\ spent'[i] = spent[i]
      PROVE  Goal
  <2>1. ~Rerequesting'
    BY <1>e DEF Rerequesting
  <2>2. ASSUME NEW i \in Initiations, pc'[i] \in Alive \ {"arm", "ttl"} PROVE InTime(i)'
    <3>1. Ahead(i)' = Ahead(i) /\ pc[i] \in Alive
      BY <1>e, <2>2 DEF Ahead
    <3>2. l > Queue + Ahead(i)
      BY <1>e, <3>1, NewToken
    <3>3. l > Queue' + Ahead(i)'
      BY <1>a, <1>e, <3>1, <3>2 DEF TypeOK
    <3> QED
      BY <1>e, <2>1, <2>2, <3>3 DEF InTime
  <2>3. ASSUME NEW i \in Initiations, pc'[i] \in {"arm", "ttl"} PROVE InTime(i)'
    BY <1>e, <2>3 DEF InTime
  <2> QED
    BY <2>1, <2>2, <2>3
<1> USE DEF TypeOK, Alive, Refreshing
<1>1. ASSUME NEW i \in Initiations, Initiate(i) PROVE Goal
  <2>1. ToCome' = ToCome
    BY <1>1 DEF Initiate, ToCome
  <2>2. Queue' = Queue
    BY <1>1, <2>1 DEF Initiate, Queue
  <2> QED
    BY <1>1, <1>d, <2>2 DEF Initiate, Ahead, Rerequesting
<1>2. CASE Stop \/ UNCHANGED vars
  <2>1. UNCHANGED <<pc, lock, spent, timer, token>>
    BY <1>2 DEF Stop, vars
  <2>2. Queue' = Queue /\ \A i \in Initiations : Ahead(i)' = Ahead(i)
    BY <2>1 DEF Queue, ToCome, Ahead
  <2> QED
    BY <1>d, <1>a, <2>1, <2>2
<1>3. ASSUME NEW i \in Initiations, LockForToken(i), pc[i] = "init" PROVE Goal
  <2>1. /\ lock = None /\ lock' = i /\ pc' = [pc EXCEPT ![i] = "request"]
        /\ spent' = [spent EXCEPT ![i] = 0] /\ UNCHANGED <<token, timer>>
    BY <1>3 DEF LockForToken
  <2>2. ToCome' = ToCome \ {i} /\ i \in ToCome
    BY <1>3, <2>1 DEF ToCome
  <2>3. Cardinality(ToCome') = Cardinality(ToCome) - 1
    <3>1. IsFiniteSet(ToCome)
      BY FS_Subset DEF LongLifetimes, ToCome
    <3> QED
      BY <2>2, <3>1, FS_RemoveElement
  <2>4. Queue' = Queue
    <3>1. MaxRequestTime * Cardinality(ToCome') + MaxRequestTime = MaxRequestTime * Cardinality(ToCome)
      BY <1>a, <2>3
    <3>2. Queue = MaxRequestTime * Cardinality(ToCome)
      BY <1>a, <2>1 DEF Queue
    <3>3. Queue' = MaxRequestTime * Cardinality(ToCome') + (MaxRequestTime - 0)
      BY <2>1 DEF Queue
    <3>4. MaxRequestTime * Cardinality(ToCome') \in Int
      BY <1>a, <2>3
    <3> QED
      BY <3>1, <3>2, <3>3, <3>4
  <2>5. ~Rerequesting /\ ~Rerequesting' /\ token.life > 0
    BY <2>1 DEF Rerequesting
  <2>6. \A j \in Initiations : pc'[j] \in Alive => pc[j] \in Alive /\ pc'[j] = pc[j] /\ Ahead(j)' = Ahead(j)
    BY <2>1 DEF Ahead
  <2> QED
    BY <1>c, <2>1, <2>4, <2>5, <2>6 DEF InTime
<1>4. ASSUME NEW i \in Initiations, LockForToken(i), pc[i] = "renew" PROVE Goal
  <2>1. /\ lock = None /\ lock' = i /\ pc' = [pc EXCEPT ![i] = "rerequest"]
        /\ spent' = [spent EXCEPT ![i] = 0] /\ UNCHANGED <<token, timer>>
    BY <1>4 DEF LockForToken
  <2>2. ~Rerequesting /\ Rerequesting' /\ token.life > 0
    BY <2>1 DEF Rerequesting
  <2>3. token.left > Queue + MaxRequestTime
    <3>1. InTime(i)
      BY <1>4, <1>c, <2>2
    <3>2. Ahead(i) = MaxRequestTime
      BY <1>4 DEF Ahead
    <3> QED
      BY <1>4, <2>2, <3>1, <3>2 DEF InTime
  <2>4. token'.left > MaxRequestTime - spent'[lock']
    BY <1>a, <2>1, <2>3
  <2>5. ASSUME NEW j \in Initiations, pc'[j] \in Alive PROVE InTime(j)'
    BY <1>c, <2>1, <2>2, <2>5 DEF InTime
  <2> QED
    BY <2>4, <2>5
<1>5. ASSUME NEW i \in Initiations, InitToken(i) PROVE Goal
  <2>1. PICK l \in Lifetimes : token' = Token(cred, l) /\ Goto(i, IF l # 0 THEN "arm" ELSE IF pc[i] = "request" THEN "failed" ELSE "ended")
    BY <1>5 DEF InitToken
  <2>2. l > 0 /\ token'.life = l /\ token'.left = l
    BY <2>1 DEF Token, Positive
  <2>3. /\ pc[i] \in {"request", "rerequest"} /\ pc' = [pc EXCEPT ![i] = "arm"]
        /\ lock' = None /\ UNCHANGED <<timer, spent>>
    <3>1. l # 0
      BY <2>2
    <3> QED
      BY <1>5, <2>1, <3>1 DEF InitToken, Requesting
  <2>4. ToCome' = ToCome
    BY <2>3 DEF ToCome
  <2>5. Queue' = MaxRequestTime * Cardinality(ToCome) /\ Queue' <= Queue
    BY <1>a, <2>3, <2>4 DEF Queue
  <2> QED
    BY <1>a, <1>e, <2>2, <2>3, <2>5
<1>6. ASSUME NEW i \in Initiations, InitTokenFails(i) PROVE Goal
  <2>1. /\ pc[i] = "request" /\ lock = i /\ lock' = None /\ pc' = [pc EXCEPT ![i] = "failed"]
        /\ UNCHANGED <<token, timer, spent>>
    BY <1>6 DEF InitTokenFails, Requesting, LockInv
  <2>2. ToCome' = ToCome
    BY <2>1 DEF ToCome
  <2>3. Queue' = MaxRequestTime * Cardinality(ToCome) /\ Queue' <= Queue
    BY <1>a, <2>1, <2>2 DEF Queue
  <2>4. ~Rerequesting /\ ~Rerequesting' /\ token.life > 0
    BY <2>1 DEF Rerequesting
  <2>5. \A j \in Initiations : pc'[j] \in Alive => pc[j] \in Alive /\ pc'[j] = pc[j] /\ Ahead(j)' = Ahead(j)
    BY <2>1 DEF Ahead
  <2> QED
    BY <1>a, <1>c, <2>1, <2>3, <2>4, <2>5 DEF InTime
<1>7. ASSUME NEW i \in Initiations, Arm(i) PROVE Goal
  <2>1. /\ pc[i] = "arm" /\ ttl > 0 /\ timer' = [timer EXCEPT ![i] = ttl \div 2]
        /\ pc' = [pc EXCEPT ![i] = "select"] /\ UNCHANGED <<token, lock, spent>>
    BY <1>7 DEF Arm
  <2>2. ToCome' = ToCome
    BY <2>1 DEF ToCome
  <2>3. Queue' = Queue /\ Rerequesting' = Rerequesting
    BY <2>1, <2>2 DEF Queue, Rerequesting
  <2>4. token.left = token.life /\ token.life \in Lifetimes /\ token.life > 0 /\ ttl \in Lifetimes
    BY <1>c, <2>1 DEF InTime
  <2>5. token.left > Queue + (ttl \div 2 + 2 * MaxRequestTime)
    <3>1. Outlives(token.left, ttl \div 2)
      BY <2>1, <2>4 DEF LongLifetimes
    <3>2. Queue + 2 * MaxRequestTime <= (Cardinality(Initiations) + 1) * MaxRequestTime
      BY <2>1, QueueBound
    <3>3. ttl \div 2 \in Nat
      BY <2>1
    <3>4. Cardinality(Initiations) + 1 \in Nat
      <4> Cardinality(Initiations) \in Nat
        BY FS_CardinalityType DEF LongLifetimes
      <4> QED
        OBVIOUS
    <3>5. (Cardinality(Initiations) + 1) * MaxRequestTime \in Nat
      BY <3>4, ProductNat
    <3> QED
      BY <1>a, <3>1, <3>2, <3>3, <3>5 DEF Outlives
  <2>6. InTime(i)'
    <3>1. Ahead(i)' = ttl \div 2 + 2 * MaxRequestTime
      BY <2>1 DEF Ahead
    <3> QED
      BY <2>1, <2>3, <2>5, <3>1 DEF InTime
  <2>7. \A j \in Initiations \ {i} : pc'[j] \in Alive => pc[j] \in Alive /\ pc'[j] = pc[j] /\ Ahead(j)' = Ahead(j)
    BY <2>1 DEF Ahead
  <2>8. \A j \in Initiations \ {i} : pc'[j] \in Alive => InTime(j)'
    BY <1>c, <2>1, <2>3, <2>4, <2>7 DEF InTime
  <2> QED
    BY <1>c, <2>1, <2>3, <2>4, <2>6, <2>8
<1>8. ASSUME NEW i \in Initiations, Refresh(i) PROVE Goal
  <2>1. /\ pc[i] = "select" /\ timer[i] = 0 /\ lock = None /\ pc' = [pc EXCEPT ![i] = "refresh"]
        /\ spent' = [spent EXCEPT ![i] = 0] /\ UNCHANGED <<token, lock, timer>>
    BY <1>8 DEF Refresh
  <2>2. ToCome' = ToCome
    BY <2>1 DEF ToCome
  <2>3. Queue' = Queue /\ ~Rerequesting
    BY <2>1, <2>2 DEF Queue, Rerequesting
  <2>4. \A j \in Initiations : Ahead(j)' = Ahead(j)
    BY <2>1 DEF Ahead
  <2> QED
    BY <1>a, <1>d, <2>1, <2>3, <2>4
<1>9. ASSUME NEW i \in Initiations, Refreshed(i) \/ RefreshFails(i) PROVE Goal
  <2>1. /\ pc[i] = "refresh" /\ UNCHANGED <<token, lock, timer, spent>>
        /\ pc' = [pc EXCEPT ![i] = "store"] \/ pc' = [pc EXCEPT ![i] = "renew"]
    BY <1>9 DEF Refreshed, RefreshFails
  <2>2. ToCome' = ToCome
    BY <2>1 DEF ToCome
  <2>3. Queue' = Queue
    BY <2>1, <2>2 DEF Queue
  <2>4. \A j \in Initiations : Ahead(j)' <= Ahead(j)
    BY <2>1 DEF Ahead
  <2> QED
    BY <1>d, <2>1, <2>3, <2>4
<1>10. ASSUME NEW i \in Initiations, Store(i) PROVE Goal
  <2>1. PICK l \in Lifetimes : token' = Token(reply[i].owner, l)
    BY <1>10 DEF Store
  <2>2. l > 0 /\ token'.life = l /\ token'.left = l
    BY <2>1 DEF Token, Positive
  <2>3. pc[i] = "store" /\ pc' = [pc EXCEPT ![i] = "ttl"] /\ lock = None /\ lock' = None /\ UNCHANGED <<timer, spent>>
    BY <1>10 DEF Store
  <2>4. ToCome' = ToCome
    BY <2>3 DEF ToCome
  <2>5. Queue' = Queue
    BY <2>3, <2>4 DEF Queue
  <2> QED
    BY <1>a, <1>e, <2>2, <2>3, <2>5
<1>11. ASSUME NEW i \in Initiations, StoreDuration(i) PROVE Goal
  <2>1. pc[i] = "ttl" /\ pc' = [pc EXCEPT ![i] = "arm"] /\ UNCHANGED <<token, lock, timer, spent>>
    BY <1>11 DEF StoreDuration
  <2>2. ToCome' = ToCome
    BY <2>1 DEF ToCome
  <2>3. Queue' = Queue /\ \A j \in Initiations : Ahead(j)' = Ahead(j)
    BY <2>1, <2>2 DEF Queue, Ahead
  <2> QED
    BY <1>a, <1>d, <2>1, <2>3
<1>12. ASSUME NEW i \in Initiations, Stopped(i) PROVE FALSE
  BY <1>12 DEF Stopped
<1>13. CASE Tick
  <2>1. /\ token' = [token EXCEPT !.left = Positive(token.left - 1)] /\ UNCHANGED <<lock, pc>>
        /\ \A i \in Initiations : ~AtOnce(i)
        /\ timer' = [i \in Initiations |-> Positive(timer[i] - 1)]
        /\ spent' = [i \in Initiations |->
                       IF Requesting(i) \/ pc[i] = "refresh" THEN spent[i] + 1 ELSE spent[i]]
    BY <1>13 DEF Tick
  <2>2. token.life > 0 /\ token.left \in Nat /\ (token.left > 0 => token'.left = token.left - 1)
    BY <2>1 DEF Positive
  <2>3. \A i \in Initiations : pc[i] \notin {"arm", "ttl"}
    BY <2>1 DEF AtOnce
  <2>4. CASE Rerequesting
    <3>1. lock \in Initiations /\ spent[lock] \in Nat /\ spent'[lock] = spent[lock] + 1 /\ spent[lock] < MaxRequestTime
      BY <2>1, <2>4 DEF Rerequesting, AtOnce, Requesting
    <3>2. token.left > MaxRequestTime - spent[lock]
      BY <1>c, <2>2, <2>4
    <3>3. token'.left > MaxRequestTime - spent'[lock']
      BY <2>1, <2>2, <3>1, <3>2
    <3>4. Rerequesting'
      BY <2>1, <2>4 DEF Rerequesting
    <3> QED
      BY <2>1, <2>3, <3>3, <3>4 DEF InTime
  <2>5. CASE ~Rerequesting
    <3>1. ~Rerequesting'
      BY <2>1, <2>5 DEF Rerequesting
    <3>2. ToCome' = ToCome
      BY <2>1 DEF ToCome
    <3>3. ASSUME NEW i \in Initiations, pc[i] \in Alive
          PROVE  Queue' + Ahead(i)' <= Queue + Ahead(i) - 1
      <4>1. CASE lock = None
        <5>1. Queue' = Queue
          BY <2>1, <3>2, <4>1 DEF Queue
        <5>2. (pc[i] = "select" /\ timer[i] > 0) \/ pc[i] = "refresh"
          BY <2>1, <2>5, <3>3, <4>1 DEF AtOnce, LockInv, Requesting
        <5>3. CASE pc[i] = "select" /\ timer[i] > 0
          <6>1. timer'[i] = timer[i] - 1 /\ pc'[i] = "select"
            BY <2>1, <5>3 DEF Positive
          <6> QED
            BY <1>a, <5>1, <5>3, <6>1 DEF Ahead
        <5>4. CASE pc[i] = "refresh"
          <6>1. spent'[i] = spent[i] + 1 /\ pc'[i] = "refresh"
            BY <2>1, <5>4
          <6> QED
            BY <1>a, <5>1, <5>4, <6>1 DEF Ahead
        <5> QED
          BY <5>2, <5>3, <5>4
      <4>2. CASE lock # None
        <5>1. lock \in Initiations /\ pc[lock] = "request" /\ spent'[lock] = spent[lock] + 1 /\ spent[lock] \in Nat
          BY <2>1, <2>5, <4>2 DEF Rerequesting, LockInv, Requesting
        <5>2. Queue' = Queue - 1
          BY <1>a, <2>1, <3>2, <4>2, <5>1 DEF Queue
        <5>3. Ahead(i)' <= Ahead(i) /\ Ahead(i)' \in Int
          BY <2>1 DEF Ahead, Positive
        <5> QED
          BY <1>a, <5>2, <5>3
      <4> QED
        BY <4>1, <4>2
    <3>4. ASSUME NEW i \in Initiations, pc'[i] \in Alive PROVE InTime(i)'
      <4>1. pc[i] \in Alive /\ token.left > Queue + Ahead(i)
        BY <1>c, <2>1, <2>2, <2>3, <2>5, <3>4 DEF InTime
      <4>2. Queue' \in Int /\ Ahead(i)' \in Int
        BY <1>a, <2>1, <3>2 DEF Queue, Ahead
      <4>3. token'.left > Queue' + Ahead(i)'
        BY <1>a, <2>2, <3>3, <4>1, <4>2
      <4> QED
        BY <2>1, <2>3, <4>3 DEF InTime
    <3> QED
      BY <3>1, <3>4
  <2> QED
    BY <2>4, <2>5
<1> QED
  <2>1. ASSUME NEW i \in Initiations, LockForToken(i) PROVE Goal
    BY <1>3, <1>4, <2>1 DEF LockForToken
  <2> QED
    BY <2>1, <1>1, <1>2, <1>5, <1>6, <1>7, <1>8, <1>9, <1>10, <1>11, <1>12, <1>13 DEF Next, Step, Panicked

\* Whatever initiations come, fail or leave goroutines behind: while no goroutine
\* gave up the token does not expire, provided lifetimes are long enough for the
\* requests of all initiations and alike (header_provider.go:70-98, 116-180).
THEOREM FreshCorrect == LongLifetimes /\ Spec => []Fresh
<1> SUFFICES ASSUME LongLifetimes PROVE Spec => []Fresh
  OBVIOUS
<1>1. Init => TimeInv
  <2> SUFFICES ASSUME Init PROVE TimeInv
    OBVIOUS
  <2>1. ASSUME NEW i \in Initiations, NEW l \in Lifetimes, l > 0 PROVE Outlives(l, timer[i])
    <3>1. Outlives(l, l \div 2) /\ timer[i] = 0
      BY <2>1 DEF Init, LongLifetimes
    <3>2. l \in Int /\ l \div 2 \in Nat /\ (Cardinality(Initiations) + 1) * MaxRequestTime \in Nat
      <4>1. Cardinality(Initiations) \in Nat
        BY FS_CardinalityType DEF LongLifetimes
      <4>2. Cardinality(Initiations) + 1 \in Nat
        BY <4>1
      <4> QED
        BY <2>1, <4>2, TimesAssumption, ProductNat
    <3> QED
      BY <3>1, <3>2 DEF Outlives
  <2> QED
    BY <2>1, NobodyAssumption DEF Init, NoToken, TimeInv, LockInv, TimerInv, DueInv, Requesting
<1>2. TypeOK /\ TypeOK' /\ TimeInv /\ [Next]_vars => TimeInv'
  BY StepLock, StepTimer, StepDue DEF TimeInv
<1>3. TypeOK /\ TimeInv => Fresh
  <2> SUFFICES ASSUME TypeOK, TimeInv, process = "up", token.life > 0,
                      NEW i \in Initiations, pc[i] \in Alive, \A j \in Initiations : pc[j] # "ended"
               PROVE  token.left > 0
    BY DEF Fresh
  <2> USE TimesAssumption DEF TypeOK
  <2>1. (Rerequesting => token.left > MaxRequestTime - spent[lock]) /\ InTime(i)
    BY DEF TimeInv, DueInv
  <2>2. Queue \in Nat /\ Ahead(i) \in Nat
    BY QueueBound, AheadType DEF TimeInv
  <2>3. CASE Rerequesting
    BY <2>1, <2>3 DEF Rerequesting
  <2> QED
    BY <2>1, <2>2, <2>3 DEF InTime
<1> QED
  BY <1>1, <1>2, <1>3, TypeCorrect, PTL DEF Spec
====
