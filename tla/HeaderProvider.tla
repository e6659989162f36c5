---- MODULE HeaderProvider ----
(***************************************************************************)
(* The provider of the authentication header (internal/auth/               *)
(* header_provider.go): every registration attempt, and the program's      *)
(* start, initiates it with the credentials of an agent; each initiation   *)
(* that gets a token leaves a goroutine behind that refreshes the token.   *)
(*                                                                         *)
(* An initiation and the goroutine it starts are one process here.  Time   *)
(* is counted in units; it passes only when nobody has something to do at  *)
(* once, and a request takes MaxRequestTime at most.                       *)
(***************************************************************************)
EXTENDS Integers, FiniteSets

CONSTANTS
    Initiations,   \* calls of Initiate, which also name their credentials
    None,          \* nobody
    Lifetimes,     \* how long a new token is valid; 0 when that cannot be read
                   \* from it, negative when it is over already
    MaxRequestTime \* bound on the time a request takes

ASSUME NobodyAssumption == None \notin Initiations

ASSUME TimesAssumption == Lifetimes \subseteq Int /\ MaxRequestTime \in Nat

VARIABLES
    process, \* "up", or "panicked" in the constructor or reset of a ticker
    cred,    \* the credentials in the provider
    token,   \* whose token it holds, and for how long it was and is valid
    ttl,     \* tokenTTL
    lock,    \* who holds the lock during a request
    stop,    \* whether the stop channel is closed
    pc,      \* where a process is
    timer,   \* time until its ticker fires
    spent,   \* time its request has taken
    reply,   \* the token that its refresh request is about
    \* history
    crossed, \* an initiation and a refresh, or two initiations, overlapped
    odd      \* a token came whose lifetime was not positive

provider == <<cred, token, ttl, lock>>
vars == <<process, provider, stop, pc, timer, spent, reply, crossed, odd>>

NoToken == [owner |-> None, life |-> 0, left |-> 0]
NoReply == [owner |-> None, life |-> 0]

Positive(n) == IF n > 0 THEN n ELSE 0

Refreshing == {"refresh", "store", "ttl"}
Working == {"init", "request", "arm", "renew", "rerequest"} \cup Refreshing
Alive == {"select"} \cup Refreshing \cup {"arm", "renew", "rerequest"}

TypeOK ==
    /\ process \in {"up", "panicked"}
    /\ cred \in Initiations \cup {None}
    /\ token \in [owner : Initiations \cup {None}, life : Lifetimes \cup {0}, left : Nat]
    /\ ttl \in Lifetimes \cup {0}
    /\ lock \in Initiations \cup {None}
    /\ stop \in {"open", "closed"}
    /\ pc \in [Initiations -> Alive \cup Working \cup {"idle", "failed", "ended"}]
    /\ timer \in [Initiations -> Nat]
    /\ spent \in [Initiations -> 0 .. MaxRequestTime]
    /\ reply \in [Initiations -> [owner : Initiations \cup {None}, life : Lifetimes \cup {0}]]
    /\ crossed \in {"no", "yes"} /\ odd \in {"no", "yes"}

Init ==
    /\ process = "up"
    /\ cred = None /\ token = NoToken /\ ttl = 0 /\ lock = None
    /\ stop = "open"
    /\ pc = [i \in Initiations |-> "idle"]
    /\ timer = [i \in Initiations |-> 0]
    /\ spent = [i \in Initiations |-> 0]
    /\ reply = [i \in Initiations |-> NoReply]
    /\ crossed = "no" /\ odd = "no"

----------------------------------------------------------------------------
Goto(i, label) == pc' = [pc EXCEPT ![i] = label]

\* A new token of o, as getTokenDuration reads it.
Token(o, l) == [owner |-> o, life |-> l, left |-> Positive(l)]

\* The history of a token that comes with lifetime l.
Odd(l) == odd' = IF l > 0 THEN odd ELSE "yes"

\* Initiate takes the credentials over, without the lock.
Initiate(i) ==
    /\ pc[i] = "idle"
    /\ cred' = i
    /\ Goto(i, "init")
    /\ crossed' = IF \E j \in Initiations : pc[j] \in Working THEN "yes" ELSE crossed
    /\ UNCHANGED <<process, token, ttl, lock, stop, timer, spent, reply, odd>>

\* initToken holds the lock during its request, at first or from the goroutine.
LockForToken(i) ==
    /\ pc[i] \in {"init", "renew"} /\ lock = None
    /\ lock' = i
    /\ Goto(i, IF pc[i] = "init" THEN "request" ELSE "rerequest")
    /\ spent' = [spent EXCEPT ![i] = 0]
    /\ UNCHANGED <<process, cred, token, ttl, stop, timer, reply, crossed, odd>>

Requesting(i) == pc[i] \in {"request", "rerequest"}

\* A plausible slip: the goroutine keeps the credentials it was started with.
InitTokenOfStart(i) ==
    /\ Requesting(i)
    /\ lock' = None
    /\ \E l \in Lifetimes :
          /\ Odd(l)
          /\ token' = Token(i, l)
          /\ ttl' = l
          /\ Goto(i, IF l # 0 THEN "arm" ELSE IF pc[i] = "request" THEN "failed" ELSE "ended")
    /\ UNCHANGED <<process, cred, stop, timer, spent, reply, crossed>>

\* A plausible slip: the lifetime is halved here and again for the ticker.
InitTokenHalved(i) ==
    /\ Requesting(i)
    /\ lock' = None
    /\ \E l \in Lifetimes :
          /\ Odd(l)
          /\ token' = Token(cred, l)
          /\ ttl' = l \div 2
          /\ Goto(i, IF l # 0 THEN "arm" ELSE IF pc[i] = "request" THEN "failed" ELSE "ended")
    /\ UNCHANGED <<process, cred, stop, timer, spent, reply, crossed>>

\* The backend answers with a token for the credentials in the provider; one
\* without a lifetime is kept, but an error.
InitToken(i) ==
    /\ Requesting(i)
    /\ lock' = None
    /\ \E l \in Lifetimes :
          /\ Odd(l)
          /\ token' = Token(cred, l)
          /\ ttl' = l
          /\ Goto(i, IF l # 0 THEN "arm" ELSE IF pc[i] = "request" THEN "failed" ELSE "ended")
    /\ UNCHANGED <<process, cred, stop, timer, spent, reply, crossed>>

\* A plausible slip: a request that fails clears the lifetime.
InitTokenFailsClears(i) ==
    /\ Requesting(i)
    /\ lock' = None
    /\ ttl' = 0
    /\ Goto(i, IF pc[i] = "request" THEN "failed" ELSE "ended")
    /\ UNCHANGED <<process, cred, token, stop, timer, spent, reply, crossed, odd>>

\* The request fails: the initiation with it, or the goroutine.
InitTokenFails(i) ==
    /\ Requesting(i)
    /\ lock' = None
    /\ Goto(i, IF pc[i] = "request" THEN "failed" ELSE "ended")
    /\ UNCHANGED <<process, cred, token, ttl, stop, timer, spent, reply, crossed, odd>>

\* A plausible slip: the ticker is set to the whole lifetime.
ArmLate(i) ==
    /\ pc[i] = "arm"
    /\ IF ttl > 0
       THEN timer' = [timer EXCEPT ![i] = ttl] /\ Goto(i, "select") /\ UNCHANGED process
       ELSE process' = "panicked" /\ UNCHANGED <<pc, timer>>
    /\ UNCHANGED <<provider, stop, spent, reply, crossed, odd>>

\* NewTicker and Reset get half of tokenTTL as it is by then, and panic when
\* that is not positive.
Arm(i) ==
    /\ pc[i] = "arm"
    /\ IF ttl > 0
       THEN timer' = [timer EXCEPT ![i] = ttl \div 2] /\ Goto(i, "select") /\ UNCHANGED process
       ELSE process' = "panicked" /\ UNCHANGED <<pc, timer>>
    /\ UNCHANGED <<provider, stop, spent, reply, crossed, odd>>

\* The ticker fires and refreshToken reads the token.
Refresh(i) ==
    /\ pc[i] = "select" /\ timer[i] = 0 /\ lock = None
    /\ Goto(i, "refresh")
    /\ spent' = [spent EXCEPT ![i] = 0]
    /\ reply' = [reply EXCEPT ![i].owner = token.owner]
    /\ crossed' = IF \E j \in Initiations : pc[j] \in {"init", "request"} THEN "yes" ELSE crossed
    /\ UNCHANGED <<process, provider, stop, timer, odd>>

\* The backend extends that token.
Refreshed(i) ==
    /\ pc[i] = "refresh"
    /\ Goto(i, "store")
    /\ UNCHANGED <<process, provider, stop, timer, spent, reply, crossed, odd>>

\* Refreshing fails, or brings no token: a new token is issued.
RefreshFails(i) ==
    /\ pc[i] = "refresh"
    /\ Goto(i, "renew")
    /\ UNCHANGED <<process, provider, stop, timer, spent, reply, crossed, odd>>

\* The extended token replaces whatever token is there by then ...
Store(i) ==
    /\ pc[i] = "store" /\ lock = None
    /\ \E l \in Lifetimes :
          /\ Odd(l)
          /\ token' = Token(reply[i].owner, l)
          /\ reply' = [reply EXCEPT ![i].life = l]
    /\ Goto(i, "ttl")
    /\ UNCHANGED <<process, cred, ttl, lock, stop, timer, spent, crossed>>

\* ... and tokenTTL follows, without the lock.
StoreDuration(i) ==
    /\ pc[i] = "ttl"
    /\ ttl' = reply[i].life
    /\ reply' = [reply EXCEPT ![i] = NoReply]
    /\ Goto(i, "arm")
    /\ UNCHANGED <<process, cred, token, lock, stop, timer, spent, crossed, odd>>

\* close(p.stop)
Stop ==
    /\ stop = "open"
    /\ stop' = "closed"
    /\ UNCHANGED <<process, provider, pc, timer, spent, reply, crossed, odd>>

\* A plausible slip: one value is sent instead, which one goroutine receives.
StoppedAlone(i) ==
    /\ pc[i] = "select" /\ stop = "closed"
    /\ stop' = "open"
    /\ Goto(i, "ended")
    /\ timer' = [timer EXCEPT ![i] = 0]
    /\ UNCHANGED <<process, provider, spent, reply, crossed, odd>>

\* select finds the closed channel.
Stopped(i) ==
    /\ pc[i] = "select" /\ stop = "closed"
    /\ Goto(i, "ended")
    /\ timer' = [timer EXCEPT ![i] = 0]
    /\ UNCHANGED <<process, provider, stop, spent, reply, crossed, odd>>

----------------------------------------------------------------------------
\* What a process does before time passes.
AtOnce(i) ==
    \/ pc[i] \in {"arm", "ttl"}
    \/ pc[i] \in {"init", "renew", "store"} /\ lock = None
    \/ pc[i] = "select" /\ (stop = "closed" \/ (timer[i] = 0 /\ lock = None))
    \/ pc[i] \in {"request", "rerequest", "refresh"} /\ spent[i] = MaxRequestTime

Tick ==
    /\ process = "up" /\ \A i \in Initiations : ~AtOnce(i)
    /\ token' = [token EXCEPT !.left = Positive(@ - 1)]
    /\ timer' = [i \in Initiations |-> Positive(timer[i] - 1)]
    /\ spent' = [i \in Initiations |->
                    IF Requesting(i) \/ pc[i] = "refresh" THEN spent[i] + 1 ELSE spent[i]]
    /\ UNCHANGED <<process, cred, ttl, lock, stop, pc, reply, crossed, odd>>

\* The goroutine of a process runs.
Step(i) ==
    /\ process = "up"
    /\ \/ LockForToken(i) \/ InitToken(i) \/ InitTokenFails(i) \/ Arm(i)
       \/ Refresh(i) \/ Refreshed(i) \/ RefreshFails(i) \/ Store(i) \/ StoreDuration(i)
       \/ Stopped(i)

Panicked == process = "panicked" /\ UNCHANGED vars

Next ==
    \/ process = "up" /\ ((\E i \in Initiations : Initiate(i)) \/ Stop)
    \/ \E i \in Initiations : Step(i)
    \/ Tick
    \/ Panicked

Spec == Init /\ [][Next]_vars

\* Go runs runnable goroutines and requests have a timeout (httpclient.go).
FairSpec == Spec /\ WF_vars(Tick) /\ \A i \in Initiations : WF_vars(Step(i))

----------------------------------------------------------------------------
\* A token valid for l units outlives t of them and all the requests of
\* a goroutine and of the initiations it may have to wait for.
Outlives(l, t) == l - t > (Cardinality(Initiations) + 1) * MaxRequestTime

\* Lifetimes are long, and so alike that it does not matter to which token the
\* value belongs that a ticker finds in tokenTTL, which is written outside of
\* the lock (header_provider.go:178).
LongLifetimes ==
    /\ IsFiniteSet(Initiations)
    /\ \A l, m \in Lifetimes : l > 0 /\ m > 0 => Outlives(l, m \div 2)

\* While no goroutine gave up, the token does not expire: half of its lifetime
\* leaves time for a refresh that fails and a new token, also when several
\* initiations left goroutines behind (header_provider.go:70-98).  A token that
\* was not valid from the start is excepted.
Fresh ==
    /\ process = "up" /\ token.life > 0
    /\ \E i \in Initiations : pc[i] \in Alive
    /\ \A i \in Initiations : pc[i] # "ended"
    => token.left > 0

\* After an initiation that succeeded, and did not overlap with another one or
\* with a refresh, the token is one for its credentials, whatever older
\* goroutines do with it (header_provider.go:60-68, 116-153).
TokenOfAgent ==
    crossed = "no" /\ cred # None /\ pc[cred] \notin {"init", "request", "failed"}
    => token.owner = cred

\* A ticker panics only after a token whose lifetime was not positive: whatever
\* goroutine reads tokenTTL, and whenever, requests that fail have not changed it
\* and no other value gets there (header_provider.go:71, 92, 116-180).
NoPanic == process = "panicked" => odd = "yes"

\* Stop ends all goroutines, however many there are (header_provider.go:94, 103).
RefreshersEnd ==
    \A i \in Initiations :
        stop = "closed" /\ pc[i] \in Alive ~> pc[i] = "ended" \/ process = "panicked"
====
