---- MODULE ActionHandling ----
(***************************************************************************)
(* How one or several Signing Agent instances of the same agent handle an  *)
(* action: the auto approver's message goroutines                          *)
(* (internal/autoapprover), the REST approve and reject requests           *)
(* (internal/service/action_service.go), the Redis lock and the "already   *)
(* handled" mark they synchronise on (internal/action/syncronizer.go), the *)
(* signer's calls to the backend (internal/action/signer.go) and the       *)
(* message cache that successful requests clear.                           *)
(*                                                                         *)
(* A handler is one goroutine: one feed message or one REST request.  The  *)
(* redsync.Mutex object a handler creates is named by that handler, and so *)
(* is the random value with which it takes a lock in Redis.                *)
(***************************************************************************)
EXTENDS Naturals

CONSTANTS
    Agents,           \* instances (processes)
    Actions,          \* action ids
    Handlers,         \* goroutines that may be started
    AgentOf,          \* the instance a handler runs in
    ActionOf,         \* the action it handles
    KindOf,           \* "auto", "approve" or "reject"
    AutoAgents,       \* instances configured with AutoApprove.Enabled
    None,             \* no handler, no mutex, no lock value
    LoadBalancing,    \* LoadBalancing.Enable
    RedisFaults,      \* may calls to Redis fail?
    MaxCrashes,       \* bound on the number of crashes
    RetryInterval,    \* AutoApprove.RetryInterval
    RetryIntervalMax, \* AutoApprove.RetryIntervalMax
    MaxRequestTime    \* bound on the time one POST takes

Kinds == {"auto", "approve", "reject"}

ASSUME HandlersAssumption ==
    /\ AgentOf \in [Handlers -> Agents]
    /\ ActionOf \in [Handlers -> Actions]
    /\ KindOf \in [Handlers -> Kinds]
    /\ \A h \in Handlers : KindOf[h] = "auto" => AgentOf[h] \in AutoAgents

ASSUME NoneAssumption == None \notin Handlers

\* Without load balancing nothing synchronises instances: there is one.
ASSUME DeploymentAssumption ==
    /\ LoadBalancing \in BOOLEAN
    /\ RedisFaults \in BOOLEAN
    /\ LoadBalancing \/ \A a, b \in Agents : a = b

ASSUME BoundsAssumption ==
    /\ MaxCrashes \in Nat
    /\ RetryInterval \in Nat \ {0}
    /\ RetryIntervalMax \in Nat
    /\ MaxRequestTime \in Nat

VARIABLES
    \* per handler
    pc,         \* where the goroutine is
    target,     \* the mutex object its AcquireLock call locks
    reply,      \* what act returns: "none" before it does, "ok", "error"
    elapsed,    \* time.Since(retryTimer.start)
    wait,       \* retryTimer.baseInc
    \* per instance and per mutex object
    slot,       \* syncronize.mutex, one field shared by the whole instance
    value,      \* redsync.Mutex.value
    \* Redis, or process memory for the cache of a lone instance
    lock,       \* the lock key of an action: the value stored there
    marked,     \* actions whose action_v2 key is set
    cache,      \* actions whose message is in the message cache
    \* the feed and the backend
    fed,        \* <<instance, action>>: the hub has cached the message
    expired,    \* actions past their expire time
    decision,   \* what the backend recorded for the action
    crashes,
    \* history, read by no action
    signed,     \* handlers whose signature the backend took
    overlapped, \* instances where two handlers used the slot at a time
    lapsed,     \* actions whose lock's TTL ran out while it was held
    faulted,    \* handlers that may have left a lock behind on a Redis error
    stale       \* actions whose message came after their decision, or stayed
                \* because Redis failed to remove it

handlerVars == <<pc, target, reply, elapsed, wait>>
mutexVars == <<slot, value>>
redisVars == <<lock, marked, cache>>
worldVars == <<fed, expired, decision, crashes>>
historyVars == <<signed, overlapped, lapsed, faulted, stale>>
vars == <<handlerVars, mutexVars, redisVars, worldVars, historyVars>>

IsAuto(h) == KindOf[h] = "auto"
HasCache(a) == a \notin AutoAgents
Verdict(h) == IF KindOf[h] = "reject" THEN "rejected" ELSE "approved"

\* Between NewMutex and Unlock a handler relies on the slot; between Lock and
\* Unlock it holds the lock; in the section it talks to the backend.
Section == {"get", "post", "remove"}
Holding == Section \cup {"unlock"}
Using == Holding \cup {"acquire", "locking"}
SyncOnly == {"check", "assign", "acquire", "locking", "unlock", "mark"}
PCs == Section \cup SyncOnly \cup {"idle", "done", "crashed"}

\* One type invariant: the state's shape, and the bookkeeping that ties the
\* program counter to the configuration (no lock code runs without load balancing).
TypeOK ==
    /\ pc \in [Handlers -> PCs]
    /\ target \in [Handlers -> Handlers \cup {None}]
    /\ reply \in [Handlers -> {"none", "ok", "error"}]
    /\ elapsed \in [Handlers -> Nat]
    /\ wait \in [Handlers -> Nat]
    /\ slot \in [Agents -> Handlers \cup {None}]
    /\ value \in [Handlers -> Handlers \cup {None}]
    /\ lock \in [Actions -> Handlers \cup {None}]
    /\ marked \in SUBSET Actions
    /\ cache \in SUBSET Actions
    /\ fed \in SUBSET (Agents \X Actions)
    /\ expired \in SUBSET Actions
    /\ decision \in [Actions -> {"pending", "approved", "rejected"}]
    /\ crashes \in 0 .. MaxCrashes
    /\ signed \in SUBSET Handlers
    /\ overlapped \in SUBSET Agents
    /\ lapsed \in SUBSET Actions
    /\ faulted \in SUBSET Handlers
    /\ stale \in SUBSET Actions
    /\ \A h \in Handlers : pc[h] \in SyncOnly => LoadBalancing

Init ==
    /\ pc = [h \in Handlers |-> "idle"]
    /\ target = [h \in Handlers |-> None]
    /\ reply = [h \in Handlers |-> "none"]
    /\ elapsed = [h \in Handlers |-> 0]
    /\ wait = [h \in Handlers |-> RetryInterval]
    /\ slot = [a \in Agents |-> None]
    /\ value = [h \in Handlers |-> None]
    /\ lock = [A \in Actions |-> None]
    /\ marked = {}
    /\ cache = {}
    /\ fed = {}
    /\ expired = {}
    /\ decision = [A \in Actions |-> "pending"]
    /\ crashes = 0
    /\ signed = {}
    /\ overlapped = {}
    /\ lapsed = {}
    /\ faulted = {}
    /\ stale = {}

----------------------------------------------------------------------------
\* Steps of a handler.

Goto(h, label) == pc' = [pc EXCEPT ![h] = label]

\* act's return value; the auto approver has no caller to answer.
Answer(h, r) == reply' = IF IsAuto(h) THEN reply ELSE [reply EXCEPT ![h] = r]

\* A plausible slip: defer Release before looking at the configuration.
LeaveAlwaysReleases(h) == Goto(h, "unlock")

\* Leaving the signing code runs the deferred Release, if there is one.
Leave(h) == Goto(h, IF LoadBalancing THEN "unlock" ELSE "done")

\* autoApprover.handleMessage up to the call of shouldHandleAction: a message
\* that cannot be decoded, has expired or is not pending is dropped.
HandleMessage(h) ==
    /\ pc[h] = "idle" /\ IsAuto(h)
    /\ \/ Goto(h, "done")
       \/ /\ ActionOf[h] \notin expired
          /\ Goto(h, IF LoadBalancing THEN "check" ELSE "post")
    /\ UNCHANGED <<target, reply, elapsed, wait, mutexVars, redisVars, worldVars, historyVars>>

\* actionSrv.act up to its first call.
Act(h) ==
    /\ pc[h] = "idle" /\ ~IsAuto(h)
    /\ Goto(h, IF LoadBalancing THEN "check" ELSE "get")
    /\ UNCHANGED <<target, reply, elapsed, wait, mutexVars, redisVars, worldVars, historyVars>>

\* syncronize.ShouldHandleAction, the read of the mark.  Any error of Get, not
\* only "no such key", counts as "not handled yet"; act answers success for an
\* action that was handled.
ShouldHandleAction(h) ==
    /\ pc[h] = "check"
    /\ \/ /\ ActionOf[h] \in marked
          /\ Answer(h, "ok")
          /\ Goto(h, "done")
       \/ /\ ActionOf[h] \notin marked \/ RedisFaults
          /\ Goto(h, "assign")
          /\ UNCHANGED reply
    /\ UNCHANGED <<target, elapsed, wait, mutexVars, redisVars, worldVars, historyVars>>

\* a.mutex = a.sync.NewMutex(actionID): overwrites what another handler of the
\* same instance put there.
NewMutex(h) ==
    /\ pc[h] = "assign"
    /\ slot' = [slot EXCEPT ![AgentOf[h]] = h]
    /\ overlapped' = IF \E g \in Handlers : AgentOf[g] = AgentOf[h] /\ pc[g] \in Using
                       THEN overlapped \cup {AgentOf[h]} ELSE overlapped
    /\ Goto(h, "acquire")
    /\ UNCHANGED <<target, reply, elapsed, wait, value, redisVars, worldVars, signed, lapsed, faulted, stale>>

\* AcquireLock evaluates a.mutex and enters the Lock method of that object.
AcquireLock(h) ==
    /\ pc[h] = "acquire"
    /\ target' = [target EXCEPT ![h] = slot[AgentOf[h]]]
    /\ Goto(h, "locking")
    /\ UNCHANGED <<reply, elapsed, wait, mutexVars, redisVars, worldVars, historyVars>>

\* redsync: SET NX succeeds on one of the tries and the value is kept in the
\* mutex object.  The reply of act starts with the signer's first request.
Lock(h) ==
    LET name == ActionOf[target[h]] IN
    /\ pc[h] = "locking"
    /\ lock[name] = None
    /\ lock' = [lock EXCEPT ![name] = h]
    /\ value' = [value EXCEPT ![target[h]] = h]
    /\ Goto(h, IF IsAuto(h) THEN "post" ELSE "get")
    /\ UNCHANGED <<target, reply, elapsed, wait, slot, marked, cache, worldVars, historyVars>>

\* A reply lost on the way from Redis can leave the lock taken.
LockErrorEffect(h) ==
    LET name == ActionOf[target[h]] IN
    \/ /\ lock[name] # None \/ RedisFaults
       /\ UNCHANGED <<lock, faulted>>
    \/ /\ lock[name] = None /\ RedisFaults
       /\ lock' = [lock EXCEPT ![name] = h]
       /\ faulted' = faulted \cup {h}

\* A plausible slip: log the lock error and go on to sign.
LockErrorIgnored(h) ==
    /\ pc[h] = "locking"
    /\ LockErrorEffect(h)
    /\ Goto(h, IF IsAuto(h) THEN "post" ELSE "get")
    /\ UNCHANGED <<target, reply, elapsed, wait, mutexVars, marked, cache, worldVars, signed, overlapped, lapsed, stale>>

\* redsync's tries are used up: Lock returns an error, AcquireLock sleeps and
\* returns it, the caller gives up without a Release.
LockError(h) ==
    /\ pc[h] = "locking"
    /\ LockErrorEffect(h)
    /\ Answer(h, "error")
    /\ Goto(h, "done")
    /\ UNCHANGED <<target, elapsed, wait, mutexVars, marked, cache, worldVars, signed, overlapped, lapsed, stale>>

\* A plausible slip: sign whatever status the backend reports.
GetWithoutStatus(h) ==
    /\ pc[h] = "get"
    /\ \/ Goto(h, "post") /\ UNCHANGED reply
       \/ Answer(h, "error") /\ Leave(h)
    /\ UNCHANGED <<target, elapsed, wait, mutexVars, redisVars, worldVars, historyVars>>

\* actionSigner.getActionMessage, called by REST requests only: the request
\* may fail, and an action that is not pending is refused.
GetActionMessage(h) ==
    /\ pc[h] = "get"
    /\ \/ /\ decision[ActionOf[h]] = "pending"
          /\ Goto(h, "post")
          /\ UNCHANGED reply
       \/ /\ Answer(h, "error")
          /\ Leave(h)
    /\ UNCHANGED <<target, elapsed, wait, mutexVars, redisVars, worldVars, historyVars>>

\* The backend takes h's signature; the first one decides the action.
Take(h) ==
    /\ signed' = signed \cup {h}
    /\ decision' = IF decision[ActionOf[h]] = "pending"
                     THEN [decision EXCEPT ![ActionOf[h]] = Verdict(h)]
                     ELSE decision

\* A plausible slip: leave the message in the cache.
SignKeepsMessage(h) ==
    /\ pc[h] = "post"
    /\ Take(h)
    /\ Answer(h, "ok")
    /\ Leave(h)
    /\ UNCHANGED <<target, elapsed, wait, mutexVars, redisVars, fed, expired, crashes, overlapped, lapsed, faulted, stale>>

\* signAction's POST succeeds.  act goes on to clear the message cache.
SignAction(h) ==
    /\ pc[h] = "post"
    /\ Take(h)
    /\ Answer(h, "ok")
    /\ IF ~IsAuto(h) /\ HasCache(AgentOf[h]) THEN Goto(h, "remove") ELSE Leave(h)
    /\ UNCHANGED <<target, elapsed, wait, mutexVars, redisVars, fed, expired, crashes, overlapped, lapsed, faulted, stale>>

\* The POST fails, or the backend takes it and its answer is lost.
PostFails(h) ==
    /\ pc[h] = "post"
    /\ \/ Take(h)
       \/ UNCHANGED <<signed, decision>>
    /\ UNCHANGED <<target, mutexVars, redisVars, fed, expired, crashes, overlapped, lapsed, faulted, stale>>

\* A plausible slip: clear the cache although the request failed.
SignErrorRemoves(h) ==
    /\ PostFails(h) /\ ~IsAuto(h)
    /\ Answer(h, "error")
    /\ IF HasCache(AgentOf[h]) THEN Goto(h, "remove") ELSE Leave(h)
    /\ UNCHANGED <<elapsed, wait>>

\* A REST request reports the error of its POST.
SignError(h) ==
    /\ PostFails(h) /\ ~IsAuto(h)
    /\ Answer(h, "error")
    /\ Leave(h)
    /\ UNCHANGED <<elapsed, wait>>

\* A plausible slip: the deferred Release is skipped when approval timed out.
TimeOutKeepsLock(h) ==
    /\ PostFails(h) /\ IsAuto(h)
    /\ \E d \in 0 .. MaxRequestTime :
          /\ elapsed[h] + d >= RetryIntervalMax
          /\ elapsed' = [elapsed EXCEPT ![h] = @ + d]
    /\ Goto(h, "done")
    /\ UNCHANGED <<reply, wait>>

\* approveAction after an error: retryTimer.isTimeOut ends the loop ...
TimeOut(h) ==
    /\ PostFails(h) /\ IsAuto(h)
    /\ \E d \in 0 .. MaxRequestTime :
          /\ elapsed[h] + d >= RetryIntervalMax
          /\ elapsed' = [elapsed EXCEPT ![h] = @ + d]
    /\ Leave(h)
    /\ UNCHANGED <<reply, wait>>

\* A plausible slip: test the limit against the interval, not the elapsed time.
RetryPastLimit(h) ==
    /\ PostFails(h) /\ IsAuto(h)
    /\ \E d \in 0 .. MaxRequestTime :
          /\ elapsed[h] < 2 * RetryIntervalMax
          /\ elapsed' = [elapsed EXCEPT ![h] = @ + d + wait[h]]
    /\ wait' = [wait EXCEPT ![h] = @ + RetryInterval]
    /\ UNCHANGED <<pc, reply>>

\* A plausible slip: a timer that is restarted at every retry never runs out.
RetryRestartsTimer(h) ==
    /\ PostFails(h) /\ IsAuto(h)
    /\ \E d \in 0 .. MaxRequestTime :
          /\ d < RetryIntervalMax
          /\ elapsed' = [elapsed EXCEPT ![h] = d]
    /\ UNCHANGED <<pc, reply, wait>>

\* ... or retryTimer.retry sleeps baseInc seconds, lengthens it and posts again.
Retry(h) ==
    /\ PostFails(h) /\ IsAuto(h)
    /\ \E d \in 0 .. MaxRequestTime :
          /\ elapsed[h] + d < RetryIntervalMax
          /\ elapsed' = [elapsed EXCEPT ![h] = @ + d + wait[h]]
    /\ wait' = [wait EXCEPT ![h] = @ + RetryInterval]
    /\ UNCHANGED <<pc, reply>>

\* messageCache.RemoveMessage; the result of the Redis call is ignored.
RemoveMessage(h) ==
    /\ pc[h] = "remove"
    /\ \/ /\ cache' = cache \ {ActionOf[h]}
          /\ stale' = stale \ {ActionOf[h]}
       \/ /\ LoadBalancing /\ RedisFaults /\ UNCHANGED cache
          /\ stale' = stale \cup {ActionOf[h]}
    /\ Leave(h)
    /\ UNCHANGED <<target, reply, elapsed, wait, mutexVars, lock, marked, worldVars,
                   signed, overlapped, lapsed, faulted>>

\* A plausible slip: delete the lock's key without a look at its value.
UnlockAny(h) ==
    /\ pc[h] = "unlock"
    /\ lock' = [lock EXCEPT ![ActionOf[slot[AgentOf[h]]]] = None]
    /\ Goto(h, "mark")
    /\ UNCHANGED <<target, reply, elapsed, wait, mutexVars, marked, cache, worldVars, historyVars>>

\* Release, first half: a.mutex.Unlock() on the object that is in the slot by
\* now.  Redis deletes the key only if it holds that object's value.
Unlock(h) ==
    LET m == slot[AgentOf[h]] IN
    /\ pc[h] = "unlock"
    /\ \/ /\ lock' = [lock EXCEPT ![ActionOf[m]] = IF @ = value[m] THEN None ELSE @]
          /\ UNCHANGED faulted
       \/ /\ RedisFaults
          /\ faulted' = faulted \cup {h}
          /\ UNCHANGED lock
    /\ Goto(h, "mark")
    /\ UNCHANGED <<target, reply, elapsed, wait, mutexVars, marked, cache, worldVars, signed, overlapped, lapsed, stale>>

\* Release, second half: the mark is set whatever the signer returned.
MarkHandled(h) ==
    /\ pc[h] = "mark"
    /\ \/ marked' = marked \cup {ActionOf[h]}
       \/ RedisFaults /\ UNCHANGED marked
    /\ Goto(h, "done")
    /\ UNCHANGED <<target, reply, elapsed, wait, mutexVars, lock, cache, worldVars, historyVars>>

----------------------------------------------------------------------------
\* Steps of the environment.

\* The TTL of a Redis lock runs out, whether or not its holder has finished.
LockExpire(A) ==
    /\ lock[A] # None
    /\ lock' = [lock EXCEPT ![A] = None]
    /\ lapsed' = IF pc[lock[A]] \in Holding THEN lapsed \cup {A} ELSE lapsed
    /\ UNCHANGED <<handlerVars, mutexVars, marked, cache, worldVars, signed, overlapped, faulted, stale>>

\* The mark is kept for ActionIDExpirationSec only.
MarkExpire(A) ==
    /\ A \in marked
    /\ marked' = marked \ {A}
    /\ UNCHANGED <<handlerVars, mutexVars, lock, cache, worldVars, historyVars>>

\* The action's expire time passes; Redis drops its message then.  An action
\* counts as expired from the time that getExpiration computes, which module
\* FeedHub works out for messages whose time does not fit a time.Duration.
MessageExpire(A) ==
    /\ A \notin expired
    /\ expired' = expired \cup {A}
    /\ cache' = IF LoadBalancing THEN cache \ {A} ELSE cache
    /\ UNCHANGED <<handlerVars, mutexVars, lock, marked, fed, decision, crashes, historyVars>>

\* An instance's hub receives the message and caches it unless it has expired.
AddMessage(a, A) ==
    /\ HasCache(a) /\ <<a, A>> \notin fed
    /\ fed' = fed \cup {<<a, A>>}
    /\ \/ /\ A \notin expired /\ cache' = cache \cup {A}
          /\ stale' = IF decision[A] # "pending" THEN stale \cup {A} ELSE stale
       \/ /\ A \in expired \/ (LoadBalancing /\ RedisFaults)
          /\ UNCHANGED <<cache, stale>>
    /\ UNCHANGED <<handlerVars, mutexVars, lock, marked, expired, decision, crashes,
                   signed, overlapped, lapsed, faulted>>

\* The process ends with its goroutines, its mutex object and a local cache; it
\* starts again, and is fed again.  Redis keeps what it has.
Crash(a) ==
    /\ crashes < MaxCrashes
    /\ crashes' = crashes + 1
    /\ pc' = [h \in Handlers |-> IF AgentOf[h] = a /\ pc[h] \notin {"idle", "done"}
                                   THEN "crashed" ELSE pc[h]]
    /\ slot' = [slot EXCEPT ![a] = None]
    /\ cache' = IF LoadBalancing THEN cache ELSE {}
    /\ fed' = fed \ ({a} \X Actions)
    /\ UNCHANGED <<target, reply, elapsed, wait, value, lock, marked, expired, decision, historyVars>>

\* Every handler has ended.
Terminated ==
    /\ \A h \in Handlers : pc[h] \in {"done", "crashed"}
    /\ UNCHANGED vars

----------------------------------------------------------------------------
Start(h) == HandleMessage(h) \/ Act(h)

Synchronise(h) ==
    \/ ShouldHandleAction(h) \/ NewMutex(h) \/ AcquireLock(h)
    \/ Lock(h) \/ LockError(h) \/ Unlock(h) \/ MarkHandled(h)

Sign(h) ==
    \/ GetActionMessage(h) \/ SignAction(h) \/ SignError(h)
    \/ TimeOut(h) \/ Retry(h) \/ RemoveMessage(h)

Continue(h) == Synchronise(h) \/ Sign(h)

Environment ==
    \/ \E A \in Actions : LockExpire(A) \/ MarkExpire(A) \/ MessageExpire(A)
    \/ \E a \in Agents, A \in Actions : AddMessage(a, A)
    \/ \E a \in Agents : Crash(a)

Next ==
    \/ \E h \in Handlers : Start(h) \/ Continue(h)
    \/ Environment
    \/ Terminated

Spec == Init /\ [][Next]_vars

\* Go runs every runnable goroutine, redsync's tries are finite and every HTTP
\* request returns (httpclient.go sets a timeout): a started handler goes on.
FairSpec == Spec /\ \A h \in Handlers : WF_vars(Continue(h))

----------------------------------------------------------------------------
\* Safety.

Handles(A) == {h \in Handlers : ActionOf[h] = A}

\* No lock on A lapsed while held, and no instance with a handler of A let two
\* handlers share its mutex slot.
Clean(A) ==
    /\ A \notin lapsed
    /\ \A h \in Handles(A) : AgentOf[h] \notin overlapped

\* Under load balancing two handlers of one action, in the same instance or in
\* two, are in the signing code at the same time only if the lock outlived its
\* TTL or the shared mutex slot of an instance was overwritten
\* (syncronizer.go:53).
ExclusiveSigning ==
    LoadBalancing =>
        \A g, h \in Handlers :
            /\ g # h /\ ActionOf[g] = ActionOf[h]
            /\ pc[g] \in Section /\ pc[h] \in Section
            => ~Clean(ActionOf[h])

\* Under load balancing, of all REST requests for one action the backend takes
\* one signature at most: whoever gets the lock later reads the status and
\* stops (signer.go:106), provided locks hold.
RestDecidesOnce ==
    LoadBalancing =>
        \A g, h \in signed :
            /\ ~IsAuto(g) /\ ~IsAuto(h) /\ ActionOf[g] = ActionOf[h]
            /\ Clean(ActionOf[h])
            => g = h

\* And the decision is the one it asked for: a REST request whose signature the
\* backend took did not come after another decision, by a request or by the auto
\* approver, provided locks hold (signer.go:106, action_service.go:55).  Of the
\* answers "success" only those given for the mark alone may be wrong.
SignedIsTrue ==
    LoadBalancing =>
        \A h \in signed :
            ~IsAuto(h) /\ Clean(ActionOf[h]) => decision[ActionOf[h]] = Verdict(h)

\* All of this in one: the handlers keep the promise of module Approval, for each
\* action until its locks cease to hold.  Redis, its errors, mutexes and marks,
\* retries and crashes do not show.
Promise == INSTANCE Approval WITH
    VerdictOf <- [h \in Handlers |-> Verdict(h)],
    Careful <- {h \in Handlers : ~IsAuto(h)},
    turn <- {h \in Handlers : pc[h] \in Section},
    broken <- {A \in Actions : ~LoadBalancing \/ ~Clean(A)}

TakesTurns == Promise!Spec

\* A lock in Redis belongs to a handler that will still release it, unless that
\* handler's process crashed, Redis failed it or its instance's slot was
\* overwritten: on every other path of act and handleAction the deferred
\* Release finds the right mutex (action_service.go:55, auto_approver.go:114).
NoOrphanLock ==
    \A A \in Actions :
        lock[A] # None =>
            \/ pc[lock[A]] \in Holding \cup {"crashed"}
            \/ AgentOf[lock[A]] \in overlapped
            \/ lock[A] \in faulted

\* A Release takes no lock away but the one its handler holds: if that lock's TTL
\* ran out while the handler was working (syncronizer.go:59) and another handler
\* took the lock meanwhile, the late Release leaves it alone - but not in an
\* instance whose slot was overwritten (syncronizer.go:53, 70).
ReleasesOwn ==
    [][\A A \in Actions :
          lock[A] # None /\ lock'[A] # lock[A] =>
              \/ LockExpire(A)
              \/ \E h \in Handlers :
                    /\ pc[h] = "unlock" /\ pc'[h] = "mark"
                    /\ h = lock[A] \/ AgentOf[h] \in overlapped]_vars

\* The retry loop stops: the time a handler spends in approveAction exceeds
\* RetryIntervalMax by no more than its last sleep and one request, and the
\* arithmetic growth of the sleeps keeps the number of attempts k small
\* (retry_timer.go:21-27).
BackoffBound ==
    \A h \in Handlers :
        LET k == wait[h] \div RetryInterval IN
        /\ k = 1 => elapsed[h] <= MaxRequestTime
        /\ k > 1 =>
            /\ elapsed[h] < RetryIntervalMax + RetryInterval * (k - 1) + MaxRequestTime
            /\ RetryInterval * (((k - 1) * (k - 2)) \div 2) < RetryIntervalMax

\* Why they end, without fairness: what a handler has before it gets less with
\* each of its steps, and no step of another handler, of Redis or of a crash adds
\* to it.  A lock that is gone, a retry or a lost answer never sends a handler
\* back; a handler that is run takes 11 + RetryIntervalMax steps at most
\* (auto_approver.go:124-142, retry_timer.go:21-27).
Ahead(h) ==
    CASE pc[h] = "idle" -> 11
      [] pc[h] = "check" -> 10
      [] pc[h] = "assign" -> 9
      [] pc[h] = "acquire" -> 8
      [] pc[h] = "locking" -> 7
      [] pc[h] = "get" -> 6
      [] pc[h] = "post" -> 5
      [] pc[h] = "remove" -> 4
      [] pc[h] = "unlock" -> 3
      [] pc[h] = "mark" -> 2
      [] OTHER -> 0
TimeLeft(h) == IF elapsed[h] < RetryIntervalMax THEN RetryIntervalMax - elapsed[h] ELSE 0
Effort(h) == Ahead(h) + TimeLeft(h)

Forward ==
    [][\A h \in Handlers :
          /\ Effort(h)' <= Effort(h)
          /\ Start(h) \/ Continue(h) => Effort(h)' < Effort(h)]_vars

\* A message leaves the cache only when its action was decided, its time has
\* passed or the process holding it died (action_service.go:69-75).
DropsPending(A) ==
    /\ A \in cache /\ A \notin cache'
    /\ decision'[A] = "pending"
    /\ A \notin expired'
    /\ crashes' = crashes
NeverDropPending == [][\A A \in Actions : ~DropsPending(A)]_vars

\* A request that decided an action and answered leaves no message of it for the
\* clients that register later, on any instance - unless another instance's hub
\* got the message after the decision or Redis failed to remove it: nothing
\* orders the feeds of two instances (action_service.go:71,
\* distributed_cache.go:32).
NoStaleMessage ==
    \A h \in signed :
        /\ ~IsAuto(h) /\ HasCache(AgentOf[h])
        /\ reply[h] = "ok" /\ pc[h] \notin {"remove", "crashed"}
        => ActionOf[h] \notin cache \/ ActionOf[h] \in stale

\* Every handler that starts ends: no path waits for a lock, a retry or a
\* release for ever (auto_approver.go:124-142, syncronizer.go:58-65).
HandlersFinish ==
    \A h \in Handlers : pc[h] # "idle" ~> pc[h] \in {"done", "crashed"}

----------------------------------------------------------------------------
\* Why the safety properties hold: the invariant the proofs use.

After == Holding \cup {"mark", "done", "crashed"}
Exact(h) == LoadBalancing /\ AgentOf[h] \notin overlapped

\* Where two handlers of an instance use the slot, the history says so; where
\* it does not, the slot holds the mutex of the handler that uses it.
SlotInv ==
    /\ \A a \in Agents : slot[a] # None => AgentOf[slot[a]] = a
    /\ \A h \in Handlers : LoadBalancing /\ pc[h] \in Using => slot[AgentOf[h]] # None
    /\ \A g, h \in Handlers :
          /\ LoadBalancing /\ g # h /\ AgentOf[g] = AgentOf[h]
          /\ pc[g] \in Using /\ pc[h] \in Using
          => AgentOf[h] \in overlapped
    /\ \A h \in Handlers : Exact(h) /\ pc[h] \in Using => slot[AgentOf[h]] = h

\* AcquireLock locks a mutex of its instance, and its own one in an exact slot.
TargetInv ==
    \A h \in Handlers :
        pc[h] \in Holding \cup {"locking"} =>
            /\ LoadBalancing => target[h] # None /\ AgentOf[target[h]] = AgentOf[h]
            /\ Exact(h) => target[h] = h

\* A mutex object holds the value of a handler that locked it.
ValueInv ==
    /\ \A m \in Handlers :
          value[m] # None => pc[value[m]] \in After /\ target[value[m]] = m
    /\ \A h \in Handlers : Exact(h) /\ pc[h] \in Holding => value[h] = h

\* A lock in Redis was put there by a handler that chose its mutex for that
\* key, and a handler with an exact slot keeps its lock until the TTL ends.
LockInv ==
    /\ \A A \in Actions :
          lock[A] # None =>
              /\ LoadBalancing
              /\ pc[lock[A]] \in After
              /\ target[lock[A]] # None
              /\ ActionOf[target[lock[A]]] = A
    /\ \A h \in Handlers :
          Exact(h) /\ pc[h] \in Holding /\ ActionOf[h] \notin lapsed
              => lock[ActionOf[h]] = h

\* A REST request about to sign still sees a pending action.
DecisionInv ==
    /\ \A h \in signed : decision[ActionOf[h]] # "pending"
    /\ \A h \in Handlers :
          LoadBalancing /\ ~IsAuto(h) /\ pc[h] = "post" /\ Clean(ActionOf[h])
              => decision[ActionOf[h]] = "pending"

\* A request that is about to clear the cache had its signature taken.
RemoveInv ==
    \A h \in Handlers : pc[h] = "remove" => decision[ActionOf[h]] # "pending"

LockingInv == SlotInv /\ TargetInv /\ ValueInv /\ LockInv

----------------------------------------------------------------------------
\* What comments and the API's description say, and the code does not do.

\* syncronizer.go:46: ShouldHandleAction "returns true if the action wasn't
\* already picked up by another agent".  The mark is read before the lock is
\* taken and not again after it.
OneAgentSigns ==
    \A g, h \in signed :
        /\ ActionOf[g] = ActionOf[h] /\ Clean(ActionOf[h])
        /\ faulted = {}
        => AgentOf[g] = AgentOf[h]

\* syncronizer.go:57: AcquireLock "locks the mutex set for the action to be
\* handled".  The slot may hold the mutex of another action by then.
LockIsForTheAction ==
    \A h \in Handlers :
        LoadBalancing /\ pc[h] \in Section => ActionOf[target[h]] = ActionOf[h]

\* docs/swagger/swagger.yaml:118, 153: a 200 answer means "action is approved"
\* or "action is rejected".
SuccessIsTrue ==
    \A h \in Handlers :
        pc[h] = "done" /\ reply[h] = "ok" => decision[ActionOf[h]] = Verdict(h)
====
