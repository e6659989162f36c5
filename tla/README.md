# Signing Agent: specifications, model checking and proofs

The Signing Agent is a Go service that holds the key of one Qredo agent. It
reads *actions* (transactions to sign) from a websocket feed of the Qredo
backend, signs them - automatically, or when a REST client approves or rejects
them - and passes the feed on to local websocket clients. Several instances of
the same agent can run side by side ("load balancing") and then coordinate
through Redis.

This directory holds TLA+ modules translated from that code, TLC
configurations that check them on small instances, and theorems that TLAPS
proves for every value of the constants. `PROJECT.json` maps every definition
to the lines it stands for.

## 1. Inventory

| Component | State | Operations | Talks to |
|---|---|---|---|
| Action synchronisation (`internal/action/syncronizer.go`) | one `mutex` field per instance; in Redis a lock per action with a TTL and an `action_v2:` mark with a TTL | `ShouldHandleAction`, `AcquireLock`, `Release` | Redis through go-redis and redsync |
| Action service (`internal/service/action_service.go`) | none of its own | `Approve`, `Reject` (both `act`) | synchronisation, signer, message cache |
| Auto approver (`internal/autoapprover`) | its `Feed` channel, a retry timer per message | `Listen`, `handleMessage`, `Stop` | hub, synchronisation, signer |
| Signer (`internal/action/signer.go`) | the BLS key | `ActionApprove`, `ActionReject`, `ApproveActionMessage`, `SetKey` | backend over HTTP, header provider |
| Feed hub (`internal/hub/feed_hub.go`) | set of clients and `isRunning`, a lock | `Run`, `Stop`, `RegisterClient`, `UnregisterClient`, `startHub` | source, clients, message cache |
| Websocket source (`internal/hub/feed_source.go`) | connection, ready state, `shouldReconnect`, `rxMessages` | `Connect`, `Listen`, `Disconnect` | backend's websocket |
| Client feed (`internal/feed/client.go`) | connection, ready state, `Feed`, `closeConn` | `Start`, `Listen` | hub, a local websocket |
| Message cache (`internal/hub/message`) | messages by action id, in memory or in Redis | `AddMessage`, `GetMessages`, `RemoveMessage` | hub, action service |
| Agent service (`internal/service/agent_service.go`) | `agentInfo` | `Start`, `Stop`, `RegisterAgent`, `RegisterClientFeed` | everything above, store, header provider |
| Header provider (`internal/auth/header_provider.go`) | token, its lifetime, a ticker goroutine | `Initiate`, `GetAuthHeader`, `Stop` | backend |
| Agent store and key-value stores (`internal/store`, `internal/util/*store.go`) | agent id and agent info in a file or a cloud secret | `SaveAgentInfo`, `GetAgentInfo`; `Get`, `Set`, `Del` | file system, AWS, GCP, OCI |
| Merkle tree (`crypto/merkle.go`) | none | build, prove, verify | - |
| REST router, configuration, HTTP client, cryptography wrappers, `main` | mostly none | plumbing | - |

What is hard about it, and the property that makes each part right:

* **Actions.** Every feed message runs in a goroutine of its own and every REST
  request in another; they share one mutex field, a lock that can lapse and a
  mark that is written after the unlock. Right means: nobody signs an action
  while somebody else does (`ExclusiveSigning`), REST requests decide an action
  once (`RestDecidesOnce`) and as they were asked to (`SignedIsTrue`) - in short,
  handlers take turns at an action (`TakesTurns`) -, locks are given back
  (`NoOrphanLock`) and not taken from others (`ReleasesOwn`), the retry loop ends in bounded time (`BackoffBound`,
  `Forward`, `HandlersFinish`), a pending message is not dropped (`NeverDropPending`) and a
  decided one does not stay (`NoStaleMessage`).
* **The feed.** A reader with reconnection, a hub that sends under a lock to
  unbuffered channels, and per client two goroutines that stop one another.
  Right means: no closed channel is used (`NoClosedFeed`), clients see the feed
  without a gap or a repetition (`GapFree`), nothing pending is missed
  (`NoneMissed`), the hub sends to nobody whose goroutine has ended (`Listening`),
  messages arrive (`Delivery`) and goroutines end (`FeedEnds`), as far as writes to
  clients return;
  in short, the hub is an ordered broadcast (`OrderedBroadcast`).
* **Feed and requests together.** The hub fills the message cache, requests clear
  it, and a client that registers is sent what it has. Right means: whoever
  follows the feed has been shown every action that still waits
  (`WaitingShown`), whatever requests succeed, fail or lose their answer.
* **Registration and start.** Test-then-set on `agentInfo` around several HTTP
  requests and two store writes; partial failures and restarts. Right means: the
  store can always be loaded again (`Restartable`), an agent that was answered
  as registered is found again (`Remembered`), no second agent is registered
  beside it (`OneAgent`), credentials and keys belong to one agent (`OwnKeys`), the
  hub is started once (`OneHub`) and requests end (`Answered`).
* **Token refresh.** A goroutine per initiation with a ticker of its own, and
  fields that are written with and without a lock. Right means: the token does
  not expire while somebody refreshes it (`Fresh`), it is one for the credentials
  in force (`TokenOfAgent`), no ticker is set to a lifetime that is not positive
  while the backend gives none (`NoPanic`), and `Stop` ends the goroutines
  (`RefreshersEnd`).
* **Cloud stores.** A map kept in one secret, read and written by separate
  requests from several goroutines and instances. Right means: one atomic map
  as long as updates do not overlap (`AtomicMap`), a lock that is given back on
  every way out (`Locks`), and calls that return (`CallsReturn`) unless OCI's wait
  for the secret does not end.
* **Numeric edges.** An expire time far ahead wraps around when it is multiplied
  into 64-bit nanoseconds, and its message is taken for an expired one; the
  model of the cache has that arithmetic (`NoneMissed` says what it means for
  clients).

`PROJECT.json` lists each hazard at its line with the properties that cover it.

## 2. Modules

### ActionHandling

A *handler* is one goroutine: an auto-approved message or a REST request. The
constants `AgentOf`, `ActionOf` and `KindOf` say where it runs, which action it
handles and what it does. Its program counter follows the code:

| `pc` | Code | Actions |
|---|---|---|
| `idle` | before `handleMessage` / `act` | `HandleMessage`, `Act` |
| `check`, `assign` | `ShouldHandleAction`: the mark, then `a.mutex = ...` | `ShouldHandleAction`, `NewMutex` |
| `acquire`, `locking` | `AcquireLock`: reads `a.mutex`, then `Lock()` | `AcquireLock`, `Lock`, `LockError` |
| `get`, `post` | `getActionMessage`, `signAction` | `GetActionMessage`, `SignAction`, `SignError`, `TimeOut`, `Retry` |
| `remove` | `RemoveMessage` | `RemoveMessage` |
| `unlock`, `mark` | `Release` | `Unlock`, `MarkHandled` |

Reading and writing the shared field are separate steps because other
goroutines run in between. A `redsync.Mutex` is named by the handler that
created it; so is the random value under which a handler takes a lock, and
Unlock deletes the key only if the values agree - that is how an overwritten
slot shows. Redis (TTLs, errors, lost replies), the backend (it takes the first
decision; an answer can be lost) and process crashes are the environment.
`elapsed` and `wait` are the retry timer in seconds; one POST takes up to
`MaxRequestTime`. `signed`, `overlapped`, `lapsed` and `faulted` are history:
no action reads them, properties do.

### Approval

What the handlers promise together, without Redis, mutexes, marks, retries and
crashes. A handler takes its turn at an action (`Enter`) when nobody else is at
it; the backend takes its signature (`Sign`), and the first one decides the
action; a *careful* handler, one that reads the status first, signs only what is
pending. The promise is one per action and ends when it is `broken` for it.
ActionHandling implements it (`TakesTurns`) with the handlers in the signing code
for those who have a turn, REST requests for the careful ones, and "broken" for an
action whose lock lapsed while held, or one of whose instances had its mutex slot
overwritten, or any action without load balancing, where nothing keeps requests
apart.

### FeedHub

One instance's feed: `service` is `agentSrv.Start`, `stopping` the signal
handler, `source` the goroutine of `websocketSource.Listen`, `hub` the goroutine
of `startHub`, and for every client `request`, `listen` and `start` are the
goroutines of its HTTP request, its `Listen` and its `Start`. `owner` is the
hub's lock. A send on an unbuffered channel is one step of both sides
(`Deliver`); `rxMessages` is a sequence of length at most one. A websocket write
keeps the deadline it began with, and the first one is set by the first ping: a
client's `start` is "fresh" until then, and a write it begins is "bare", one that
nothing ends before the connection is closed. The mode says
whether the instance approves automatically (`auto`, there is no cache) or caches
messages in memory (`local`) or in Redis (`shared`), as `initRouter` decides.
Messages are numbered in reading order.

A message goes into the cache with the expiration that `cache.go` computes: the
seconds until its expire time, times `Second`, wrapped around at `MaxDuration` as
a `time.Duration` is. The local cache hands out a map, each message once. The one in
Redis is scanned: another instance that reads the same feed may add messages
before this instance handles them, a key may come up to `MaxCopies` times, keys
may expire during the scan, and Redis may fail. `lost` is what a client that
registers may not count on for one of these reasons; no action of the code reads
it.

### Broadcast

What the feed promises, without its goroutines and locks: messages are published
in order; a client that joins gets earlier messages in any order, all of those
that were not lost among them; then it gets each message once and in order until
it leaves. FeedHub implements it with a mapping that makes a client "joining"
from the moment `RegisterClient` has the hub's lock (`Status`), and takes as the
last message it is up to date with the one handled last, or the one before when the
hub is about to send it that one (`UpTo`).

### Agent

The composition of the two for one instance without load balancing and without
auto approval: an instance of ActionHandling for the requests, and the hub in the
coarser steps of Broadcast, tied together by the cache. `Broadcast(A)` is
`AddMessage` and the beginning of the hub's loop over its clients, `Send` the rest
of it; `RegisterClient` reads the cache, which drops what has expired,
`SendCached` and `EndRegister` are the rest of the registration. A crash takes the
hub, its clients and the cache with it. `FeedPromise` shows that the feed of the
composition is Broadcast again until the process ends, where "lost" is whatever
the cache does not have. Its messages can be decoded and have an expire time that
a `time.Duration` holds; FeedHub has the others.

### AgentRegistration

One instance's identity. `process` is the program's start: `Load` (the store's
file and `GetAgentInfo`), `InitiateFound` and `StartFound` for an agent that was
found, `Listen`; it is "dead" once the store can no longer be loaded, and "deaf"
when the listener could not be opened, because `StartHTTPListener` then waits on
an unbuffered channel that its own caller would read. `pc` is where each request
to register is:

| `pc` | Code | Actions |
|---|---|---|
| `idle` | the test of `agentInfo`, key generation | `Check` |
| `initiate` ... `publish` | `Initiate`, `updateAPIKey`, `SetKey`, `ActionApprove`, the assignment of `agentInfo` | of the same names, `Publish` |
| `info`, `id` | the two `Set`s of `SaveAgentInfo` | `BeginSet`, `EndSet`, `OpenFails`, `WriteFails` |
| `name`, `start` | `getAgentName`, then the handler's `Start` | `GetAgentName`, `Start` |

Every call to the backend or the file may fail, and an approval may take effect
although its answer is lost. A write to the file is two steps with the content
`Torn` in between, which is what a crash there leaves. The keys, the agent info
and the credentials a request brings are named by the request; a crash forgets
everything but `file` and `backend`. The store is the file store. `raced` is
history: two requests were past the test at a time.

### HeaderProvider

A process is a call of `Initiate` and the goroutine it leaves behind: `init`,
`request` are `initToken` on behalf of the caller, `arm` is `NewTicker` or `Reset`,
`select` the wait for the ticker or for `Stop`, `refresh`, `store`, `ttl` are the
steps of `refreshToken` around its two locked sections, `renew`, `rerequest`
`initToken` again when refreshing failed. The provider's fields are shared by all
processes, as in the code: `cred` and `ttl` are written without the lock,
`initToken` holds it during its request. Time is counted in units by `Tick`, which
waits for whoever can act at once and lets a request take `MaxRequestTime` at
most; a token carries the time it has left. A lifetime that is not positive makes
the ticker panic (`process`). `crossed` is history: an initiation overlapped with
another one or with a refresh, whose token then may be either's.

### KeyValue and CloudStore

`KeyValue` is the promise: a map, and calls that take effect in one step between
their start and their return; one that returns an error may have taken effect.
`CloudStore` is `awsstore.go`, `gcpstore.go` and `ocistore.go`. The three share the
text of `Get`, `Set` and `Del`:

| `pc` | Code | Actions |
|---|---|---|
| `rlock`, `read` | `RLock`, `getSecret`, and the return of `Get` | `RLock`, `ReadError`, `Get`, `Read` |
| `lock`, `write` | after `RUnlock`: `Lock`, `setSecret` | `Lock`, `AwsSetSecret`, `GcpSetSecret`, `OciSetSecret`, `SetSecretError` |
| `wait` | `waitForSecret` | `WaitForSecret` |

They differ in `GetSecret` (OCI reads a secret it cannot find or decrypt as an
empty one), in `setSecret` (OCI refuses while an update is in progress, then
waits) and in `Init` (AWS and GCP write an empty map over the text that marks a
new secret, in a second request). `lifecycle` is the state of an OCI secret, which
`Update` may leave in one that never becomes active ("failed"); a poll of
`WaitForSecret` that fails or does not find it active changes nothing, as often as
the provider likes. A secret is its map; encoding and encryption
are left out, and so is the moment at which they fail, which changes nothing.

The refinement mapping takes what is stored (`Stored`) for the map and where a
call is (`Status`) for its status. The promise ends when `trust` does: a call
writes a map that is no longer what is stored (`stale`), an instance initialises
a secret that another one has begun to use, or OCI answers with an empty map that is
not what is stored. Everything else - failing reads and writes, lost answers,
crashes between any two steps, other instances' calls - must not show.

The other components meet in these places: the hub hands a message to the auto
approver (`Deliver` to `Approver`), which starts a handler (`HandleMessage`);
`Start` of a registered agent is the initial step of FeedHub's `service`;
`Initiate` is one step of AgentRegistration and the start of a process of
HeaderProvider. They are not composed: each side sees the other only through
that one step.

## 3. Runs

| Run | Instance | Shows |
|---|---|---|
| `ActionCluster` | two auto-approving instances, an approve on one, a reject on the other for the same action, an auto message for a second action on the first | `ExclusiveSigning`, `RestDecidesOnce`, `SignedIsTrue`, `TakesTurns`, with expiring locks and marks and overwritten slots |
| `ActionPair` | auto approver on one instance, REST approval on another, failing Redis calls, one crash | `ExclusiveSigning` again, `NoOrphanLock`, `ReleasesOwn`, `BackoffBound`, `NoStaleMessage`, `NeverDropPending`, `Forward`, `HandlersFinish` |
| `Agent` | one instance without load balancing: an approve and a reject for one action, an approve for another, one feed client, one crash | `TypeOK`, `WaitingShown`, `CacheKeepsPending`, `FeedPromise` with the local cache |
| `ActionTwin` | one message at two auto approvers | a violation of `OneAgentSigns` |
| `ActionSlot` | two messages at one instance | a violation of `LockIsForTheAction` |
| `ActionRepeat` | an approval repeated at another instance | a violation of `SuccessIsTrue` |
| `FeedHub` | one websocket client and the auto approver, two messages with any lifetime, the three modes, one broken connection, a signal | `TypeOK`, `NoClosedFeed`, `GapFree`, `NoneMissed`, `Listening`, `OrderedBroadcast`, `Delivery`, `FeedEnds` |
| `HeaderProvider` | two initiations, lifetimes of 8, 9, 0 and -1 units, requests of up to one unit | `TypeOK`, `Fresh`, `TokenOfAgent`, `NoPanic`, `RefreshersEnd` |
| `CloudStore` | the three providers, two calls in one instance and one in another, two keys | `TypeOK`, `Locks`, `AtomicMap`, `CallsReturn` |
| `Registration` | three requests to register for two API keys, one crash | `TypeOK`, `Restartable`, `Remembered`, `OneAgent`, `OwnKeys`, `OneHub`, `Answered` |
| `RegisterTwice` | two requests at the same time | a violation of `OneRegistration` |
| `FeedStall` | the instance of `FeedHub`, a client that stops reading | a violation of `UnregisterCloses` |

**Bounds.** Two instances and two or three handlers are what the hazards need:
one instance whose slot is shared, a second one that competes through Redis.
`RetryIntervalMax = 2` with `RetryInterval = 1` and requests of up to one second
lets the loop retry, sleep longer and overshoot its limit. Two messages are the
least with an order and with a gap; a websocket client and the auto approver are the
two clients that the hub's lock keeps apart (the theorems are for any number);
one broken connection exercises the reconnection and the end of
the source. `Steady = {"shared"}` leaves breaks and the signal out in the mode
with Redis, where they meet the same code as with the local cache, so that the
scan and the other instance fit in; a key that comes twice (`MaxCopies = 2`) is the
least repetition. With `Second = 4` and `MaxDuration = 15` the lifetimes -1, 0, 3, 4
and 9 are one that is over, one that ends now, one that fits, and two that wrap
around, to the past and to a shorter time: the cases of the 64-bit arithmetic.
In `Agent` one client is enough, since no client's state reads another one's (the
theorem is for any number); the two requests for one action race for the cache
and the decision, the second action shows that they leave others' messages
alone. Three registrations let one follow two that failed or raced, and two
of them share an API key; one crash is enough for a restart with what it left.
A second initiation meets the first one's goroutine at every point. The lifetimes
8 and 9 satisfy `LongLifetimes`, the assumption under which `Fresh` is proved, and
MCHeaderProvider assumes it so that TLC evaluates it. For two lifetimes that are
the same the assumption is exact: TLC finds `Fresh` violated with lifetimes of 6
and requests of one unit, and not with 7 (12 and 13 with requests of two units).
With lifetimes that differ much it is needed: with 8 and 20 `Fresh` fails, because
`tokenTTL` is written outside of the lock (`header_provider.go:178`) and the ticker
of a short-lived token can be set to half of the long-lived one. Three calls let two updates overlap in one instance and across
instances and a third one follow or read; two keys show what an update does to
the other one.

**Conditions in the properties.** `ExclusiveSigning`, `RestDecidesOnce`,
`SignedIsTrue` and `TakesTurns` speak of an action whose lock did not outlive its TTL and whose handlers ran in
instances where no two handlers shared the mutex slot (`Clean`). Both really
happen (the lock's TTL is seconds, the retry loop lasts minutes; the slot is a
field), and then the code promises nothing about signing; `ActionSlot` shows the second.
After a lock lapsed `ReleasesOwn` still says that the late `Release` leaves the next
holder's lock alone.
`SignedIsTrue` is what remains of `SuccessIsTrue`: a success that was given for a
signature is true, the one that `ActionRepeat` finds false was given for a mark.
`NoStaleMessage` excepts a message that another instance's hub cached after the
decision and a removal on which Redis failed. `NoneMissed` excepts what is `lost`.
`WaitingShown` speaks of the messages sent to a client so far: the one the hub is
about to send is the next one, and `Delivery` says that it comes.
`Remembered`, `OneAgent`, `OwnKeys` and `OneHub` speak of requests that did not race
(`RegisterTwice` shows that they can, and `OneAgent` that nothing else registers two); failures, crashes and later requests are
not excepted. `Restartable` excepts a file that was being written: `save`
truncates the file it overwrites.
`Fresh` excepts a goroutine that gave up and tokens that were never
valid; `NoPanic` is about tokens with a positive lifetime, which the source of the
tokens, outside this repository, has to give (`odd` is the history of others); `TokenOfAgent` excepts initiations that overlap with another one or with
a refresh. `AtomicMap` is the promise until `trust` ends, as above.
`Delivery` and `FeedEnds` have the hypothesis `WritesReturn`: no write to a client that
began without a deadline blocks for ever. The code does not make sure of it
(`FeedStall`), so it is an assumption of these two properties and not part of the
specification; with it they say that nothing else - locks, channels, failing
pings, failing writes, reconnections - stops the feed. `CallsReturn` has such a
hypothesis too: in the call's own instance no call waits for ever for an OCI secret to
become active. `waitForSecret` has no other end, so nothing unconditional holds;
a wait that never ends blocks its own instance, and `CallsReturn` says that it
blocks no other one. For AWS and GCP, where no call waits, it has no condition.
`FeedEnds` excepts a client whose `Listen` read the ready state just before
`Start` ended on a failed ping: that goroutine waits on `closeConn` for ever.

**Fairness.** `FairSpec` of ActionHandling has weak fairness for the steps of a
handler that was started: Go runs runnable goroutines, redsync tries a fixed
number of times, and `httpclient.go` gives every request a timeout. Weak
fairness of a handler suffices since none of its steps waits for another
handler: a lock that is taken makes `LockError` possible. `FairSpec` of FeedHub
has it for the goroutines of the source, the hub, the registrations and the
clients; `Connect` ends within `reconnectIntervalMax`, and a write to a client
returns if it has a deadline, from the client's first ping on, or if its connection is
closed. A write without a deadline has no fairness. In
AgentRegistration it is assumed for a request that passed the test: its calls have
timeouts, a write returns, and whoever waits for the store's lock waits for
another request's write. In HeaderProvider it is assumed for the goroutines
and for time, in CloudStore for the steps of the calls, whose requests end, but neither
for a poll of `waitForSecret` to succeed nor for the provider to complete an update.
Nothing is assumed of the network, the backend, the clients, requests, expiries,
pings or the signal.

## 4. What the violations mean

* `OneAgentSigns`: the mark is read before the lock and set after the unlock,
  so the second of two auto approvers signs again. The comment on
  `ShouldHandleAction` promises otherwise.
* `LockIsForTheAction`: with two messages in one instance `AcquireLock` can lock
  the mutex of the other action.
* `SuccessIsTrue`: `Release` marks an action although signing it failed; the
  same request repeated within `ActionIDExpirationSec` is answered 200.
* `OneRegistration`: `RegisterAgent` tests `agentInfo` and sets it four backend
  calls later, without a lock; two requests at the same time are both answered
  as registered.
* `UnregisterCloses`: a client that stops reading before its first ping blocks a
  write without a deadline. The hub, which holds its lock while it sends, waits
  for that client, and the client's own unregistration waits for the lock: the
  feed of every client has stopped, and the connection is never closed. (Under
  `WritesReturn` TLC finds no violation in the same instance: such a write is the
  only cause.)

## 5. Proofs

The modules named `...Proofs` hold for all finite or infinite sets of instances,
actions, handlers, clients, requests, initiations, calls and keys and all
bounds, from the named assumptions on the constants (a handler's instance, action
and kind are in range; without load balancing there is one instance; names are
distinct; bounds are natural numbers; Agent's actions are finitely many, to number its
messages). `FreshCorrect` alone has a hypothesis in its statement, `LongLifetimes`.

*ActionHandling.* `TypeCorrect` comes first. `LockingCorrect` is the inductive
core, `LockingInv`: `SlotInv` (the slot holds the mutex of the handler that
uses it, unless the history says two overlapped), `TargetInv` (a handler locks
its own mutex then), `ValueInv` (a mutex holds the value of a handler that
locked it) and `LockInv` (a handler between Lock and Unlock owns the key in
Redis until the TTL ends). None of these is inductive alone: that Unlock
deletes the right key needs the value, the value needs the target, the target
the slot. `ExclusiveSigning` follows - two handlers in the section would both be
the value stored at one key. `RestDecidesOnce` needs `DecisionInv` in addition:
who is about to post still sees a pending action, because nobody else was in
the section. `SignedIsTrue` is inductive beside it: whoever signs then decides, and a
decision stays. `TakesTurnsCorrect` is the refinement of Approval: a step into the
signing code is `Enter`, whose guard is `ExclusiveSigning` of the next state; a
signature is `Sign`, whose guard is `DecisionInv`; `NewMutex` and the end of a
lock's TTL are `Break`, every other step `Leave`. `OwnLockCorrect` says what
`LockIsForTheAction` keeps of its sense: a handler in the signing code locked its own
action's mutex and has it until the TTL ends, unless its instance's slot was
overwritten. `NoOrphanLock` and `ReleasesOwn` follow from `LockingInv` step by step and
`NeverDropPending` from `RemoveInv`: who clears the cache had its signature
taken. `NoStaleMessage` is inductive with `SignedInv` (who signed has its POST
behind it). `BackoffBound` needs `BackoffInv`: some k counts a handler's attempts,
its pause is k times `RetryInterval` and it has slept at least the sum of the
pauses before, k (k - 1) / 2 of them. The bound is that sum against the
limit the loop tests, one more pause and one more request. The lemmas on these
products (`SleepSum` and those before it) are the only nonlinear arithmetic.
`ForwardCorrect` is the safety half of `HandlersFinish`: the code ahead of a handler
and the time left to its retry loop make a number, `Effort`, that each of its steps
lowers and no step of anybody else raises. It needs `BackoffInv` too: a pause takes
time. What is left to TLC is that a handler's next step is always possible and, by
fairness, taken.

*FeedHub.* `TypeCorrect`; `OwnerInv` (who holds the lock, who is registered and
whose channel is closed go together) gives `NoClosedFeed`. `Listening` needs to know
in addition that the auto approver listens before the service registers it
(`ListenInv`); it is the safety half of `Delivery`. `GapFree` is proved
with `QueueInv` (messages keep their order in the source, the channel and the
hub) and `ReplayInv` (a registering client gets messages of a local cache once each,
and the hub handles none meanwhile). `NoneMissed` needs `CacheInv` in addition: every
message so far is in the cache or lost, and for a registering client it was got,
read from the cache, or is still to come in the scan. `OrderedBroadcastCorrect` is
the refinement: initial states map to initial states, and one lemma per group
of goroutines shows its steps to be `Publish`, `Lose`, `Join`, `Early`, `Joined`,
`Receive`, `Leave`, `LeaveAll` or a stutter of Broadcast. That a `Joined` step has
its guard is `CacheInv`, that a `Receive` has it `OwnerInv`.

*Agent.* `TypeCorrect` first; it needs ActionHandling's own types, step by step,
for the instance that is composed. `RequestEffect` is all the composition needs to know of a request's step:
it decides nothing twice and takes at most its own action, decided, from the cache.
`ShownInv` is the argument for `WaitingShown`: what waits and was handled is in the
cache, and a client that registers has got it or is about to. `WaitingShown` alone
is not inductive, since it does not say what a client that is about to be "in"
got. `CacheKeepsPending` follows from `RemoveInv`. `FeedPromiseCorrect` maps each
step to Broadcast, with `FeedInv` (messages are numbered, each action's comes
once, so no more than `Cardinality(Actions)`) and `OfferInv` (only a client that
registers has messages on offer).

*AgentRegistration.* `TypeCorrect`, and `RestartableCorrect` from `RunInv` (a
request runs only in a process that serves, so nobody saves while the program
starts), `DataInv` (the id in the map, and the id about to be saved, has its info)
and `FileInv` (so has a file that can be read). `DataInv` is what the order of the
two `Set`s is for. `Remembered`, `OwnKeys` and `OneHub` come from one invariant,
`IdentityInv`: `RunInv`, and while no two requests raced `AloneInv`, whose parts
say whose turn it is (`TurnInv`: at most one request is past the test and not
published), how often the hub was started (`HubInv`), whose key the signer, the
provider and the backend have (`KeysInv`), and that neither the map in memory
(`MapInv`) nor the file (`StoredInv`) names another agent. They depend on each
other through the program's start, which takes everything from the file. `OneAgent`
follows too: two that registered would both be the agent that is stored.
`StoreLockCorrect` follows from `RunInv`: whoever holds the file store's lock is
saving, in a process that serves, so a crash, an error or an answer leaves no lock
behind.

*HeaderProvider.* `TokenOfAgent` comes from `CredInv`: as long as nothing
overlapped, an initiation that is not over is alone and the last one, and after
one that succeeded the token and what goroutines are about to store are for its
credentials. `NoPanic` comes from `RegularInv`: as long as every token had a
positive lifetime, `tokenTTL` is positive while there is a goroutine to read it, and so
is what one is about to write to it.

`FreshCorrect` says when half of a lifetime is time enough. Its hypothesis is
`LongLifetimes`: there are finitely many initiations, and every lifetime outlasts half
of every other one by the time of one request per initiation and one more. It is
proved from `TimeInv`, which has three parts. `LockInv`: the lock is held during the requests
for new tokens, by the one that asks, so at most one of them runs (`LockCorrect`).
`TimerInv`: every lifetime outlasts every ticker, because a ticker is set to half of
some lifetime at most - of *some*, since `tokenTTL` may be another token's by the time
a ticker reads it. `DueInv`:
the token outlasts, for every goroutine, what is ahead of it - its ticker or its
refresh, its own request, and before that the request that holds the lock and those of
the initiations that have not begun (`Queue`). An initiation's request leaves the
queue when it replaces the token, with one that lives long enough again; that the
queue gets no longer is what bounds the wait for the lock. The products of
numbers of requests and `MaxRequestTime` are taken apart by `ProductNat`.

*CloudStore.* `TypeCorrect` carries `WorkInv` with it: a call that will write
works on what is stored unless it is marked `stale`. `Locks` comes from `LockInv`, its
converse included: the readers and the writer of a lock are exactly the calls in
the code between locking and unlocking, on every error path; it is the safety half
of `CallsReturn`. `AtomicMapCorrect` is the
refinement: the initial states are initial states of KeyValue; a call that writes
without being stale is KeyValue's `Apply` (`WriteStep`), a return, an error or a
crash is its `Return` (`ReturnStep`), locks and reads do not show.

*Only model-checked:* the liveness properties `HandlersFinish`, `Delivery`,
`FeedEnds`, `Answered`, `RefreshersEnd` and `CallsReturn` (liveness under
fairness and ENABLED are out of the prover's reach). Every other property of a run
that passes is a theorem. The types of ActionHandling's state are checked in the run
`Agent` as part of its `TypeOK` and proved as `TypeCorrect`. Induction over
recursive definitions cannot be proved with the installed provers; no module
here uses any.

## 6. Hazards that no property covers, or only in part

* `feed_hub.go:66`: `isRunning` stays true while the source reconnects, although
  the comment on `IsRunning` says otherwise. The model has it; a client accepted then
  is served like any other once the source reads again (`GapFree`, `Delivery`).
* `feed_hub.go:89`: `Stop` during a reconnection finds the state CONNECTING and
  does nothing. The model has it; no document says what should happen, and the
  process exits two seconds later.
* `feed_source.go:115`: `Disconnect` forbids the reconnection after it wrote the close
  message, and `Connect` never looks at `shouldReconnect`; a source that handles the
  read error in between, or is reconnecting already, opens a new connection after
  `Disconnect` returned, although the comment at line 109 says that it should not
  happen. The model has it (`Dial` after `ForbidReconnect`).
* `client.go:86`: a ping that fails before `RegisterClient` has the lock unregisters a
  client that is not registered yet; it is registered afterwards and stays, although
  the comment at line 85 says that it must be unregistered "to stop receiving
  messages". The hub goes on sending to it, and its `Listen` to write to a closed
  connection. The model has it (`PingFails`, `UnregisterClient`, `EndRegister`);
  `NoClosedFeed` covers what could be worse, a second close of its channel.
* `agent_service.go:210`: the hub may clean up between `IsRunning` and
  `RegisterClient`; the client is then registered at a dead hub for ever.
  `FeedEnds` excepts it.
* `router.go:121`: `errChan` is unbuffered and read only by the goroutine that
  writes to it; a listener that cannot be opened leaves the process "deaf" in
  AgentRegistration.

## 7. Not modelled

* **Cryptography.** Keys and signatures are opaque values to the program. The
  wrappers in `crypto/` call a C library, AMCL, of which the repository has only
  the headers in `crypto/include`: declarations and constants of number
  representations, with no statements to model. The program's logic is all in Go.
* **Merkle tree.** `crypto/merkle.go` is not called by the program.
* **HTTP client and helpers.** A request is one step, or two, of the module that makes
  it, and may fail or lose its answer there.
* **REST routing, CORS, logging, configuration files, JSON and YAML formatting.** No
  state that outlives a request; the settings that matter are constants of the
  modules.
* **`FileStore.Del`**, which has no caller; the key generator command; generated
  mocks and tests.
