---- MODULE Agent ----
(***************************************************************************)
(* One Signing Agent as the clients of its local feed see it, without load *)
(* balancing and without auto approval: the REST requests that approve and *)
(* reject actions (module ActionHandling), the hub that broadcasts them,   *)
(* one step for each message it handles or sends (module FeedHub has its   *)
(* goroutines and its lock, and implements module Broadcast), and the      *)
(* local message cache between the two: the hub fills it, requests clear   *)
(* it, and a client that registers is sent what it has                     *)
(* (cmd/app, internal/service, internal/hub, internal/hub/message).        *)
(***************************************************************************)
EXTENDS Naturals, Sequences, FiniteSets

CONSTANTS
    Me,           \* the instance
    Clients,      \* websocket clients of the local feed
    Actions, Handlers, ActionOf, KindOf, None, MaxCrashes,
    RetryInterval, RetryIntervalMax, MaxRequestTime

ASSUME RequestsAssumption ==
    KindOf \in [Handlers -> {"approve", "reject"}] /\ ActionOf \in [Handlers -> Actions]

ASSUME ActionsAssumption == IsFiniteSet(Actions)

ASSUME BoundsAssumption ==
    /\ MaxCrashes \in Nat
    /\ RetryInterval \in Nat \ {0}
    /\ RetryIntervalMax \in Nat
    /\ MaxRequestTime \in Nat

VARIABLES
    \* of ActionHandling
    pc, target, reply, elapsed, wait, slot, value, lock, marked, cache,
    fed, expired, decision, crashes, signed, overlapped, lapsed, faulted, stale,
    \* of the hub and its clients
    feed,    \* the action each message so far is about, since the process started
    status,  \* "out", "joining" during RegisterClient, "in" or "left"
    sent,    \* number of the last message a client is up to date with
    got,     \* numbers of the messages a client got, in order
    offer    \* the cached messages RegisterClient has yet to send

Requests == INSTANCE ActionHandling WITH
    Agents <- {Me}, AgentOf <- [h \in Handlers |-> Me], AutoAgents <- {},
    LoadBalancing <- FALSE, RedisFaults <- FALSE

requestVars ==
    <<pc, target, reply, elapsed, wait, slot, value, lock, marked, cache,
      fed, expired, decision, crashes, signed, overlapped, lapsed, faulted, stale>>
hubVars == <<feed, status, sent, got, offer>>
vars == <<requestVars, hubVars>>

Handled == 1 .. Len(feed)
Received(c) == {got[c][i] : i \in 1 .. Len(got[c])}

TypeOK ==
    /\ Requests!TypeOK
    /\ feed \in Seq(Actions)
    /\ status \in [Clients -> {"out", "joining", "in", "left"}]
    /\ sent \in [Clients -> Nat]
    /\ got \in [Clients -> Seq(Nat)]
    /\ offer \in [Clients -> SUBSET Nat]

\* The hub and its clients in a process that has just started.
NobodyThere ==
    [feed |-> <<>>, status |-> [c \in Clients |-> "out"], sent |-> [c \in Clients |-> 0],
     got |-> [c \in Clients |-> <<>>], offer |-> [c \in Clients |-> {}]]

Init ==
    /\ Requests!Init
    /\ feed = NobodyThere.feed /\ status = NobodyThere.status /\ sent = NobodyThere.sent
    /\ got = NobodyThere.got /\ offer = NobodyThere.offer

----------------------------------------------------------------------------
\* A request goes on, up to the removal of its action from the cache.
Act(h) ==
    /\ Requests!Start(h) \/ Requests!Continue(h)
    /\ UNCHANGED hubVars

\* An action's expire time passes.
Expire(A) ==
    /\ Requests!MessageExpire(A)
    /\ UNCHANGED hubVars

\* The hub takes a message from the source and caches it.
Broadcast(A) ==
    /\ Requests!AddMessage(Me, A)
    /\ feed' = Append(feed, A)
    /\ UNCHANGED <<status, sent, got, offer>>

\* It sends the next message to a registered client.
Send(c) ==
    /\ status[c] = "in" /\ sent[c] < Len(feed)
    /\ sent' = [sent EXCEPT ![c] = @ + 1]
    /\ got' = [got EXCEPT ![c] = Append(@, sent[c] + 1)]
    /\ UNCHANGED <<requestVars, feed, status, offer>>

\* localCache.GetMessages drops what has expired.
GetMessages ==
    /\ cache' = cache \ expired
    /\ UNCHANGED <<pc, target, reply, elapsed, wait, slot, value, lock, marked, fed, expired,
                   decision, crashes, signed, overlapped, lapsed, faulted, stale>>

\* A plausible slip: the cached messages are read before the lock is taken, and
\* a message that comes in between is neither among them nor sent later.
RegisterUnlocked(c) ==
    /\ status[c] = "out"
    /\ GetMessages
    /\ status' = [status EXCEPT ![c] = "joining"]
    /\ \E n \in 0 .. Len(feed) :
          offer' = [offer EXCEPT ![c] = {m \in 1 .. n : feed[m] \in cache'}]
    /\ sent' = [sent EXCEPT ![c] = Len(feed)]
    /\ UNCHANGED <<feed, got>>

\* RegisterClient takes the lock and reads the cache, which drops what has
\* expired.
RegisterClient(c) ==
    /\ status[c] = "out"
    /\ GetMessages
    /\ status' = [status EXCEPT ![c] = "joining"]
    /\ offer' = [offer EXCEPT ![c] = {m \in Handled : feed[m] \in cache'}]
    /\ sent' = [sent EXCEPT ![c] = Len(feed)]
    /\ UNCHANGED <<feed, got>>

\* It sends those messages in no particular order, decided by now or not ...
SendCached(c, m) ==
    /\ m \in offer[c]
    /\ offer' = [offer EXCEPT ![c] = @ \ {m}]
    /\ got' = [got EXCEPT ![c] = Append(@, m)]
    /\ UNCHANGED <<requestVars, feed, status, sent>>

\* A plausible slip: the client is registered before it got them.
EndRegisterFirst(c) ==
    /\ status[c] = "joining"
    /\ status' = [status EXCEPT ![c] = "in"]
    /\ UNCHANGED <<requestVars, feed, sent, got, offer>>

\* ... and registers the client.
EndRegister(c) ==
    /\ status[c] = "joining" /\ offer[c] = {}
    /\ status' = [status EXCEPT ![c] = "in"]
    /\ UNCHANGED <<requestVars, feed, sent, got, offer>>

\* UnregisterClient, or the end of the hub for each of its clients.
UnregisterClient(c) ==
    /\ status[c] = "in"
    /\ status' = [status EXCEPT ![c] = "left"]
    /\ sent' = [sent EXCEPT ![c] = 0]
    /\ UNCHANGED <<requestVars, feed, got, offer>>

\* The process ends and starts again.
Crash ==
    /\ Requests!Crash(Me)
    /\ feed' = NobodyThere.feed /\ status' = NobodyThere.status /\ sent' = NobodyThere.sent
    /\ got' = NobodyThere.got /\ offer' = NobodyThere.offer

Next ==
    \/ \E h \in Handlers : Act(h)
    \/ \E A \in Actions : Expire(A) \/ Broadcast(A)
    \/ \E c \in Clients :
          \/ Send(c) \/ RegisterClient(c) \/ EndRegister(c) \/ UnregisterClient(c)
          \/ \E m \in Handled : SendCached(c, m)
    \/ Crash
    \/ Requests!Terminated /\ UNCHANGED hubVars

Spec == Init /\ [][Next]_vars

----------------------------------------------------------------------------
\* Action A still waits for somebody.
Waiting(A) == decision[A] = "pending" /\ A \notin expired

\* Whoever follows the local feed has been shown every action that waits for a
\* decision, except those the hub is about to send: whatever requests succeed,
\* fail or lose their answer, and whenever the client registered
\* (feed_hub.go:97-111, 177-189, action_service.go:60-75, local_cache.go:34).
WaitingShown ==
    \A c \in Clients :
        status[c] = "in" => \A m \in 1 .. sent[c] : Waiting(feed[m]) => m \in Received(c)

\* A message leaves the cache only for the reasons ActionHandling names.
CacheKeepsPending == Requests!NeverDropPending

\* Until the process ends, the feed is the ordered broadcast that FeedHub
\* implements, where "lost" is what the local cache does not have (any more).
Promise == INSTANCE Broadcast WITH
    Messages <- 1 .. Cardinality(Actions),
    handled <- Len(feed),
    lost <- {m \in Handled : feed[m] \notin cache}

FeedPromise == Promise!Init /\ [][Promise!Next \/ Crash]_(Promise!vars)

----------------------------------------------------------------------------
\* Why WaitingShown holds: what waits and was handled is in the cache, and for a
\* client that registers it was sent or is about to be.
ShownInv ==
    /\ \A m \in Handled : Waiting(feed[m]) => feed[m] \in cache
    /\ \A c \in Clients :
          /\ sent[c] <= Len(feed)
          /\ status[c] = "joining" =>
                \A m \in 1 .. sent[c] : Waiting(feed[m]) => m \in Received(c) \cup offer[c]
====
