---- MODULE FeedHub ----
(***************************************************************************)
(* The feed: the websocket source and its reconnection                     *)
(* (internal/hub/feed_source.go), the hub that broadcasts its messages     *)
(* (internal/hub/feed_hub.go), the clients they go to - websocket clients  *)
(* (internal/feed/client.go) and the auto approver's listener              *)
(* (internal/autoapprover) - and the service that starts the hub and       *)
(* registers clients (internal/service/agent_service.go).                  *)
(*                                                                         *)
(* Goroutines: the service's start, the source's Listen, the hub's         *)
(* startHub, the signal handler's Stop and, for each websocket client, its *)
(* request, its Start and its Listen.  Feed channels are unbuffered: a     *)
(* send is one step of sender and receiver.  The message cache             *)
(* (internal/hub/message) is the local one of a single instance or the one *)
(* in Redis that load-balanced instances share.  The messages of the feed  *)
(* are numbered in the order the source reads them.                        *)
(***************************************************************************)
EXTENDS Integers, Sequences

CONSTANTS
    Clients,      \* websocket clients that may ask for the local feed
    Approver,         \* the auto approver's feed client
    Nobody,       \* the hub's lock is free
    Hub,          \* the hub's goroutine, as a holder of the lock
    Lifetimes,    \* seconds from a message's arrival to its expire time
    Second,       \* nanoseconds in a second
    MaxDuration,  \* the largest time.Duration
    MaxMessages,  \* bound on the messages the source reads
    MaxDrops,     \* bound on the connections that break
    Steady,       \* bound: modes in which no connection breaks and no signal comes
    MaxCopies     \* bound on how often one SCAN returns a key

Feeds == Clients \cup {Approver}

ASSUME NamesAssumption ==
    /\ Approver \notin Clients
    /\ Nobody \notin Feeds /\ Hub \notin Feeds /\ Nobody # Hub

ASSUME FeedBoundsAssumption ==
    MaxMessages \in Nat /\ MaxDrops \in Nat /\ MaxCopies \in Nat

ASSUME DurationAssumption ==
    Lifetimes \subseteq Int /\ Second \in Nat \ {0} /\ MaxDuration \in Nat

VARIABLES
    mode,            \* "auto" if config.AutoApprove.Enabled; if the hub has a
                     \* message cache instead, "local" or "shared"
    \* agentSrv.Start and agentSrv.Stop
    service,         \* where Start is
    stopping,        \* where Stop is
    \* websocketSource
    source,          \* where its goroutine is
    conn,            \* the connection: "none", "up", "closing" when the close
                     \* message was written to it, "down"
    readyState,
    shouldReconnect, \* "yes" or "no"
    read,            \* number of the last message read
    drops,
    rx,              \* rxMessages, a channel of capacity one that is closed
                     \* when the source ends
    \* feedHubImpl
    hub,             \* where startHub is
    message,         \* the message startHub works on
    owner,           \* who holds the hub's lock
    clients,
    pending,         \* the clients the broadcast has not reached yet
    cache,           \* messages in the message cache
    \* per feed client
    request,         \* where its registration is
    todo,            \* copies of cached messages RegisterClient has yet to send
    listen,          \* where Listen is: "write" in a write with a deadline,
                     \* "bare" in one that began before there was any
    start,           \* where Start is: "fresh" before its first ping
    open,            \* clients whose readyState is OPEN
    closed,          \* feed clients whose Feed channel is closed
    \* history
    got,             \* the messages each Listen received, in order
    handled,         \* number of the last message the hub took in its lock
    since,           \* handled, when the client took the lock to register
    lost             \* messages the cache does not keep: it never took them,
                     \* they expired or were removed, or Redis failed

serviceVars == <<mode, service, stopping>>
sourceVars == <<source, conn, readyState, shouldReconnect, read, drops>>
hubVars == <<hub, message, owner, clients, pending, cache>>
clientVars == <<request, todo, listen, start, open, closed>>
historyVars == <<got, handled, since, lost>>
vars == <<serviceVars, sourceVars, rx, hubVars, clientVars, historyVars>>

Messages == 1 .. MaxMessages

\* How often each message is to be sent: the slice GetMessages returns.
Copies == [Messages -> Nat]

TypeOK ==
    /\ mode \in {"auto", "local", "shared"}
    /\ service \in {"connect", "opened", "register", "done", "failed"}
    /\ stopping \in {"no", "close", "flag", "state", "stopped"}
    /\ source \in {"off", "read", "push", "connect", "opened", "ended"}
    /\ conn \in {"none", "up", "closing", "down"}
    /\ readyState \in {"CLOSED", "CONNECTING", "OPEN"}
    /\ shouldReconnect \in {"yes", "no"}
    /\ read \in 0 .. MaxMessages /\ drops \in 0 .. MaxDrops
    /\ rx \in Seq(Messages) /\ Len(rx) <= 1
    /\ hub \in {"off", "receive", "lock", "send", "cleanup", "ended"}
    /\ message \in 0 .. MaxMessages
    /\ owner \in Feeds \cup {Hub, Nobody}
    /\ clients \in SUBSET Feeds /\ pending \in SUBSET Feeds
    /\ cache \in SUBSET Messages
    /\ request \in [Feeds -> {"idle", "lock", "scan", "replay", "done", "refused"}]
    /\ todo \in [Feeds -> Copies]
    /\ listen \in [Feeds -> {"off", "receive", "write", "bare", "closing", "ended"}]
    /\ start \in [Feeds -> {"off", "fresh", "run", "unregister", "ended"}]
    /\ open \in SUBSET Feeds
    /\ closed \in SUBSET Feeds
    /\ got \in [Feeds -> Seq(Messages)]
    /\ handled \in 0 .. MaxMessages
    /\ since \in [Feeds -> 0 .. MaxMessages]
    /\ lost \in SUBSET Messages
    /\ source = "push" => read \in Messages
    /\ hub \in {"lock", "send"} => message \in Messages

\* agentSrv.Start of a registered agent: with auto approval the auto
\* approver's Listen runs before anything else, and Run calls Connect.
Init ==
    /\ mode \in {"auto", "local", "shared"}
    /\ service = "connect" /\ stopping = "no"
    /\ source = "off" /\ conn = "none" /\ readyState = "CONNECTING"
    /\ shouldReconnect = "yes" /\ read = 0 /\ drops = 0
    /\ rx = <<>>
    /\ hub = "off" /\ message = 0 /\ owner = Nobody
    /\ clients = {} /\ pending = {} /\ cache = {}
    /\ request = [f \in Feeds |-> "idle"]
    /\ todo = [f \in Feeds |-> [m \in Messages |-> 0]]
    /\ listen = [f \in Feeds |-> IF f = Approver /\ mode = "auto" THEN "receive" ELSE "off"]
    /\ start = [f \in Feeds |-> "off"]
    /\ open = {}
    /\ closed = {}
    /\ got = [f \in Feeds |-> <<>>]
    /\ handled = 0 /\ since = [f \in Feeds |-> 0] /\ lost = {}

----------------------------------------------------------------------------
\* websocketSource: Connect and Listen.

\* One dial succeeds, in Run's Connect or in a reconnection: w.conn is set ...
Dial ==
    /\ \/ /\ service = "connect" /\ service' = "opened" /\ UNCHANGED source
       \/ /\ source = "connect" /\ source' = "opened" /\ UNCHANGED service
    /\ conn' = "up"
    /\ UNCHANGED <<mode, stopping, readyState, shouldReconnect, read, drops,
                   rx, hubVars, clientVars, historyVars>>

\* ... and then the ready state.  Run starts the hub and the source's Listen.
SetOpen ==
    /\ readyState' = "OPEN"
    /\ \/ /\ service = "opened" /\ service' = IF mode = "auto" THEN "register" ELSE "done"
          /\ source' = "read" /\ hub' = "receive"
       \/ /\ source = "opened" /\ source' = "read"
          /\ UNCHANGED <<service, hub>>
    /\ UNCHANGED <<mode, stopping, conn, shouldReconnect, read, drops,
                   rx, message, owner, clients, pending, cache, clientVars, historyVars>>

\* websocketSource.Listen ends: the connection and rxMessages are closed.
EndListen == source' = "ended" /\ conn' = "none"

\* reconnectIntervalMax passes without a connection.  In Start this closes the
\* auto approver's feed (AutoApprover.Stop); in Listen it ends the source.
GiveUp ==
    /\ readyState' = "CLOSED"
    /\ \/ /\ service = "connect" /\ service' = "failed"
          /\ closed' = IF mode = "auto" THEN closed \cup {Approver} ELSE closed
          /\ UNCHANGED <<source, conn>>
       \/ /\ source = "connect" /\ EndListen
          /\ UNCHANGED <<service, closed>>
    /\ UNCHANGED <<mode, stopping, shouldReconnect, read, drops, rx,
                   hubVars, request, todo, listen, start, open, historyVars>>

Read ==
    /\ source = "read" /\ conn \in {"up", "closing"} /\ read < MaxMessages
    /\ read' = read + 1
    /\ source' = "push"
    /\ UNCHANGED <<serviceVars, conn, readyState, shouldReconnect, drops,
                   rx, hubVars, clientVars, historyVars>>

\* A plausible slip: the channel has room for more messages than one.
PushFurther ==
    /\ source = "push"
    /\ rx' = Append(rx, read)
    /\ source' = "read"
    /\ UNCHANGED <<serviceVars, conn, readyState, shouldReconnect, read, drops,
                   hubVars, clientVars, historyVars>>

\* rxMessages <- message, when its buffer has room.
Push ==
    /\ source = "push" /\ rx = <<>>
    /\ rx' = <<read>>
    /\ source' = "read"
    /\ UNCHANGED <<serviceVars, conn, readyState, shouldReconnect, read, drops,
                   hubVars, clientVars, historyVars>>

\* ReadMessage fails: closed on request, or Connect again.
ReadError ==
    /\ source = "read" /\ conn = "down"
    /\ \/ /\ shouldReconnect = "no" /\ EndListen
          /\ UNCHANGED readyState
       \/ /\ shouldReconnect = "yes"
          /\ source' = "connect" /\ readyState' = "CONNECTING"
          /\ UNCHANGED conn
    /\ UNCHANGED <<serviceVars, shouldReconnect, read, drops, rx,
                   hubVars, clientVars, historyVars>>

\* The network or the server breaks the connection; the server always closes
\* one on which it got a close message.
Break ==
    /\ \/ conn = "closing" /\ UNCHANGED drops
       \/ conn = "up" /\ mode \notin Steady /\ drops < MaxDrops /\ drops' = drops + 1
    /\ conn' = "down"
    /\ UNCHANGED <<serviceVars, source, readyState, shouldReconnect, read,
                   rx, hubVars, clientVars, historyVars>>

----------------------------------------------------------------------------
\* feedHubImpl.startHub.

Receive ==
    /\ hub = "receive" /\ rx # <<>>
    /\ message' = Head(rx) /\ rx' = Tail(rx)
    /\ hub' = "lock"
    /\ UNCHANGED <<serviceVars, sourceVars, owner, clients, pending,
                   cache, clientVars, historyVars>>

\* A time.Duration of 64 bits: results beyond its range wrap around.
Wrap(n) ==
    ((n + MaxDuration + 1) % (2 * (MaxDuration + 1))) - (MaxDuration + 1)

\* messageInfo.getExpiration.
GetExpiration(life) == Wrap(life * Second)

\* A plausible slip: subtract the times the wrong way round.
AddMessageReversed(m, life) ==
    /\ cache' = IF mode # "auto" /\ GetExpiration(-life) > 0 THEN cache \cup {m} ELSE cache
    /\ lost' = IF mode = "auto" \/ life <= 0 \/ life * Second > MaxDuration
                 THEN lost \cup {m} ELSE lost

\* The cache takes a message that has not expired.  Without a cache, and with an
\* expire time that has passed or does not fit, nobody may count on the cache ...
AddMessage(m, life) ==
    /\ cache' = IF mode # "auto" /\ GetExpiration(life) > 0 THEN cache \cup {m} ELSE cache
    /\ lost' = IF mode = "auto" \/ life <= 0 \/ life * Second > MaxDuration
                 THEN lost \cup {m} ELSE lost

\* ... nor when the message cannot be decoded or Redis does not answer.
AddMessageFails(m) == cache' = cache /\ lost' = lost \cup {m}

\* The hub takes the lock, caches the message and turns to its clients.
Broadcast ==
    /\ hub = "lock" /\ owner = Nobody
    /\ owner' = Hub /\ hub' = "send"
    /\ (\E life \in Lifetimes : AddMessage(message, life)) \/ AddMessageFails(message)
    /\ pending' = clients
    /\ handled' = message
    /\ UNCHANGED <<serviceVars, sourceVars, rx, message, clients,
                   clientVars, got, since>>

\* f's Listen takes a message from its Feed channel.  A websocket client writes
\* it to its connection, with the deadline that Start's last ping set, or with
\* none; the auto approver starts a goroutine and goes on.
Deliver(f, m) ==
    /\ listen[f] = "receive"
    /\ listen' = [listen EXCEPT ![f] =
          IF f = Approver THEN "receive" ELSE IF start[f] = "fresh" THEN "bare" ELSE "write"]
    /\ got' = [got EXCEPT ![f] = Append(@, m)]

\* client.Feed <- message, holding the lock.
Send(f) ==
    /\ hub = "send" /\ f \in pending
    /\ Deliver(f, message)
    /\ pending' = pending \ {f}
    /\ UNCHANGED <<serviceVars, sourceVars, rx, hub, message, owner,
                   clients, cache, request, todo, start, open, closed, handled, since, lost>>

EndBroadcast ==
    /\ hub = "send" /\ pending = {}
    /\ owner' = Nobody /\ hub' = "receive"
    /\ UNCHANGED <<serviceVars, sourceVars, rx, message, clients, pending,
                   cache, clientVars, historyVars>>

\* The channel was closed: the deferred function runs.
StopRunning ==
    /\ hub = "receive" /\ rx = <<>> /\ source = "ended"
    /\ hub' = "cleanup"
    /\ UNCHANGED <<serviceVars, sourceVars, rx, message, owner, clients, pending,
                   cache, clientVars, historyVars>>

\* A plausible slip: forget the clients without closing their channels.
CleanUpKeepsFeeds ==
    /\ hub = "cleanup" /\ owner = Nobody
    /\ clients' = {}
    /\ hub' = "ended"
    /\ UNCHANGED <<serviceVars, sourceVars, rx, message, owner, pending,
                   cache, clientVars, historyVars>>

CleanUp ==
    /\ hub = "cleanup" /\ owner = Nobody
    /\ closed' = closed \cup clients
    /\ clients' = {}
    /\ hub' = "ended"
    /\ UNCHANGED <<serviceVars, sourceVars, rx, message, owner, pending,
                   cache, request, todo, listen, start, open, historyVars>>

\* RemoveMessage, when a request decided the action; the shared cache also
\* loses what expired or what a request to another instance removed.
Remove(m) ==
    /\ m \in cache
    /\ cache' = cache \ {m} /\ lost' = lost \cup {m}
    /\ UNCHANGED <<serviceVars, sourceVars, rx, hub, message, owner, clients, pending,
                   request, todo, listen, start, open, closed, got, handled, since>>

\* The hub of another instance caches a message, before or after this one does.
Elsewhere(m) ==
    /\ mode = "shared"
    /\ cache' = cache \cup {m}
    /\ UNCHANGED <<serviceVars, sourceVars, rx, hub, message, owner, clients, pending,
                   clientVars, historyVars>>

----------------------------------------------------------------------------
\* Registration: agentSrv.RegisterClientFeed, feedHubImpl.RegisterClient.

\* startHub sets isRunning when it starts and resets it before it cleans up.
IsRunning == hub \in {"receive", "lock", "send"}

\* A request for the local feed.  If the hub runs, the connection is upgraded
\* and the client's Start and Listen are running when RegisterClient is called.
RegisterClientFeed(c) ==
    /\ request[c] = "idle"
    /\ IF IsRunning
         THEN /\ request' = [request EXCEPT ![c] = "lock"]
              /\ listen' = [listen EXCEPT ![c] = "receive"]
              /\ start' = [start EXCEPT ![c] = "fresh"]
              /\ open' = open \cup {c}
         ELSE /\ request' = [request EXCEPT ![c] = "refused"]
              /\ UNCHANGED <<listen, start, open>>
    /\ UNCHANGED <<serviceVars, sourceVars, rx, hubVars, todo, closed, historyVars>>

\* agentSrv.Start registers the auto approver after Run.
RegisterAuto ==
    /\ service = "register"
    /\ service' = "done"
    /\ request' = [request EXCEPT ![Approver] = "lock"]
    /\ UNCHANGED <<mode, stopping, sourceVars, rx, hubVars, todo, listen, start,
                   open, closed, historyVars>>

\* localCache.GetMessages removes what has expired and returns the rest.
GetMessages(f) ==
    \E gone \in SUBSET cache :
        /\ cache' = cache \ gone /\ lost' = lost \cup gone
        /\ todo' = [todo EXCEPT ![f] =
                       [m \in Messages |-> IF m \in cache \ gone THEN 1 ELSE 0]]

\* A plausible slip: RegisterClient works without the lock.
RegisterUnlocked(f) ==
    /\ request[f] = "lock"
    /\ GetMessages(f)
    /\ request' = [request EXCEPT ![f] = "replay"]
    /\ since' = [since EXCEPT ![f] = handled]
    /\ UNCHANGED <<serviceVars, sourceVars, rx, hub, message, owner, clients, pending,
                   listen, start, open, closed, got, handled>>

\* RegisterClient takes the lock and asks for the cached messages: the local
\* cache answers at once, the shared one is scanned.
RegisterClient(f) ==
    /\ request[f] = "lock" /\ owner = Nobody
    /\ owner' = f
    /\ \/ /\ mode # "shared"
          /\ GetMessages(f)
          /\ request' = [request EXCEPT ![f] = "replay"]
       \/ /\ mode = "shared"
          /\ request' = [request EXCEPT ![f] = "scan"]
          /\ UNCHANGED <<cache, lost, todo>>
    /\ since' = [since EXCEPT ![f] = handled]
    /\ UNCHANGED <<serviceVars, sourceVars, rx, hub, message, clients, pending,
                   listen, start, open, closed, got, handled>>

\* distributedCache.GetMessages: SCAN returns a key and Get reads its message.
\* It may return a key again, or one that was added meanwhile.
ScanKey(f, m) ==
    /\ request[f] = "scan"
    /\ m \in cache /\ todo[f][m] < MaxCopies
    /\ todo' = [todo EXCEPT ![f][m] = @ + 1]
    /\ UNCHANGED <<serviceVars, sourceVars, rx, hubVars, request, listen, start, open, closed,
                   historyVars>>

\* What the hub handled and SCAN has not returned.
Unread(f) == {m \in cache : m <= handled /\ todo[f][m] = 0}

\* A plausible slip: return no message when there was an error.
EndScanEmpty(f) ==
    /\ request[f] = "scan"
    /\ todo' = [todo EXCEPT ![f] = [m \in Messages |-> 0]]
    /\ lost' = lost \cup Unread(f)
    /\ request' = [request EXCEPT ![f] = "replay"]
    /\ UNCHANGED <<serviceVars, sourceVars, rx, hubVars, listen, start, open, closed,
                   got, handled, since>>

\* The scan ends when it returned every key that was there all the time, or on
\* an error, which is logged: then the messages it did not read are missing.
EndScan(f) ==
    /\ request[f] = "scan"
    /\ lost' = lost \cup Unread(f)
    /\ request' = [request EXCEPT ![f] = "replay"]
    /\ UNCHANGED <<serviceVars, sourceVars, rx, hubVars, todo, listen, start, open, closed,
                   got, handled, since>>

\* Cached messages are sent in no particular order.
Replay(f, m) ==
    /\ request[f] = "replay" /\ todo[f][m] > 0
    /\ Deliver(f, m)
    /\ todo' = [todo EXCEPT ![f][m] = @ - 1]
    /\ UNCHANGED <<serviceVars, sourceVars, rx, hubVars, request, start, open, closed,
                   handled, since, lost>>

EndRegister(f) ==
    /\ request[f] = "replay" /\ \A m \in Messages : todo[f][m] = 0
    /\ clients' = clients \cup {f}
    /\ owner' = Nobody
    /\ request' = [request EXCEPT ![f] = "done"]
    /\ UNCHANGED <<serviceVars, sourceVars, rx, hub, message, pending, cache,
                   todo, listen, start, open, closed, historyVars>>

----------------------------------------------------------------------------
\* clientFeedImpl: Start and Listen.

\* The first tick sets a deadline for the writes that begin from then on.
Ping(c) ==
    /\ start[c] = "fresh"
    /\ start' = [start EXCEPT ![c] = "run"]
    /\ UNCHANGED <<serviceVars, sourceVars, rx, hubVars, request, todo, listen, open, closed,
                   historyVars>>

\* A ping cannot be written, the first or a later one.
PingFails(c) ==
    /\ start[c] \in {"fresh", "run"}
    /\ start' = [start EXCEPT ![c] = "unregister"]
    /\ open' = open \ {c}
    /\ UNCHANGED <<serviceVars, sourceVars, rx, hubVars, request, todo, listen, closed,
                   historyVars>>

\* A plausible slip: close the channel of a client that is not registered.
UnregisterAlwaysCloses(c) ==
    /\ start[c] = "unregister" /\ owner = Nobody
    /\ start' = [start EXCEPT ![c] = "ended"]
    /\ closed' = closed \cup {c}
    /\ clients' = clients \ {c}
    /\ UNCHANGED <<serviceVars, sourceVars, rx, hub, message, owner, pending,
                   cache, request, todo, listen, open, historyVars>>

\* UnregisterClient, under the lock, closes the channel of a registered client;
\* then Start returns.
UnregisterClient(c) ==
    /\ start[c] = "unregister" /\ owner = Nobody
    /\ start' = [start EXCEPT ![c] = "ended"]
    /\ closed' = closed \cup ({c} \cap clients)
    /\ clients' = clients \ {c}
    /\ UNCHANGED <<serviceVars, sourceVars, rx, hub, message, owner, pending,
                   cache, request, todo, listen, open, historyVars>>

\* A plausible slip: Listen returns when the connection cannot be written to.
WriteErrorEndsListen(c) ==
    /\ listen[c] \in {"write", "bare"}
    /\ \E next \in {"receive", "ended"} : listen' = [listen EXCEPT ![c] = next]
    /\ UNCHANGED <<serviceVars, sourceVars, rx, hubVars, request, todo, start, open,
                   closed, historyVars>>

\* WriteMessage returns; an error is logged and Listen goes on.  A write without
\* a deadline need not return before Start closes the connection.
Written(c) ==
    /\ listen[c] \in {"write", "bare"}
    /\ listen' = [listen EXCEPT ![c] = "receive"]
    /\ UNCHANGED <<serviceVars, sourceVars, rx, hubVars, request, todo, start, open,
                   closed, historyVars>>

\* Listen finds its channel closed; it asks Start to close the connection if
\* the ready state, read without synchronisation, is still OPEN.
FeedClosed(f) ==
    /\ listen[f] = "receive" /\ f \in closed
    /\ listen' = [listen EXCEPT ![f] = IF f \in open THEN "closing" ELSE "ended"]
    /\ UNCHANGED <<serviceVars, sourceVars, rx, hubVars, request, todo, start, open,
                   closed, historyVars>>

\* closeConn <- true meets Start's select; both return.
CloseConn(c) ==
    /\ listen[c] = "closing" /\ start[c] \in {"fresh", "run"}
    /\ listen' = [listen EXCEPT ![c] = "ended"]
    /\ start' = [start EXCEPT ![c] = "ended"]
    /\ open' = open \ {c}
    /\ UNCHANGED <<serviceVars, sourceVars, rx, hubVars, request, todo, closed,
                   historyVars>>

----------------------------------------------------------------------------
\* The interrupt signal: agentSrv.Stop, feedHubImpl.Stop, Disconnect.

Stop ==
    /\ stopping = "no" /\ mode \notin Steady
    /\ stopping' = IF readyState = "OPEN" THEN "close" ELSE "stopped"
    /\ UNCHANGED <<mode, service, sourceVars, rx, hubVars, clientVars, historyVars>>

\* Disconnect writes the close message first ...
WriteClose ==
    /\ stopping = "close"
    /\ stopping' = "flag"
    /\ conn' = IF conn = "up" THEN "closing" ELSE conn
    /\ UNCHANGED <<mode, service, source, readyState, shouldReconnect, read, drops,
                   rx, hubVars, clientVars, historyVars>>

\* ... then forbids the reconnection ...
ForbidReconnect ==
    /\ stopping = "flag"
    /\ stopping' = "state"
    /\ shouldReconnect' = "no"
    /\ UNCHANGED <<mode, service, source, conn, readyState, read, drops,
                   rx, hubVars, clientVars, historyVars>>

\* ... and sets the ready state.
SetClosed ==
    /\ stopping = "state"
    /\ stopping' = "stopped"
    /\ readyState' = "CLOSED"
    /\ UNCHANGED <<mode, service, source, conn, shouldReconnect, read, drops,
                   rx, hubVars, clientVars, historyVars>>

----------------------------------------------------------------------------
Source == Dial \/ SetOpen \/ GiveUp \/ Push \/ ReadError
HubSteps ==
    \/ Receive \/ Broadcast \/ EndBroadcast \/ StopRunning \/ CleanUp
    \/ \E f \in Feeds : Send(f)
Registration(f) ==
    \/ RegisterClient(f) \/ EndScan(f) \/ EndRegister(f)
    \/ \E m \in Messages : ScanKey(f, m) \/ Replay(f, m)
ListenSteps(f) == FeedClosed(f) \/ Written(f)
StartSteps(c) == UnregisterClient(c) \/ CloseConn(c)
Signal == WriteClose \/ ForbidReconnect \/ SetClosed

\* Nothing to do: no goroutine holds the lock or wants it, and the source
\* waits for the network or has ended.
Idle ==
    /\ owner = Nobody
    /\ hub \in {"off", "receive", "ended"} /\ rx = <<>>
    /\ source \in {"off", "read", "ended"}
    /\ \A f \in Feeds : request[f] # "lock" /\ start[f] # "unregister"
    /\ UNCHANGED vars

Next ==
    \/ Source \/ Read \/ Break
    \/ HubSteps
    \/ \E m \in Messages : Remove(m) \/ Elsewhere(m)
    \/ RegisterAuto
    \/ \E f \in Feeds : Registration(f) \/ ListenSteps(f)
    \/ \E c \in Clients : RegisterClientFeed(c) \/ Ping(c) \/ PingFails(c) \/ StartSteps(c)
    \/ Stop \/ Signal
    \/ Idle

Spec == Init /\ [][Next]_vars

\* What makes a write to a client return: its deadline, or its connection closed.
WrittenInTime(c) == (listen[c] = "write" \/ start[c] = "ended") /\ Written(c)

\* Go runs every runnable goroutine, a write with a deadline returns, and Connect
\* ends within reconnectIntervalMax.  A write without a deadline - one that began
\* before the client's first ping - need never return.  No message, drop,
\* removal, request, ping or signal need ever come.
FairSpec ==
    /\ Spec
    /\ WF_vars(Source) /\ WF_vars(HubSteps) /\ WF_vars(RegisterAuto)
    /\ \A f \in Feeds : WF_vars(Registration(f)) /\ WF_vars(FeedClosed(f) \/ WrittenInTime(f))
    /\ \A c \in Clients : WF_vars(StartSteps(c))

----------------------------------------------------------------------------
Received(f) == {got[f][i] : i \in 1 .. Len(got[f])}

\* Nobody sends to a closed Feed channel or closes one twice, which would end
\* the process: what cleanUp, the broadcast and a registration are about to use
\* is open (feed_hub.go:105, 158, 186 against 120).
NoClosedFeed ==
    /\ clients \cap closed = {}
    /\ hub = "send" => pending \subseteq clients
    /\ \A f \in Feeds : request[f] \in {"lock", "scan", "replay"} => f \notin closed

\* Nobody the hub or a registration sends to with the lock held has ended: its
\* Listen takes the message, now or after the write it is busy with, if that
\* write returns (feed_hub.go:105, 186; client.go:99-114).
Listening ==
    \A f \in Feeds :
        f \in clients \/ request[f] \in {"lock", "scan", "replay"}
            => listen[f] \in {"receive", "write", "bare"}

\* How many messages the hub sent to the registered client f since it
\* registered, without the one on its way to f.
Late(f) ==
    IF hub = "send" /\ f \in pending THEN handled - since[f] - 1 ELSE handled - since[f]

\* f got "early" messages from before its registration and then Late(f) more.
NoGap(f) ==
    LET early == Len(got[f]) - Late(f)
    IN  /\ Late(f) >= 0 /\ early >= 0
        /\ mode # "shared" =>
              \A i \in 1 .. early :
                 /\ got[f][i] <= since[f]
                 /\ \A j \in 1 .. early : got[f][i] = got[f][j] => i = j
        /\ \A i \in early + 1 .. Len(got[f]) : got[f][i] = since[f] + i - early

\* A registered client got some messages while it registered - from a local
\* cache none of them twice or too early - and then every message the hub
\* broadcast since, in order and without a gap or a repetition, but for the one
\* on its way to it (feed_hub.go:97-111, 177-189).
GapFree == \A f \in clients : NoGap(f)

\* What f got, is about to get or may not count on.
Reached(f) ==
    Received(f) \cup lost \cup (IF hub = "send" /\ f \in pending THEN {handled} ELSE {})

\* A registered client got every message that the cache took and did not lose:
\* feed_hub.go:101, "send all previously received pending messages".  The cache
\* takes every message with an expire time that is ahead and a time.Duration
\* (cache.go:17), unless Redis fails.
NoneMissed == \A f \in clients : 1 .. handled \subseteq Reached(f)

\* The hub is an ordered broadcast to those who joined (module Broadcast): every
\* step of its goroutines, its lock and its cache is a step of that
\* specification or changes nothing a client can see.
Status(f) ==
    CASE request[f] \in {"idle", "lock", "refused"} -> "out"
      [] request[f] \in {"scan", "replay"} -> "joining"
      [] request[f] = "done" -> IF f \in clients THEN "in" ELSE "left"
UpTo(f) ==
    CASE Status(f) = "joining" -> since[f]
      [] Status(f) = "in" -> IF hub = "send" /\ f \in pending THEN handled - 1 ELSE handled
      [] OTHER -> 0

Promise == INSTANCE Broadcast WITH
    Clients <- Feeds,
    status <- [f \in Feeds |-> Status(f)],
    sent <- [f \in Feeds |-> UpTo(f)]

OrderedBroadcast == Promise!Spec

\* No write to a client without a deadline blocks for ever.  Nothing in the code
\* makes sure of that: it is up to the clients and the network (client.go:80, 110).
WritesReturn == \A c \in Clients : []<>(listen[c] # "bare")

\* If so, what the source reads while a client is registered reaches that client,
\* or the client is unregistered: neither locks nor channels, failing pings,
\* failing writes or reconnections stop the feed (feed_hub.go:177-189).
Delivery ==
    WritesReturn =>
        \A f \in Feeds, m \in Messages :
            (f \in clients /\ since[f] < m /\ m <= read) ~> (m \in Received(f) \/ f \notin clients)

\* If so, and the source ends, the hub closes the channel of every client it
\* still has and their listeners stop - unless a client's Start ended on a failed
\* ping when its Listen had just seen the ready state OPEN (client.go:83, 106).
FeedEnds ==
    WritesReturn =>
        \A f \in Feeds :
            (f \in clients /\ source = "ended" /\ hub # "ended") ~>
                \/ listen[f] = "ended"
                \/ listen[f] = "closing" /\ start[f] = "ended"

----------------------------------------------------------------------------
\* Why the safety properties hold: the invariants the proofs use.

\* The lock belongs to the broadcast or to one registration; a client is
\* registered once, and its channel is closed only after that - but for the auto
\* approver's when the hub never ran.
OwnerInv ==
    /\ hub = "send" <=> owner = Hub
    /\ hub = "send" => pending \subseteq clients
    /\ service \in {"connect", "opened", "failed"} => hub = "off" /\ source = "off"
    /\ service # "done" => request[Approver] = "idle"
    /\ \A f \in Feeds :
          /\ request[f] \in {"scan", "replay"} <=> owner = f
          /\ f \in clients => request[f] = "done" /\ f \notin closed
          /\ f \in closed => request[f] = "done" \/ (f = Approver /\ service = "failed")

\* The auto approver listens before it is registered.
ListenInv ==
    /\ Listening
    /\ service = "register" => mode = "auto"
    /\ mode = "auto" /\ service \in {"connect", "opened", "register"}
          => listen[Approver] = "receive"

\* Messages travel in order: after those the hub handled comes the one it just
\* received, then the one in the channel, then the one the source holds.
Taken == IF hub = "lock" THEN handled + 1 ELSE handled
QueueInv ==
    /\ hub \in {"lock", "send"} => message = Taken
    /\ rx \in {<<>>, <<Taken + 1>>}
    /\ read = Taken + Len(rx) + (IF source = "push" THEN 1 ELSE 0)

\* A client that registers received only cached messages, from a local cache
\* each once, and nothing is broadcast meanwhile.
OnceOnly(f) ==
    /\ \A m \in Messages : todo[f][m] > 0 => todo[f][m] = 1 /\ m <= handled
    /\ \A i \in 1 .. Len(got[f]) :
          /\ got[f][i] <= handled /\ todo[f][got[f][i]] = 0
          /\ \A j \in 1 .. Len(got[f]) : got[f][i] = got[f][j] => i = j
Replaying(f) ==
    /\ request[f] \in {"idle", "lock", "scan", "refused"} => got[f] = <<>>
    /\ request[f] = "scan" => mode = "shared"
    /\ request[f] \in {"scan", "replay"} => since[f] = handled
    /\ request[f] = "replay" /\ mode # "shared" => OnceOnly(f)
ReplayInv ==
    /\ mode # "shared" => cache \subseteq 1 .. handled
    /\ \A f \in Feeds : Replaying(f)

\* Every message so far is in the cache or lost; a client that registers has
\* got it or is about to, or the scan of the cache is still to return it.
Offered(f, m) ==
    \/ m \in lost \cup Received(f)
    \/ todo[f][m] > 0
    \/ request[f] = "scan" /\ m \in cache
CacheInv ==
    /\ 1 .. handled \subseteq cache \cup lost
    /\ \A f \in Feeds :
          request[f] \in {"scan", "replay"} => \A m \in 1 .. handled : Offered(f, m)

----------------------------------------------------------------------------
\* What a comment says, and the code does not do.

\* client.go:19: upon the client's request to unregister, "the Feed channel will
\* be closed and no data will be received".
UnregisterCloses ==
    \A c \in Clients : (start[c] = "unregister" /\ c \in clients) ~> c \in closed
====
