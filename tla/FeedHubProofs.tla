---- MODULE FeedHubProofs ----
(***************************************************************************)
(* Proofs about FeedHub, for any set of websocket clients and any bounds.  *)
(***************************************************************************)
EXTENDS FeedHub, TLAPS

\* The initial states have the right types.
LEMMA InitType == Init => TypeOK
BY FeedBoundsAssumption DEF Init, TypeOK, Feeds, Messages, Copies

\* Every step keeps the types.
LEMMA StepType == TypeOK /\ [Next]_vars => TypeOK'
<1> SUFFICES ASSUME TypeOK, [Next]_vars PROVE TypeOK'
  OBVIOUS
<1> USE NamesAssumption, FeedBoundsAssumption
<1> USE DEF Feeds, serviceVars, sourceVars, hubVars, clientVars, historyVars
<1> USE DEF TypeOK, Messages
<1>1. CASE Dial
  BY <1>1 DEF Dial
<1>2. CASE SetOpen
  BY <1>2 DEF SetOpen
<1>3. CASE GiveUp
  BY <1>3 DEF GiveUp, EndListen
<1>4. CASE Push
  BY <1>4 DEF Push
<1>5. CASE ReadError
  BY <1>5 DEF ReadError, EndListen
<1>6. CASE Read
  BY <1>6 DEF Read
<1>7. CASE Break
  BY <1>7 DEF Break
<1>8. CASE Receive
  BY <1>8 DEF Receive
<1>9. CASE Broadcast
  <2>1. message \in Messages /\ cache' \in SUBSET Messages /\ lost' \in SUBSET Messages
    <3>1. message \in Messages /\ cache \in SUBSET Messages /\ lost \in SUBSET Messages
      BY <1>9 DEF Broadcast
    <3>2. cache' \subseteq cache \cup {message} /\ lost' \subseteq lost \cup {message}
      BY <1>9 DEF Broadcast, AddMessage, AddMessageFails
    <3> QED
      BY <3>1, <3>2
  <2>2. UNCHANGED <<serviceVars, sourceVars, rx, message, clients, clientVars, got, since>>
    BY <1>9 DEF Broadcast
  <2> QED
    BY <1>9, <2>1, <2>2 DEF Broadcast
<1>10. CASE EndBroadcast
  BY <1>10 DEF EndBroadcast
<1>11. CASE StopRunning
  BY <1>11 DEF StopRunning
<1>12. CASE CleanUp
  BY <1>12 DEF CleanUp
<1>13. CASE RegisterAuto
  BY <1>13 DEF RegisterAuto
<1>14. CASE Stop
  BY <1>14 DEF Stop
<1>15. CASE WriteClose
  BY <1>15 DEF WriteClose
<1>16. CASE ForbidReconnect
  BY <1>16 DEF ForbidReconnect
<1>17. CASE SetClosed
  BY <1>17 DEF SetClosed
<1>18. CASE Idle
  BY <1>18 DEF Idle, vars
<1>19. ASSUME NEW f \in Feeds, Send(f) PROVE TypeOK'
  BY <1>19 DEF Send, Deliver
<1>20. ASSUME NEW f \in Feeds, RegisterClient(f) PROVE TypeOK'
  <2>1. todo' \in [Feeds -> Copies] /\ cache' \in SUBSET Messages /\ lost' \in SUBSET Messages
    <3>1. CASE UNCHANGED <<cache, lost, todo>>
      BY <3>1
    <3>2. CASE GetMessages(f)
      <4>1. PICK gone \in SUBSET cache :
               /\ cache' = cache \ gone /\ lost' = lost \cup gone
               /\ todo' = [todo EXCEPT ![f] =
                              [m \in Messages |-> IF m \in cache \ gone THEN 1 ELSE 0]]
        BY <3>2 DEF GetMessages
      <4>2. [m \in Messages |-> IF m \in cache \ gone THEN 1 ELSE 0] \in Copies
        BY DEF Copies
      <4> QED
        BY <4>1, <4>2
    <3> QED
      BY <1>20, <3>1, <3>2 DEF RegisterClient
  <2>2. /\ request' \in [Feeds -> {"idle", "lock", "scan", "replay", "done", "refused"}]
        /\ since' \in [Feeds -> 0 .. MaxMessages] /\ owner' \in Feeds
    BY <1>20 DEF RegisterClient
  <2>3. UNCHANGED <<serviceVars, sourceVars, rx, hub, message, clients, pending,
                    listen, start, open, closed, got, handled>>
    BY <1>20 DEF RegisterClient
  <2> QED
    BY <2>1, <2>2, <2>3
<1>21. ASSUME NEW f \in Feeds, EndRegister(f) PROVE TypeOK'
  BY <1>21 DEF EndRegister
<1>22. ASSUME NEW f \in Feeds, FeedClosed(f) PROVE TypeOK'
  BY <1>22 DEF FeedClosed
<1>23. ASSUME NEW f \in Feeds, Written(f) PROVE TypeOK'
  BY <1>23 DEF Written
<1>24. ASSUME NEW f \in Clients, RegisterClientFeed(f) PROVE TypeOK'
  <2>1. UNCHANGED <<serviceVars, sourceVars, rx, hubVars, todo, closed, historyVars>>
    BY <1>24 DEF RegisterClientFeed
  <2>2. request' \in [Feeds -> {"idle", "lock", "scan", "replay", "done", "refused"}]
    BY <1>24 DEF RegisterClientFeed
  <2>3. /\ listen' \in [Feeds -> {"off", "receive", "write", "bare", "closing", "ended"}]
        /\ start' \in [Feeds -> {"off", "fresh", "run", "unregister", "ended"}]
        /\ open' \in SUBSET Feeds
    BY <1>24 DEF RegisterClientFeed
  <2> QED
    BY <2>1, <2>2, <2>3
<1>25. ASSUME NEW f \in Clients, Ping(f) \/ PingFails(f) PROVE TypeOK'
  <2>1. UNCHANGED <<serviceVars, sourceVars, rx, hubVars, request, todo, listen, closed, historyVars>>
    BY <1>25 DEF Ping, PingFails
  <2>2. /\ start' \in [Feeds -> {"off", "fresh", "run", "unregister", "ended"}]
        /\ open' \in SUBSET Feeds
    BY <1>25 DEF Ping, PingFails
  <2> QED
    BY <2>1, <2>2
<1>26. ASSUME NEW f \in Clients, UnregisterClient(f) PROVE TypeOK'
  BY <1>26 DEF UnregisterClient
<1>27. ASSUME NEW f \in Clients, CloseConn(f) PROVE TypeOK'
  <2>1. UNCHANGED <<serviceVars, sourceVars, rx, hubVars, request, todo, closed, historyVars>>
    BY <1>27 DEF CloseConn
  <2>2. /\ listen' \in [Feeds -> {"off", "receive", "write", "bare", "closing", "ended"}]
        /\ start' \in [Feeds -> {"off", "fresh", "run", "unregister", "ended"}]
        /\ open' \in SUBSET Feeds
    BY <1>27 DEF CloseConn
  <2> QED
    BY <2>1, <2>2
<1>28. ASSUME NEW m \in Messages, Remove(m) PROVE TypeOK'
  BY <1>28 DEF Remove
<1>29. ASSUME NEW f \in Feeds, NEW m \in Messages, Replay(f, m) PROVE TypeOK'
  <2>1. todo' \in [Feeds -> Copies]
    <3>1. todo[f][m] - 1 \in Nat /\ todo' = [todo EXCEPT ![f][m] = @ - 1]
      BY <1>29 DEF Replay, Copies
    <3>2. [todo[f] EXCEPT ![m] = @ - 1] \in Copies
      BY <1>29, <3>1 DEF Copies
    <3> QED
      BY <3>1, <3>2
  <2>2. listen' \in [Feeds -> {"off", "receive", "write", "bare", "closing", "ended"}]
    <3>1. PICK next \in {"receive", "write", "bare"} : listen' = [listen EXCEPT ![f] = next]
      BY <1>29 DEF Replay, Deliver
    <3> QED
      BY <3>1
  <2>3. got' \in [Feeds -> Seq(Messages)]
    BY <1>29 DEF Replay, Deliver
  <2> QED
    BY <1>29, <2>1, <2>2, <2>3 DEF Replay
<1>30. CASE UNCHANGED vars
  BY <1>30 DEF vars
<1>31. ASSUME NEW m \in Messages, Elsewhere(m) PROVE TypeOK'
  BY <1>31 DEF Elsewhere
<1>32. ASSUME NEW f \in Feeds, NEW m \in Messages, ScanKey(f, m) PROVE TypeOK'
  <2>1. todo' \in [Feeds -> Copies]
    BY <1>32 DEF ScanKey, Copies
  <2> QED
    BY <1>32, <2>1 DEF ScanKey
<1>33. ASSUME NEW f \in Feeds, EndScan(f) PROVE TypeOK'
  <2>1. lost' \in SUBSET Messages
    BY <1>33 DEF EndScan, Unread
  <2>2. request' \in [Feeds -> {"idle", "lock", "scan", "replay", "done", "refused"}]
    BY <1>33 DEF EndScan
  <2> QED
    BY <1>33, <2>1, <2>2 DEF EndScan
<1> QED
  BY <1>1, <1>2, <1>3, <1>4, <1>5, <1>6, <1>7, <1>8, <1>9, <1>10, <1>11, <1>12, <1>13, <1>14, <1>15, <1>16, <1>17, <1>18, <1>19, <1>20, <1>21, <1>22, <1>23, <1>24, <1>25, <1>26, <1>27, <1>28, <1>29, <1>30, <1>31, <1>32, <1>33
  DEF Next, Source, HubSteps, Registration, ListenSteps, StartSteps, Signal

\* Every reachable state has the right types.
THEOREM TypeCorrect == Spec => []TypeOK
BY InitType, StepType, PTL DEF Spec

----------------------------------------------------------------------------
\* Every step keeps the lock, the registrations and the closed channels consistent.
LEMMA StepOwner == TypeOK /\ OwnerInv /\ [Next]_vars => OwnerInv'
<1> SUFFICES ASSUME TypeOK, OwnerInv, [Next]_vars PROVE OwnerInv'
  OBVIOUS
<1> USE NamesAssumption, FeedBoundsAssumption
<1> USE DEF Feeds, serviceVars, sourceVars, hubVars, clientVars, historyVars
<1> USE DEF TypeOK, OwnerInv
<1>1. CASE Dial
  BY <1>1 DEF Dial
<1>2. CASE SetOpen
  BY <1>2 DEF SetOpen
<1>3. CASE GiveUp
  BY <1>3 DEF GiveUp, EndListen
<1>4. CASE Push
  BY <1>4 DEF Push
<1>5. CASE ReadError
  BY <1>5 DEF ReadError, EndListen
<1>6. CASE Read
  BY <1>6 DEF Read
<1>7. CASE Break
  BY <1>7 DEF Break
<1>8. CASE Receive
  BY <1>8 DEF Receive
<1>9. CASE Broadcast
  BY <1>9 DEF Broadcast, AddMessage, AddMessageFails
<1>10. CASE EndBroadcast
  BY <1>10 DEF EndBroadcast
<1>11. CASE StopRunning
  BY <1>11 DEF StopRunning
<1>12. CASE CleanUp
  BY <1>12 DEF CleanUp
<1>13. CASE RegisterAuto
  BY <1>13 DEF RegisterAuto
<1>14. CASE Stop
  BY <1>14 DEF Stop
<1>15. CASE WriteClose
  BY <1>15 DEF WriteClose
<1>16. CASE ForbidReconnect
  BY <1>16 DEF ForbidReconnect
<1>17. CASE SetClosed
  BY <1>17 DEF SetClosed
<1>18. CASE Idle
  BY <1>18 DEF Idle, vars
<1>19. ASSUME NEW f \in Feeds, Send(f) PROVE OwnerInv'
  BY <1>19 DEF Send, Deliver
<1>20. ASSUME NEW f \in Feeds, RegisterClient(f) PROVE OwnerInv'
  BY <1>20 DEF RegisterClient, GetMessages
<1>21. ASSUME NEW f \in Feeds, EndRegister(f) PROVE OwnerInv'
  BY <1>21 DEF EndRegister
<1>22. ASSUME NEW f \in Feeds, FeedClosed(f) PROVE OwnerInv'
  BY <1>22 DEF FeedClosed
<1>23. ASSUME NEW f \in Feeds, Written(f) PROVE OwnerInv'
  BY <1>23 DEF Written
<1>24. ASSUME NEW f \in Clients, RegisterClientFeed(f) PROVE OwnerInv'
  BY <1>24 DEF RegisterClientFeed, IsRunning
<1>25. ASSUME NEW f \in Clients, Ping(f) \/ PingFails(f) PROVE OwnerInv'
  BY <1>25 DEF Ping, PingFails
<1>26. ASSUME NEW f \in Clients, UnregisterClient(f) PROVE OwnerInv'
  BY <1>26 DEF UnregisterClient
<1>27. ASSUME NEW f \in Clients, CloseConn(f) PROVE OwnerInv'
  BY <1>27 DEF CloseConn
<1>28. ASSUME NEW m \in Messages, Remove(m) PROVE OwnerInv'
  BY <1>28 DEF Remove
<1>29. ASSUME NEW f \in Feeds, NEW m \in Messages, Replay(f, m) PROVE OwnerInv'
  BY <1>29 DEF Replay, Deliver
<1>30. CASE UNCHANGED vars
  BY <1>30 DEF vars
<1>31. ASSUME NEW m \in Messages, Elsewhere(m) PROVE OwnerInv'
  BY <1>31 DEF Elsewhere
<1>32. ASSUME NEW f \in Feeds, NEW m \in Messages, ScanKey(f, m) PROVE OwnerInv'
  BY <1>32 DEF ScanKey
<1>33. ASSUME NEW f \in Feeds, EndScan(f) PROVE OwnerInv'
  BY <1>33 DEF EndScan, Unread
<1> QED
  BY <1>1, <1>2, <1>3, <1>4, <1>5, <1>6, <1>7, <1>8, <1>9, <1>10, <1>11, <1>12, <1>13, <1>14, <1>15, <1>16, <1>17, <1>18, <1>19, <1>20, <1>21, <1>22, <1>23, <1>24, <1>25, <1>26, <1>27, <1>28, <1>29, <1>30, <1>31, <1>32, <1>33
  DEF Next, Source, HubSteps, Registration, ListenSteps, StartSteps, Signal

\* The lock, the registrations and the closed channels stay consistent.
LEMMA OwnerCorrect == Spec => []OwnerInv
<1>1. Init => OwnerInv
  BY NamesAssumption DEF Init, OwnerInv, Feeds
<1> QED
  BY <1>1, TypeCorrect, StepOwner, PTL DEF Spec

\* Nobody sends to a closed feed channel or closes one twice.
THEOREM NoClosedFeedCorrect == Spec => []NoClosedFeed
<1>1. TypeOK /\ OwnerInv => NoClosedFeed
  BY DEF TypeOK, OwnerInv, NoClosedFeed, Feeds
<1> QED
  BY <1>1, TypeCorrect, OwnerCorrect, PTL

----------------------------------------------------------------------------
\* A Listen ends only when its channel is closed, and a channel is closed only
\* when nobody is to send on it any more.
LEMMA StepListen == TypeOK /\ OwnerInv /\ ListenInv /\ [Next]_vars => ListenInv'
<1> SUFFICES ASSUME TypeOK, OwnerInv, ListenInv, [Next]_vars PROVE ListenInv'
  OBVIOUS
<1> USE NamesAssumption, FeedBoundsAssumption
<1> USE DEF Feeds, serviceVars, sourceVars, hubVars, clientVars, historyVars
<1> USE DEF TypeOK, OwnerInv, ListenInv, Listening
<1>1. CASE Dial
  BY <1>1 DEF Dial
<1>2. CASE SetOpen
  BY <1>2 DEF SetOpen
<1>3. CASE GiveUp
  BY <1>3 DEF GiveUp, EndListen
<1>4. CASE Push
  BY <1>4 DEF Push
<1>5. CASE ReadError
  BY <1>5 DEF ReadError, EndListen
<1>6. CASE Read
  BY <1>6 DEF Read
<1>7. CASE Break
  BY <1>7 DEF Break
<1>8. CASE Receive
  BY <1>8 DEF Receive
<1>9. CASE Broadcast
  BY <1>9 DEF Broadcast, AddMessage, AddMessageFails
<1>10. CASE EndBroadcast
  BY <1>10 DEF EndBroadcast
<1>11. CASE StopRunning
  BY <1>11 DEF StopRunning
<1>12. CASE CleanUp
  BY <1>12 DEF CleanUp
<1>13. CASE RegisterAuto
  BY <1>13 DEF RegisterAuto
<1>14. CASE Stop
  BY <1>14 DEF Stop
<1>15. CASE WriteClose
  BY <1>15 DEF WriteClose
<1>16. CASE ForbidReconnect
  BY <1>16 DEF ForbidReconnect
<1>17. CASE SetClosed
  BY <1>17 DEF SetClosed
<1>18. CASE Idle
  BY <1>18 DEF Idle, vars
<1>19. ASSUME NEW f \in Feeds, Send(f) PROVE ListenInv'
  BY <1>19 DEF Send, Deliver
<1>20. ASSUME NEW f \in Feeds, RegisterClient(f) PROVE ListenInv'
  BY <1>20 DEF RegisterClient, GetMessages
<1>21. ASSUME NEW f \in Feeds, EndRegister(f) PROVE ListenInv'
  BY <1>21 DEF EndRegister
<1>22. ASSUME NEW f \in Feeds, FeedClosed(f) PROVE ListenInv'
  BY <1>22 DEF FeedClosed
<1>23. ASSUME NEW f \in Feeds, Written(f) PROVE ListenInv'
  BY <1>23 DEF Written
<1>24. ASSUME NEW f \in Clients, RegisterClientFeed(f) PROVE ListenInv'
  <2>1. /\ UNCHANGED <<mode, service, clients>>
        /\ \A g \in Feeds : g # f => listen'[g] = listen[g] /\ request'[g] = request[g]
    BY <1>24 DEF RegisterClientFeed
  <2>2. \/ listen'[f] = "receive" /\ request'[f] = "lock"
        \/ listen'[f] = listen[f] /\ request'[f] = "refused"
    BY <1>24 DEF RegisterClientFeed
  <2> QED
    BY <2>1, <2>2
<1>25. ASSUME NEW f \in Clients, Ping(f) \/ PingFails(f) PROVE ListenInv'
  BY <1>25 DEF Ping, PingFails
<1>26. ASSUME NEW f \in Clients, UnregisterClient(f) PROVE ListenInv'
  BY <1>26 DEF UnregisterClient
<1>27. ASSUME NEW f \in Clients, CloseConn(f) PROVE ListenInv'
  BY <1>27 DEF CloseConn
<1>28. ASSUME NEW m \in Messages, Remove(m) PROVE ListenInv'
  BY <1>28 DEF Remove
<1>29. ASSUME NEW f \in Feeds, NEW m \in Messages, Replay(f, m) PROVE ListenInv'
  BY <1>29 DEF Replay, Deliver
<1>30. CASE UNCHANGED vars
  BY <1>30 DEF vars
<1>31. ASSUME NEW m \in Messages, Elsewhere(m) PROVE ListenInv'
  BY <1>31 DEF Elsewhere
<1>32. ASSUME NEW f \in Feeds, NEW m \in Messages, ScanKey(f, m) PROVE ListenInv'
  BY <1>32 DEF ScanKey
<1>33. ASSUME NEW f \in Feeds, EndScan(f) PROVE ListenInv'
  BY <1>33 DEF EndScan, Unread
<1> QED
  BY <1>1, <1>2, <1>3, <1>4, <1>5, <1>6, <1>7, <1>8, <1>9, <1>10, <1>11, <1>12, <1>13, <1>14, <1>15, <1>16, <1>17, <1>18, <1>19, <1>20, <1>21, <1>22, <1>23, <1>24, <1>25, <1>26, <1>27, <1>28, <1>29, <1>30, <1>31, <1>32, <1>33
  DEF Next, Source, HubSteps, Registration, ListenSteps, StartSteps, Signal

\* The receiver of every message sent under the lock is there.
THEOREM ListeningCorrect == Spec => []Listening
<1>1. Init => ListenInv
  BY NamesAssumption DEF Init, ListenInv, Listening, Feeds
<1>2. ListenInv => Listening
  BY DEF ListenInv
<1> QED
  BY <1>1, <1>2, TypeCorrect, OwnerCorrect, StepListen, PTL DEF Spec

----------------------------------------------------------------------------
\* Messages stay in order on their way from the source to the hub.
LEMMA StepQueue == TypeOK /\ OwnerInv /\ QueueInv /\ [Next]_vars => QueueInv'
<1> SUFFICES ASSUME TypeOK, OwnerInv, QueueInv, [Next]_vars PROVE QueueInv'
  OBVIOUS
<1> USE NamesAssumption, FeedBoundsAssumption
<1> USE DEF Feeds, serviceVars, sourceVars, hubVars, clientVars, historyVars
<1> USE DEF TypeOK, QueueInv, Taken, Messages
<1>1. CASE Dial
  BY <1>1 DEF Dial
<1>2. CASE SetOpen
  BY <1>2 DEF SetOpen, OwnerInv
<1>3. CASE GiveUp
  BY <1>3 DEF GiveUp, EndListen
<1>4. CASE Push
  BY <1>4 DEF Push
<1>5. CASE ReadError
  BY <1>5 DEF ReadError, EndListen
<1>6. CASE Read
  BY <1>6 DEF Read
<1>7. CASE Break
  BY <1>7 DEF Break
<1>8. CASE Receive
  BY <1>8 DEF Receive
<1>9. CASE Broadcast
  BY <1>9 DEF Broadcast, AddMessage, AddMessageFails
<1>10. CASE EndBroadcast
  BY <1>10 DEF EndBroadcast
<1>11. CASE StopRunning
  BY <1>11 DEF StopRunning
<1>12. CASE CleanUp
  BY <1>12 DEF CleanUp
<1>13. CASE RegisterAuto
  BY <1>13 DEF RegisterAuto
<1>14. CASE Stop
  BY <1>14 DEF Stop
<1>15. CASE WriteClose
  BY <1>15 DEF WriteClose
<1>16. CASE ForbidReconnect
  BY <1>16 DEF ForbidReconnect
<1>17. CASE SetClosed
  BY <1>17 DEF SetClosed
<1>18. CASE Idle
  BY <1>18 DEF Idle, vars
<1>19. ASSUME NEW f \in Feeds, Send(f) PROVE QueueInv'
  BY <1>19 DEF Send, Deliver
<1>20. ASSUME NEW f \in Feeds, RegisterClient(f) PROVE QueueInv'
  BY <1>20 DEF RegisterClient, GetMessages
<1>21. ASSUME NEW f \in Feeds, EndRegister(f) PROVE QueueInv'
  BY <1>21 DEF EndRegister
<1>22. ASSUME NEW f \in Feeds, FeedClosed(f) PROVE QueueInv'
  BY <1>22 DEF FeedClosed
<1>23. ASSUME NEW f \in Feeds, Written(f) PROVE QueueInv'
  BY <1>23 DEF Written
<1>24. ASSUME NEW f \in Clients, RegisterClientFeed(f) PROVE QueueInv'
  BY <1>24 DEF RegisterClientFeed, IsRunning
<1>25. ASSUME NEW f \in Clients, Ping(f) \/ PingFails(f) PROVE QueueInv'
  BY <1>25 DEF Ping, PingFails
<1>26. ASSUME NEW f \in Clients, UnregisterClient(f) PROVE QueueInv'
  BY <1>26 DEF UnregisterClient
<1>27. ASSUME NEW f \in Clients, CloseConn(f) PROVE QueueInv'
  BY <1>27 DEF CloseConn
<1>28. ASSUME NEW m \in Messages, Remove(m) PROVE QueueInv'
  BY <1>28 DEF Remove
<1>29. ASSUME NEW f \in Feeds, NEW m \in Messages, Replay(f, m) PROVE QueueInv'
  BY <1>29 DEF Replay, Deliver
<1>30. CASE UNCHANGED vars
  BY <1>30 DEF vars
<1>31. ASSUME NEW m \in Messages, Elsewhere(m) PROVE QueueInv'
  BY <1>31 DEF Elsewhere
<1>32. ASSUME NEW f \in Feeds, NEW m \in Messages, ScanKey(f, m) PROVE QueueInv'
  BY <1>32 DEF ScanKey
<1>33. ASSUME NEW f \in Feeds, EndScan(f) PROVE QueueInv'
  BY <1>33 DEF EndScan, Unread
<1> QED
  BY <1>1, <1>2, <1>3, <1>4, <1>5, <1>6, <1>7, <1>8, <1>9, <1>10, <1>11, <1>12, <1>13, <1>14, <1>15, <1>16, <1>17, <1>18, <1>19, <1>20, <1>21, <1>22, <1>23, <1>24, <1>25, <1>26, <1>27, <1>28, <1>29, <1>30, <1>31, <1>32, <1>33
  DEF Next, Source, HubSteps, Registration, ListenSteps, StartSteps, Signal

\* What a step must leave alone for a registration to stay as it is.
LEMMA ReplayingKept ==
    ASSUME NEW f, Replaying(f), UNCHANGED <<mode, handled>>, request'[f] = request[f],
           todo'[f] = todo[f], got'[f] = got[f], since'[f] = since[f]
    PROVE  Replaying(f)'
BY DEF Replaying, OnceOnly

\* Every step keeps what a registering client got free of duplicates.
LEMMA StepReplay ==
    TypeOK /\ OwnerInv /\ QueueInv /\ ReplayInv /\ [Next]_vars => ReplayInv'
<1> SUFFICES ASSUME TypeOK, OwnerInv, QueueInv, ReplayInv, [Next]_vars PROVE ReplayInv'
  OBVIOUS
<1> USE NamesAssumption, FeedBoundsAssumption
<1> USE DEF Feeds, serviceVars, sourceVars, hubVars, clientVars, historyVars
<1>q. ASSUME UNCHANGED <<mode, handled, request, todo, got, since>>, cache' \subseteq cache
      PROVE  ReplayInv'
  BY <1>q, ReplayingKept DEF ReplayInv
<1>1. CASE Dial
  BY <1>q, <1>1 DEF Dial
<1>2. CASE SetOpen
  BY <1>q, <1>2 DEF SetOpen
<1>3. CASE GiveUp
  BY <1>q, <1>3 DEF GiveUp, EndListen
<1>4. CASE Push
  BY <1>q, <1>4 DEF Push
<1>5. CASE ReadError
  BY <1>q, <1>5 DEF ReadError, EndListen
<1>6. CASE Read
  BY <1>q, <1>6 DEF Read
<1>7. CASE Break
  BY <1>q, <1>7 DEF Break
<1>8. CASE Receive
  BY <1>q, <1>8 DEF Receive
<1>9. CASE EndBroadcast
  BY <1>q, <1>9 DEF EndBroadcast
<1>10. CASE StopRunning
  BY <1>q, <1>10 DEF StopRunning
<1>11. CASE CleanUp
  BY <1>q, <1>11 DEF CleanUp
<1>12. CASE Stop
  BY <1>q, <1>12 DEF Stop
<1>13. CASE WriteClose
  BY <1>q, <1>13 DEF WriteClose
<1>14. CASE ForbidReconnect
  BY <1>q, <1>14 DEF ForbidReconnect
<1>15. CASE SetClosed
  BY <1>q, <1>15 DEF SetClosed
<1>16. CASE Idle
  BY <1>q, <1>16 DEF Idle, vars
<1>17. ASSUME NEW f \in Feeds, FeedClosed(f) PROVE ReplayInv'
  BY <1>q, <1>17 DEF FeedClosed
<1>18. ASSUME NEW f \in Feeds, Written(f) PROVE ReplayInv'
  BY <1>q, <1>18 DEF Written
<1>19. ASSUME NEW f \in Clients, Ping(f) \/ PingFails(f) PROVE ReplayInv'
  BY <1>q, <1>19 DEF Ping, PingFails
<1>20. ASSUME NEW f \in Clients, UnregisterClient(f) PROVE ReplayInv'
  BY <1>q, <1>20 DEF UnregisterClient
<1>21. ASSUME NEW f \in Clients, CloseConn(f) PROVE ReplayInv'
  BY <1>q, <1>21 DEF CloseConn
<1>22. ASSUME NEW m \in Messages, Remove(m) PROVE ReplayInv'
  BY <1>q, <1>22 DEF Remove
<1>23. CASE UNCHANGED vars
  BY <1>q, <1>23 DEF vars
<1>24. CASE Broadcast
  <2>1. handled' = handled + 1 /\ message = handled + 1 /\ handled \in Nat
    BY <1>24 DEF Broadcast, QueueInv, Taken, TypeOK
  <2>2. cache' \subseteq cache \cup {message}
    BY <1>24 DEF Broadcast, AddMessage, AddMessageFails
  <2>3. UNCHANGED <<mode, request, todo, got, since>>
    BY <1>24 DEF Broadcast
  <2>4. ASSUME NEW f \in Feeds PROVE request[f] \notin {"scan", "replay"}
    BY <1>24 DEF Broadcast, OwnerInv
  <2>5. ASSUME NEW f \in Feeds PROVE Replaying(f)'
    BY <2>3, <2>4 DEF ReplayInv, Replaying
  <2> QED
    BY <2>1, <2>2, <2>3, <2>5 DEF ReplayInv
<1>25. ASSUME NEW f \in Feeds, Send(f) PROVE ReplayInv'
  <2>1. /\ UNCHANGED <<mode, handled, cache, request, todo, since>>
        /\ got' = [got EXCEPT ![f] = Append(@, message)]
    BY <1>25 DEF Send, Deliver
  <2>2. request[f] = "done"
    BY <1>25 DEF Send, OwnerInv
  <2>3. Replaying(f)'
    BY <2>1, <2>2 DEF Replaying
  <2>4. ASSUME NEW g \in Feeds, g # f PROVE got'[g] = got[g]
    BY <2>1, <2>4 DEF TypeOK
  <2> QED
    BY <2>1, <2>3, <2>4, ReplayingKept DEF ReplayInv
<1>26. ASSUME NEW m \in Messages, Elsewhere(m) PROVE ReplayInv'
  <2>1. mode = "shared" /\ UNCHANGED <<mode, handled, request, todo, got, since>>
    BY <1>26 DEF Elsewhere
  <2> QED
    BY <2>1, ReplayingKept DEF ReplayInv
<1>27. CASE RegisterAuto
  <2>1. /\ UNCHANGED <<mode, handled, cache, todo, got, since>>
        /\ request' = [request EXCEPT ![Approver] = "lock"]
        /\ request[Approver] = "idle" /\ Approver \in Feeds
    BY <1>27 DEF RegisterAuto, OwnerInv
  <2>2. request'[Approver] = "lock"
    BY <2>1 DEF TypeOK
  <2>3. Replaying(Approver)'
    BY <2>1, <2>2 DEF ReplayInv, Replaying
  <2>4. ASSUME NEW g \in Feeds, g # Approver PROVE request'[g] = request[g]
    BY <2>1, <2>4 DEF TypeOK
  <2> QED
    BY <2>1, <2>3, <2>4, ReplayingKept DEF ReplayInv
<1>28. ASSUME NEW f \in Clients, RegisterClientFeed(f) PROVE ReplayInv'
  <2>1. /\ UNCHANGED <<mode, handled, cache, todo, got, since>>
        /\ request[f] = "idle"
        /\ \/ request' = [request EXCEPT ![f] = "lock"]
           \/ request' = [request EXCEPT ![f] = "refused"]
    BY <1>28 DEF RegisterClientFeed
  <2>2. request'[f] \in {"lock", "refused"}
    BY <2>1 DEF TypeOK
  <2>3. Replaying(f)'
    BY <2>1, <2>2 DEF ReplayInv, Replaying
  <2>4. ASSUME NEW g \in Feeds, g # f PROVE request'[g] = request[g]
    BY <2>1, <2>4 DEF TypeOK
  <2> QED
    BY <2>1, <2>3, <2>4, ReplayingKept DEF ReplayInv
<1>29. ASSUME NEW f \in Feeds, RegisterClient(f) PROVE ReplayInv'
  <2>1. /\ UNCHANGED <<mode, handled, got>> /\ cache' \subseteq cache
        /\ since' = [since EXCEPT ![f] = handled]
        /\ request[f] = "lock"
    BY <1>29 DEF RegisterClient, GetMessages
  <2>2. got'[f] = <<>> /\ since'[f] = handled'
    BY <2>1 DEF ReplayInv, Replaying, TypeOK
  <2>3. ASSUME NEW g \in Feeds, g # f
        PROVE  request'[g] = request[g] /\ todo'[g] = todo[g] /\ since'[g] = since[g]
    BY <1>29, <2>3 DEF RegisterClient, GetMessages, TypeOK
  <2>4. ASSUME mode = "shared" PROVE Replaying(f)'
    <3>1. request' = [request EXCEPT ![f] = "scan"]
      BY <1>29, <2>4 DEF RegisterClient
    <3>2. request'[f] = "scan"
      BY <3>1 DEF TypeOK
    <3> QED
      BY <2>1, <2>2, <2>4, <3>2 DEF Replaying
  <2>5. ASSUME mode # "shared" PROVE Replaying(f)'
    <3>1. PICK gone \in SUBSET cache :
             todo' = [todo EXCEPT ![f] =
                         [m \in Messages |-> IF m \in cache \ gone THEN 1 ELSE 0]]
      BY <1>29, <2>5 DEF RegisterClient, GetMessages
    <3>2. request' = [request EXCEPT ![f] = "replay"]
      BY <1>29, <2>5 DEF RegisterClient
    <3>3. request'[f] = "replay"
      BY <3>2 DEF TypeOK
    <3>4. \A m \in Messages : todo'[f][m] = IF m \in cache \ gone THEN 1 ELSE 0
      BY <3>1 DEF TypeOK
    <3>5. cache \subseteq 1 .. handled /\ handled \in Nat
      BY <2>5 DEF ReplayInv, TypeOK
    <3>6. \A m \in Messages : todo'[f][m] > 0 => todo'[f][m] = 1 /\ m <= handled'
      BY <2>1, <3>4, <3>5 DEF Messages
    <3>7. OnceOnly(f)'
      BY <2>2, <3>6 DEF OnceOnly
    <3> QED
      BY <2>1, <2>2, <3>3, <3>7 DEF Replaying
  <2>6. Replaying(f)'
    BY <2>4, <2>5
  <2> QED
    BY <2>1, <2>3, <2>6, ReplayingKept DEF ReplayInv
<1>30. ASSUME NEW f \in Feeds, NEW m \in Messages, ScanKey(f, m) PROVE ReplayInv'
  <2>1. /\ UNCHANGED <<mode, handled, cache, request, got, since>>
        /\ request[f] = "scan"
        /\ todo' = [todo EXCEPT ![f][m] = @ + 1]
    BY <1>30 DEF ScanKey
  <2>2. Replaying(f)'
    BY <2>1 DEF ReplayInv, Replaying
  <2>3. ASSUME NEW g \in Feeds, g # f PROVE todo'[g] = todo[g]
    BY <2>1, <2>3 DEF TypeOK
  <2> QED
    BY <2>1, <2>2, <2>3, ReplayingKept DEF ReplayInv
<1>31. ASSUME NEW f \in Feeds, EndScan(f) PROVE ReplayInv'
  <2>1. /\ UNCHANGED <<mode, handled, cache, todo, got, since>>
        /\ request[f] = "scan"
        /\ request' = [request EXCEPT ![f] = "replay"]
    BY <1>31 DEF EndScan
  <2>2. request'[f] = "replay" /\ mode = "shared" /\ since[f] = handled
    BY <2>1 DEF TypeOK, ReplayInv, Replaying
  <2>3. Replaying(f)'
    BY <2>1, <2>2 DEF Replaying
  <2>4. ASSUME NEW g \in Feeds, g # f PROVE request'[g] = request[g]
    BY <2>1, <2>4 DEF TypeOK
  <2> QED
    BY <2>1, <2>3, <2>4, ReplayingKept DEF ReplayInv
<1>32. ASSUME NEW f \in Feeds, NEW m \in Messages, Replay(f, m) PROVE ReplayInv'
  <2>1. /\ UNCHANGED <<mode, handled, cache, request, since>>
        /\ request[f] = "replay" /\ todo[f][m] > 0
        /\ Deliver(f, m)
        /\ todo' = [todo EXCEPT ![f][m] = @ - 1]
    BY <1>32 DEF Replay
  <2>2. /\ got[f] \in Seq(Messages) /\ got'[f] = Append(got[f], m)
        /\ \A g \in Feeds : g # f => got'[g] = got[g]
    BY <2>1 DEF TypeOK, Deliver
  <2>t. todo \in [Feeds -> [Messages -> Nat]]
    BY DEF TypeOK, Copies
  <2>7. /\ \A n \in Messages : todo[f][n] \in Nat
        /\ todo'[f][m] = todo[f][m] - 1
        /\ \A n \in Messages : n # m => todo'[f][n] = todo[f][n]
    BY <2>1, <2>t
  <2>3. ASSUME mode # "shared" PROVE Replaying(f)'
    <3>1. OnceOnly(f)
      BY <2>1, <2>3 DEF ReplayInv, Replaying
    <3>2. todo[f][m] = 1 /\ m <= handled
      BY <2>1, <3>1 DEF OnceOnly
    <3>3. /\ \A i \in 1 .. Len(got[f]) : got'[f][i] = got[f][i] /\ got[f][i] # m
          /\ Len(got'[f]) = Len(got[f]) + 1 /\ got'[f][Len(got[f]) + 1] = m
          /\ \A i \in 1 .. Len(got[f]) : got[f][i] \in Messages
      <4>1. \A i \in 1 .. Len(got[f]) : got[f][i] # m
        BY <2>1, <3>1, <3>2 DEF OnceOnly
      <4> QED
        BY <2>2, <4>1
    <3>4. /\ todo'[f][m] = 0
          /\ \A n \in Messages : n # m => todo'[f][n] = todo[f][n]
      BY <2>7, <3>2
    <3>5. \A n \in Messages : todo'[f][n] > 0 => todo'[f][n] = 1 /\ n <= handled'
      BY <2>1, <3>1, <3>4 DEF OnceOnly
    <3>6. Len(got[f]) \in Nat
      BY <2>2
    <3>7. ASSUME NEW i \in 1 .. Len(got'[f])
          PROVE  /\ got'[f][i] <= handled' /\ todo'[f][got'[f][i]] = 0
                 /\ \A j \in 1 .. Len(got'[f]) : got'[f][i] = got'[f][j] => i = j
      <4>1. CASE i \in 1 .. Len(got[f])
        <5>1. got'[f][i] = got[f][i] /\ got[f][i] # m /\ got[f][i] \in Messages
          BY <3>3, <4>1
        <5>2. got[f][i] <= handled /\ todo[f][got[f][i]] = 0
          BY <3>1, <4>1 DEF OnceOnly
        <5>3. ASSUME NEW j \in 1 .. Len(got'[f]), got'[f][i] = got'[f][j] PROVE i = j
          <6>1. j \in 1 .. Len(got[f])
            BY <3>3, <3>6, <5>1, <5>3
          <6> QED
            BY <3>1, <3>3, <4>1, <5>1, <5>3, <6>1 DEF OnceOnly
        <5> QED
          BY <2>1, <3>4, <5>1, <5>2, <5>3
      <4>2. CASE i = Len(got[f]) + 1
        <5>1. got'[f][i] = m
          BY <3>3, <4>2
        <5>2. ASSUME NEW j \in 1 .. Len(got'[f]), got'[f][i] = got'[f][j] PROVE i = j
          BY <3>3, <3>6, <4>2, <5>1, <5>2
        <5> QED
          BY <2>1, <3>2, <3>4, <5>1, <5>2
      <4> QED
        BY <3>3, <3>6, <4>1, <4>2
    <3>8. OnceOnly(f)'
      BY <3>5, <3>7 DEF OnceOnly
    <3> QED
      BY <2>1, <3>8 DEF ReplayInv, Replaying
  <2>4. ASSUME mode = "shared" PROVE Replaying(f)'
    BY <2>1, <2>4 DEF ReplayInv, Replaying
  <2>5. Replaying(f)'
    BY <2>3, <2>4
  <2>6. ASSUME NEW g \in Feeds, g # f PROVE todo'[g] = todo[g] /\ got'[g] = got[g]
    BY <2>1, <2>2, <2>6, <2>t
  <2> QED
    BY <2>1, <2>5, <2>6, ReplayingKept DEF ReplayInv
<1>33. ASSUME NEW f \in Feeds, EndRegister(f) PROVE ReplayInv'
  <2>1. /\ UNCHANGED <<mode, handled, cache, todo, got, since>>
        /\ request' = [request EXCEPT ![f] = "done"]
    BY <1>33 DEF EndRegister
  <2>2. request'[f] = "done"
    BY <2>1 DEF TypeOK
  <2>3. Replaying(f)'
    BY <2>2 DEF Replaying
  <2>4. ASSUME NEW g \in Feeds, g # f PROVE request'[g] = request[g]
    BY <2>1, <2>4 DEF TypeOK
  <2> QED
    BY <2>1, <2>3, <2>4, ReplayingKept DEF ReplayInv
<1> QED
  BY <1>1, <1>2, <1>3, <1>4, <1>5, <1>6, <1>7, <1>8, <1>9, <1>10, <1>11, <1>12, <1>13, <1>14, <1>15, <1>16, <1>17, <1>18, <1>19, <1>20, <1>21, <1>22, <1>23, <1>24, <1>25, <1>26, <1>27, <1>28, <1>29, <1>30, <1>31, <1>32, <1>33
  DEF Next, Source, HubSteps, Registration, ListenSteps, StartSteps, Signal

\* The configuration does not change while the program runs.
LEMMA ModeKept == [Next]_vars => mode' = mode
BY DEF Next, Source, HubSteps, Registration, ListenSteps, StartSteps, Signal, Idle, vars,
       serviceVars, Dial, SetOpen, GiveUp, Push, ReadError, Read, Break, Receive, Broadcast,
       EndBroadcast, StopRunning, CleanUp, Send, RegisterAuto, RegisterClientFeed, Remove,
       Elsewhere, RegisterClient, ScanKey, EndScan, Replay, EndRegister, FeedClosed, Written,
       Ping, PingFails, UnregisterClient, CloseConn, Stop, WriteClose, ForbidReconnect, SetClosed

\* What a step must leave alone for a client to have no gap afterwards.
LEMMA NoGapKept ==
    ASSUME NEW f, NoGap(f), mode' = mode, got'[f] = got[f], since'[f] = since[f], Late(f)' = Late(f)
    PROVE  NoGap(f)'
BY DEF NoGap

\* No step makes a gap in what a registered client got.
LEMMA StepGapFree ==
    TypeOK /\ OwnerInv /\ QueueInv /\ ReplayInv /\ GapFree /\ [Next]_vars => GapFree'
<1> SUFFICES ASSUME TypeOK, OwnerInv, QueueInv, ReplayInv, GapFree, [Next]_vars
             PROVE  GapFree'
  OBVIOUS
<1> USE NamesAssumption, FeedBoundsAssumption
<1> USE DEF Feeds, Messages, serviceVars, sourceVars, hubVars, clientVars, historyVars
<1> USE DEF TypeOK, OwnerInv
<1>m. mode' = mode
  BY ModeKept
<1>q. ASSUME clients' \subseteq clients, UNCHANGED <<got, since>>,
             \A f \in clients : Late(f)' = Late(f)
      PROVE  GapFree'
  BY <1>q, <1>m, NoGapKept DEF GapFree
<1>1. CASE Dial
  BY <1>q, <1>1 DEF Dial, Late
<1>2. CASE SetOpen
  BY <1>q, <1>2 DEF SetOpen, Late
<1>3. CASE GiveUp
  BY <1>q, <1>3 DEF GiveUp, Late, EndListen
<1>4. CASE Push
  BY <1>q, <1>4 DEF Push, Late
<1>5. CASE ReadError
  BY <1>q, <1>5 DEF ReadError, Late, EndListen
<1>6. CASE Read
  BY <1>q, <1>6 DEF Read, Late
<1>7. CASE Break
  BY <1>q, <1>7 DEF Break, Late
<1>8. CASE Receive
  BY <1>q, <1>8 DEF Receive, Late
<1>9. CASE EndBroadcast
  BY <1>q, <1>9 DEF EndBroadcast, Late
<1>10. CASE StopRunning
  BY <1>q, <1>10 DEF StopRunning, Late
<1>11. CASE CleanUp
  BY <1>q, <1>11 DEF CleanUp, Late
<1>12. CASE RegisterAuto
  BY <1>q, <1>12 DEF RegisterAuto, Late
<1>13. CASE Stop
  BY <1>q, <1>13 DEF Stop, Late
<1>14. CASE WriteClose
  BY <1>q, <1>14 DEF WriteClose, Late
<1>15. CASE ForbidReconnect
  BY <1>q, <1>15 DEF ForbidReconnect, Late
<1>16. CASE SetClosed
  BY <1>q, <1>16 DEF SetClosed, Late
<1>17. CASE Idle
  BY <1>q, <1>17 DEF Idle, Late, vars
<1>18. CASE Broadcast
  <2> SUFFICES ASSUME NEW f \in clients PROVE NoGap(f)'
    BY <1>18 DEF Broadcast, GapFree
  <2>1. handled' = handled + 1 /\ hub # "send"
    BY <1>18 DEF Broadcast, QueueInv, Taken
  <2>2. hub' = "send" /\ pending' = clients /\ UNCHANGED <<clients, got, since>>
    BY <1>18 DEF Broadcast
  <2>3. handled \in Int /\ since[f] \in Int
    OBVIOUS
  <2>4. Late(f) = handled - since[f]
    BY <2>1 DEF Late
  <2>5. Late(f)' = handled + 1 - since[f] - 1
    <3>1. hub' = "send" /\ f \in pending' /\ handled' = handled + 1 /\ since'[f] = since[f]
      BY <2>1, <2>2
    <3> HIDE DEF TypeOK, OwnerInv
    <3> QED
      BY <2>3, <3>1 DEF Late
  <2>6. Late(f)' = Late(f)
    BY <2>3, <2>4, <2>5
  <2> QED
    BY <1>m, <2>2, <2>6, NoGapKept DEF GapFree
<1>19. ASSUME NEW f \in Feeds, Send(f) PROVE GapFree'
  <2> SUFFICES ASSUME NEW g \in clients PROVE NoGap(g)'
    BY <1>19 DEF Send, GapFree
  <2>1. NoGap(g) /\ message = handled
    BY <1>19 DEF Send, QueueInv, Taken, GapFree
  <2>2. /\ f \in pending /\ hub = "send" /\ pending' = pending \ {f}
        /\ got' = [got EXCEPT ![f] = Append(@, message)]
        /\ UNCHANGED <<hub, clients, handled, since>>
    BY <1>19 DEF Send, Deliver
  <2>3. CASE g = f
    <3>1. Late(f)' = Late(f) + 1 /\ Late(f)' = handled - since[f] /\ Late(f) \in Int
      BY <2>2 DEF Late
    <3>2. /\ got[f] \in Seq(Messages) /\ message \in Messages
          /\ got'[f] = Append(got[f], message)
      BY <1>19, <2>2 DEF Send
    <3>3. /\ Len(got'[f]) = Len(got[f]) + 1 /\ Len(got[f]) \in Nat
          /\ \A i \in 1 .. Len(got[f]) : got'[f][i] = got[f][i]
          /\ got'[f][Len(got[f]) + 1] = handled
      BY <2>1, <3>2
    <3>4. Len(got'[f]) - Late(f)' = Len(got[f]) - Late(f)
      BY <3>1, <3>3
    <3> DEFINE early == Len(got[f]) - Late(f)
    <3>5. /\ Late(f) >= 0 /\ early \in Nat
          /\ mode # "shared" =>
                \A i \in 1 .. early :
                   /\ got[f][i] <= since[f]
                   /\ \A j \in 1 .. early : got[f][i] = got[f][j] => i = j
          /\ \A i \in early + 1 .. Len(got[f]) : got[f][i] = since[f] + i - early
      <4> HIDE DEF TypeOK, OwnerInv, QueueInv, ReplayInv, GapFree
      <4>1. NoGap(f)
        BY <2>1, <2>3
      <4>2. early \in Int
        BY <3>1, <3>3
      <4>3. /\ Late(f) >= 0 /\ early >= 0
            /\ mode # "shared" =>
                  \A i \in 1 .. early :
                     /\ got[f][i] <= since[f]
                     /\ \A j \in 1 .. early : got[f][i] = got[f][j] => i = j
            /\ \A i \in early + 1 .. Len(got[f]) : got[f][i] = since[f] + i - early
        BY <4>1, Zenon DEF NoGap
      <4> HIDE DEF early
      <4>4. early \in Nat
        BY <4>2, <4>3
      <4> QED
        BY <4>3, <4>4
    <3>6. \A i \in 1 .. early : i \in 1 .. Len(got[f])
      BY <3>1, <3>3, <3>5
    <3>7. /\ early \in Int /\ handled \in Int /\ since[f] \in Int
          /\ since[f] + Len(got[f]) + 1 - early = handled
      BY <3>1, <3>3
    <3> HIDE DEF early, TypeOK, OwnerInv
    <3>8. since'[f] = since[f]
      BY <2>2
    <3>9. ASSUME NEW i \in early + 1 .. Len(got'[f]) PROVE got'[f][i] = since[f] + i - early
      <4>1. CASE i \in 1 .. Len(got[f])
        BY <3>3, <3>5, <3>9, <4>1
      <4>2. CASE i = Len(got[f]) + 1
        <5>1. got'[f][i] = handled
          BY <3>3, <4>2
        <5>2. since[f] + i - early = handled
          BY <3>7, <4>2
        <5> QED
          BY <5>1, <5>2
      <4>3. i \in 1 .. Len(got[f]) \/ i = Len(got[f]) + 1
        BY <3>3, <3>5, <3>9
      <4> QED
        BY <4>1, <4>2, <4>3
    <3>10. /\ mode # "shared" =>
                \A i \in 1 .. early :
                   /\ got'[f][i] <= since[f]
                   /\ \A j \in 1 .. early : got'[f][i] = got'[f][j] => i = j
          /\ Late(f)' >= 0 /\ early >= 0
      <4>1. \A i \in 1 .. early : got'[f][i] = got[f][i]
        BY <3>3, <3>6
      <4> QED
        BY <3>1, <3>5, <4>1
    <3> QED
      BY <1>m, <2>3, <3>4, <3>8, <3>9, <3>10 DEF NoGap, early
  <2>4. CASE g # f
    <3>1. Late(g)' = Late(g) /\ got'[g] = got[g] /\ since'[g] = since[g]
      BY <2>2, <2>4 DEF Late
    <3> QED
      BY <1>m, <2>1, <3>1, NoGapKept
  <2> QED
    BY <2>3, <2>4
<1>20. ASSUME NEW f \in Feeds, RegisterClient(f) PROVE GapFree'
  <2> SUFFICES ASSUME NEW g \in clients PROVE NoGap(g)'
    BY <1>20 DEF RegisterClient, GapFree
  <2>1. g # f /\ UNCHANGED <<hub, pending, handled, got>> /\ since'[g] = since[g]
    BY <1>20 DEF RegisterClient
  <2> QED
    BY <1>m, <2>1, NoGapKept DEF GapFree, Late
<1>21. ASSUME NEW f \in Feeds, EndRegister(f) PROVE GapFree'
  <2>1. hub # "send" /\ UNCHANGED <<hub, pending, got, handled, since>>
    BY <1>21 DEF EndRegister
  <2>2. ASSUME NEW g \in clients PROVE NoGap(g)'
    BY <1>m, <2>1, NoGapKept DEF GapFree, Late
  <2>3. NoGap(f)'
    <3>1. /\ since[f] = handled
          /\ mode # "shared" =>
                \A i \in 1 .. Len(got[f]) :
                   /\ got[f][i] <= handled
                   /\ \A j \in 1 .. Len(got[f]) : got[f][i] = got[f][j] => i = j
      BY <1>21 DEF EndRegister, ReplayInv, Replaying, OnceOnly
    <3>2. Late(f)' = 0 /\ Len(got[f]) \in Nat
      BY <2>1, <3>1 DEF Late
    <3>3. /\ Len(got'[f]) - Late(f)' = Len(got[f])
          /\ Late(f)' >= 0 /\ Len(got[f]) >= 0
          /\ Len(got[f]) + 1 .. Len(got'[f]) = {}
      BY <2>1, <3>2
    <3> QED
      BY <1>m, <2>1, <3>1, <3>3 DEF NoGap
  <2> QED
    BY <1>21, <2>2, <2>3 DEF EndRegister, GapFree
<1>22. ASSUME NEW f \in Feeds, FeedClosed(f) PROVE GapFree'
  BY <1>q, <1>22 DEF FeedClosed, Late
<1>23. ASSUME NEW f \in Feeds, Written(f) PROVE GapFree'
  BY <1>q, <1>23 DEF Written, Late
<1>24. ASSUME NEW c \in Clients, RegisterClientFeed(c) PROVE GapFree'
  BY <1>q, <1>24 DEF RegisterClientFeed, Late
<1>25. ASSUME NEW c \in Clients, Ping(c) \/ PingFails(c) PROVE GapFree'
  BY <1>q, <1>25 DEF Ping, PingFails, Late
<1>26. ASSUME NEW c \in Clients, UnregisterClient(c) PROVE GapFree'
  BY <1>q, <1>26 DEF UnregisterClient, Late
<1>27. ASSUME NEW c \in Clients, CloseConn(c) PROVE GapFree'
  BY <1>q, <1>27 DEF CloseConn, Late
<1>28. ASSUME NEW m \in Messages, Remove(m) PROVE GapFree'
  BY <1>q, <1>28 DEF Remove, Late
<1>29. ASSUME NEW f \in Feeds, NEW m \in Messages, Replay(f, m) PROVE GapFree'
  <2> SUFFICES ASSUME NEW g \in clients PROVE NoGap(g)'
    BY <1>29 DEF Replay, GapFree
  <2>1. g # f /\ UNCHANGED <<hub, pending, handled, since>> /\ got'[g] = got[g]
    BY <1>29 DEF Replay, Deliver
  <2> QED
    BY <1>m, <2>1, NoGapKept DEF GapFree, Late
<1>30. CASE UNCHANGED vars
  BY <1>q, <1>30 DEF vars, Late
<1>31. ASSUME NEW m \in Messages, Elsewhere(m) PROVE GapFree'
  BY <1>q, <1>31 DEF Elsewhere, Late
<1>32. ASSUME NEW f \in Feeds, NEW m \in Messages, ScanKey(f, m) PROVE GapFree'
  BY <1>q, <1>32 DEF ScanKey, Late
<1>33. ASSUME NEW f \in Feeds, EndScan(f) PROVE GapFree'
  BY <1>q, <1>33 DEF EndScan, Unread, Late
<1> QED
  BY <1>1, <1>2, <1>3, <1>4, <1>5, <1>6, <1>7, <1>8, <1>9, <1>10, <1>11, <1>12, <1>13, <1>14, <1>15, <1>16, <1>17, <1>18, <1>19, <1>20, <1>21, <1>22, <1>23, <1>24, <1>25, <1>26, <1>27, <1>28, <1>29, <1>30, <1>31, <1>32, <1>33
  DEF Next, Source, HubSteps, Registration, ListenSteps, StartSteps, Signal

\* In the initial states the lock is free and no message is on its way.
LEMMA InitOrder == Init => OwnerInv /\ QueueInv /\ ReplayInv
<1> SUFFICES ASSUME Init PROVE OwnerInv /\ QueueInv /\ ReplayInv
  OBVIOUS
<1>1. OwnerInv
  BY NamesAssumption DEF Init, OwnerInv, Feeds
<1>2. QueueInv
  BY DEF Init, QueueInv, Taken
<1>3. ReplayInv
  BY DEF Init, ReplayInv, Replaying, OnceOnly
<1> QED
  BY <1>1, <1>2, <1>3

\* Between its registration and its end a client gets every message, in order.
THEOREM GapFreeCorrect == Spec => []GapFree
<1> DEFINE IInv == TypeOK /\ OwnerInv /\ QueueInv /\ ReplayInv /\ GapFree
<1>1. Init => IInv
  BY InitType, InitOrder DEF Init, GapFree
<1>2. IInv /\ [Next]_vars => IInv'
  BY StepType, StepOwner, StepQueue, StepReplay, StepGapFree
<1> QED
  BY <1>1, <1>2, PTL DEF Spec

\* A duration that fits is not wrapped around.
LEMMA WrapFits == ASSUME NEW n \in Int, 0 < n, n <= MaxDuration PROVE Wrap(n) = n
<1> DEFINE size == 2 * (MaxDuration + 1)
<1>1. MaxDuration \in Nat
  BY DurationAssumption
<1>2. size \in Int /\ size > 0 /\ n + MaxDuration + 1 \in 0 .. size - 1
  BY <1>1
<1> HIDE DEF size
<1>3. ASSUME NEW a \in Int, a \in 0 .. size - 1 PROVE a % size = a
  BY <1>2, <1>3
<1>4. (n + MaxDuration + 1) % size = n + MaxDuration + 1
  BY <1>2, <1>3
<1> QED
  BY <1>1, <1>4 DEF Wrap, size

\* Seconds that fit in a duration are an expiration ahead.
LEMMA ExpirationAhead ==
    ASSUME NEW life \in Lifetimes, 0 < life, life * Second <= MaxDuration
    PROVE  GetExpiration(life) > 0
<1>1. life \in Int /\ Second \in Int /\ 0 < Second
  BY DurationAssumption
<1> DEFINE n == life * Second
<1>2. n \in Int
  BY <1>1
<1>3. 0 < n
  BY <1>1
<1>4. n <= MaxDuration
  OBVIOUS
<1> HIDE DEF n
<1>5. Wrap(n) = n
  BY <1>2, <1>3, <1>4, WrapFits
<1> QED
  BY <1>3, <1>5 DEF GetExpiration, n
\* A list keeps its elements when one is appended.
LEMMA AppendReceived ==
    ASSUME NEW S, NEW s \in Seq(S), NEW m \in S
    PROVE  {s[i] : i \in 1 .. Len(s)} \cup {m} =
               {Append(s, m)[i] : i \in 1 .. Len(Append(s, m))}
<1>1. /\ Len(Append(s, m)) = Len(s) + 1 /\ Len(s) \in Nat
      /\ \A i \in 1 .. Len(s) : Append(s, m)[i] = s[i]
      /\ Append(s, m)[Len(s) + 1] = m
  OBVIOUS
<1>2. ASSUME NEW x \in {s[i] : i \in 1 .. Len(s)} PROVE x \in {Append(s, m)[i] : i \in 1 .. Len(Append(s, m))}
  BY <1>1
<1>3. m \in {Append(s, m)[i] : i \in 1 .. Len(Append(s, m))}
  BY <1>1
<1>4. ASSUME NEW x \in {Append(s, m)[i] : i \in 1 .. Len(Append(s, m))}
      PROVE  x \in {s[i] : i \in 1 .. Len(s)} \cup {m}
  BY <1>1
<1> QED
  BY <1>2, <1>3, <1>4

\* What a step must leave alone for a message to be offered afterwards.
LEMMA OfferedKept ==
    ASSUME NEW f, NEW m, Offered(f, m), request'[f] = request[f], todo'[f] = todo[f],
           got'[f] = got[f], lost \subseteq lost', cache \subseteq cache' \cup lost'
    PROVE  Offered(f, m)'
BY DEF Offered, Received

\* No step drops a message without a trace: it is cached or counted as lost.
LEMMA StepCache ==
    TypeOK /\ OwnerInv /\ QueueInv /\ ReplayInv /\ CacheInv /\ [Next]_vars => CacheInv'
<1> SUFFICES ASSUME TypeOK, OwnerInv, QueueInv, ReplayInv, CacheInv, [Next]_vars
             PROVE  CacheInv'
  OBVIOUS
<1> USE NamesAssumption, FeedBoundsAssumption
<1> USE DEF Feeds, serviceVars, sourceVars, hubVars, clientVars, historyVars
<1>q. ASSUME UNCHANGED handled, lost \subseteq lost', cache \subseteq cache' \cup lost',
             \A f \in Feeds : request'[f] \in {"scan", "replay"} =>
                request'[f] = request[f] /\ todo'[f] = todo[f] /\ got'[f] = got[f]
      PROVE  CacheInv'
  <2>1. 1 .. handled' \subseteq cache' \cup lost'
    BY <1>q DEF CacheInv
  <2>2. ASSUME NEW f \in Feeds, request'[f] \in {"scan", "replay"}, NEW m \in 1 .. handled'
        PROVE  Offered(f, m)'
    BY <1>q, <2>2, OfferedKept DEF CacheInv
  <2> QED
    BY <2>1, <2>2 DEF CacheInv
<1>1. CASE Dial
  BY <1>q, <1>1 DEF Dial
<1>2. CASE SetOpen
  BY <1>q, <1>2 DEF SetOpen
<1>3. CASE GiveUp
  BY <1>q, <1>3 DEF GiveUp, EndListen
<1>4. CASE Push
  BY <1>q, <1>4 DEF Push
<1>5. CASE ReadError
  BY <1>q, <1>5 DEF ReadError, EndListen
<1>6. CASE Read
  BY <1>q, <1>6 DEF Read
<1>7. CASE Break
  BY <1>q, <1>7 DEF Break
<1>8. CASE Receive
  BY <1>q, <1>8 DEF Receive
<1>9. CASE EndBroadcast
  BY <1>q, <1>9 DEF EndBroadcast
<1>10. CASE StopRunning
  BY <1>q, <1>10 DEF StopRunning
<1>11. CASE CleanUp
  BY <1>q, <1>11 DEF CleanUp
<1>12. CASE Stop
  BY <1>q, <1>12 DEF Stop
<1>13. CASE WriteClose
  BY <1>q, <1>13 DEF WriteClose
<1>14. CASE ForbidReconnect
  BY <1>q, <1>14 DEF ForbidReconnect
<1>15. CASE SetClosed
  BY <1>q, <1>15 DEF SetClosed
<1>16. CASE Idle
  BY <1>q, <1>16 DEF Idle, vars
<1>17. ASSUME NEW f \in Feeds, FeedClosed(f) PROVE CacheInv'
  BY <1>q, <1>17 DEF FeedClosed
<1>18. ASSUME NEW f \in Feeds, Written(f) PROVE CacheInv'
  BY <1>q, <1>18 DEF Written
<1>19. ASSUME NEW f \in Clients, Ping(f) \/ PingFails(f) PROVE CacheInv'
  BY <1>q, <1>19 DEF Ping, PingFails
<1>20. ASSUME NEW f \in Clients, UnregisterClient(f) PROVE CacheInv'
  BY <1>q, <1>20 DEF UnregisterClient
<1>21. ASSUME NEW f \in Clients, CloseConn(f) PROVE CacheInv'
  BY <1>q, <1>21 DEF CloseConn
<1>22. ASSUME NEW m \in Messages, Remove(m) PROVE CacheInv'
  BY <1>q, <1>22 DEF Remove
<1>23. ASSUME NEW m \in Messages, Elsewhere(m) PROVE CacheInv'
  BY <1>q, <1>23 DEF Elsewhere
<1>24. CASE UNCHANGED vars
  BY <1>q, <1>24 DEF vars
<1>25. ASSUME NEW f \in Feeds, Send(f) PROVE CacheInv'
  <2>1. /\ UNCHANGED <<handled, cache, lost, request, todo>>
        /\ got' = [got EXCEPT ![f] = Append(@, message)]
        /\ request[f] = "done"
    BY <1>25 DEF Send, Deliver, OwnerInv
  <2>2. ASSUME NEW g \in Feeds, g # f PROVE got'[g] = got[g]
    BY <2>1, <2>2 DEF TypeOK
  <2> QED
    BY <1>q, <2>1, <2>2
<1>26. CASE RegisterAuto
  <2>1. /\ UNCHANGED <<handled, cache, lost, todo, got>>
        /\ request' = [request EXCEPT ![Approver] = "lock"]
    BY <1>26 DEF RegisterAuto
  <2>2. request'[Approver] = "lock" /\ \A g \in Feeds : g # Approver => request'[g] = request[g]
    BY <2>1 DEF TypeOK
  <2> QED
    BY <1>q, <2>1, <2>2
<1>27. ASSUME NEW f \in Clients, RegisterClientFeed(f) PROVE CacheInv'
  <2>1. /\ UNCHANGED <<handled, cache, lost, todo, got>>
        /\ \/ request' = [request EXCEPT ![f] = "lock"]
           \/ request' = [request EXCEPT ![f] = "refused"]
    BY <1>27 DEF RegisterClientFeed
  <2>2. /\ request'[f] \in {"lock", "refused"}
        /\ \A g \in Feeds : g # f => request'[g] = request[g]
    BY <2>1 DEF TypeOK
  <2> QED
    BY <1>q, <2>1, <2>2
<1>28. ASSUME NEW f \in Feeds, EndRegister(f) PROVE CacheInv'
  <2>1. /\ UNCHANGED <<handled, cache, lost, todo, got>>
        /\ request' = [request EXCEPT ![f] = "done"]
    BY <1>28 DEF EndRegister
  <2>2. request'[f] = "done" /\ \A g \in Feeds : g # f => request'[g] = request[g]
    BY <2>1 DEF TypeOK
  <2> QED
    BY <1>q, <2>1, <2>2
<1>29. CASE Broadcast
  <2>1. handled' = handled + 1 /\ message = handled + 1 /\ handled \in Nat
    BY <1>29 DEF Broadcast, QueueInv, Taken, TypeOK
  <2>2. ASSUME NEW f \in Feeds PROVE request'[f] \notin {"scan", "replay"}
    BY <1>29 DEF Broadcast, OwnerInv
  <2>3. cache \subseteq cache' /\ lost \subseteq lost' /\ message \in cache' \cup lost'
    <3>1. CASE AddMessageFails(message)
      BY <3>1 DEF AddMessageFails
    <3>2. ASSUME NEW life \in Lifetimes, AddMessage(message, life)
          PROVE  cache \subseteq cache' /\ lost \subseteq lost' /\ message \in cache' \cup lost'
      <4>1. \/ mode = "auto" \/ life <= 0 \/ life * Second > MaxDuration
            \/ mode # "auto" /\ GetExpiration(life) > 0
        <5>1. life \in Int /\ Second \in Int /\ MaxDuration \in Int
          BY DurationAssumption
        <5>2. life * Second \in Int
          BY <5>1
        <5>3. (life <= 0 \/ 0 < life) /\ (life * Second > MaxDuration \/ life * Second <= MaxDuration)
          BY <5>1, <5>2
        <5> QED
          BY <5>3, ExpirationAhead
      <4> QED
        BY <3>2, <4>1 DEF AddMessage
    <3> QED
      BY <1>29, <3>1, <3>2 DEF Broadcast
  <2> QED
    BY <2>1, <2>2, <2>3 DEF CacheInv
<1>30. ASSUME NEW f \in Feeds, RegisterClient(f) PROVE CacheInv'
  <2>1. UNCHANGED <<handled, got>> /\ request[f] = "lock" /\ handled \in Nat
    BY <1>30 DEF RegisterClient, TypeOK
  <2>2. ASSUME NEW g \in Feeds, g # f
        PROVE  request'[g] = request[g] /\ todo'[g] = todo[g]
    BY <1>30, <2>2 DEF RegisterClient, GetMessages, TypeOK
  <2>3. lost \subseteq lost' /\ cache \subseteq cache' \cup lost'
    BY <1>30 DEF RegisterClient, GetMessages
  <2>4. 1 .. handled \subseteq cache' \cup lost'
    BY <2>3 DEF CacheInv
  <2>5. ASSUME NEW m \in 1 .. handled PROVE Offered(f, m)'
    <3>1. CASE mode = "shared"
      <4>1. request' = [request EXCEPT ![f] = "scan"]
        BY <1>30, <3>1 DEF RegisterClient
      <4>2. request'[f] = "scan"
        BY <4>1 DEF TypeOK
      <4> QED
        BY <2>4, <4>2 DEF Offered
    <3>2. CASE mode # "shared"
      <4>1. PICK gone \in SUBSET cache :
               /\ cache' = cache \ gone /\ lost' = lost \cup gone
               /\ todo' = [todo EXCEPT ![f] =
                             [n \in Messages |-> IF n \in cache \ gone THEN 1 ELSE 0]]
        BY <1>30, <3>2 DEF RegisterClient, GetMessages
      <4>2. \A n \in Messages : todo'[f][n] = IF n \in cache' THEN 1 ELSE 0
        BY <4>1 DEF TypeOK
      <4>3. m \in Messages
        BY DEF TypeOK, Messages
      <4> QED
        BY <2>4, <4>2, <4>3 DEF Offered
    <3> QED
      BY <3>1, <3>2
  <2>6. ASSUME NEW g \in Feeds, g # f, request'[g] \in {"scan", "replay"}, NEW m \in 1 .. handled
        PROVE  Offered(g, m)'
    BY <2>1, <2>2, <2>3, <2>6, OfferedKept DEF CacheInv
  <2> QED
    BY <2>1, <2>4, <2>5, <2>6 DEF CacheInv
<1>31. ASSUME NEW f \in Feeds, NEW m \in Messages, ScanKey(f, m) PROVE CacheInv'
  <2>1. /\ UNCHANGED <<handled, cache, lost, request, got>>
        /\ request[f] = "scan" /\ todo' = [todo EXCEPT ![f][m] = @ + 1]
    BY <1>31 DEF ScanKey
  <2>2. todo \in [Feeds -> [Messages -> Nat]]
    BY DEF TypeOK, Copies
  <2>3. /\ \A g \in Feeds : g # f => todo'[g] = todo[g]
        /\ \A n \in Messages : n # m => todo'[f][n] = todo[f][n]
        /\ todo'[f][m] = todo[f][m] + 1 /\ todo[f][m] \in Nat
    BY <2>1, <2>2
  <2>4. ASSUME NEW n \in 1 .. handled PROVE Offered(f, n)'
    <3>1. Offered(f, n) /\ n \in Messages
      BY <2>1 DEF CacheInv, TypeOK, Messages
    <3> QED
      BY <2>1, <2>3, <3>1 DEF Offered, Received
  <2>5. ASSUME NEW g \in Feeds, g # f, request'[g] \in {"scan", "replay"}, NEW n \in 1 .. handled
        PROVE  Offered(g, n)'
    BY <2>1, <2>3, <2>5, OfferedKept DEF CacheInv
  <2> QED
    BY <2>1, <2>4, <2>5 DEF CacheInv
<1>32. ASSUME NEW f \in Feeds, EndScan(f) PROVE CacheInv'
  <2>1. /\ UNCHANGED <<handled, cache, todo, got>>
        /\ lost' = lost \cup Unread(f)
        /\ request[f] = "scan" /\ request' = [request EXCEPT ![f] = "replay"]
    BY <1>32 DEF EndScan
  <2>2. request'[f] = "replay" /\ \A g \in Feeds : g # f => request'[g] = request[g]
    BY <2>1 DEF TypeOK
  <2>3. ASSUME NEW n \in 1 .. handled PROVE Offered(f, n)'
    <3>1. Offered(f, n) /\ n \in Messages /\ n <= handled
      BY <2>1 DEF CacheInv, TypeOK, Messages
    <3>2. todo[f][n] \in Nat
      BY <3>1 DEF TypeOK, Copies
    <3>3. todo[f][n] = 0 /\ n \in cache => n \in lost'
      BY <2>1, <3>1 DEF Unread
    <3> QED
      BY <2>1, <3>1, <3>2, <3>3 DEF Offered, Received
  <2>4. ASSUME NEW g \in Feeds, g # f, request'[g] \in {"scan", "replay"}, NEW n \in 1 .. handled
        PROVE  Offered(g, n)'
    BY <2>1, <2>2, <2>4, OfferedKept DEF CacheInv
  <2> QED
    BY <2>1, <2>3, <2>4 DEF CacheInv
<1>33. ASSUME NEW f \in Feeds, NEW m \in Messages, Replay(f, m) PROVE CacheInv'
  <2>1. /\ UNCHANGED <<handled, cache, lost, request>>
        /\ request[f] = "replay" /\ todo' = [todo EXCEPT ![f][m] = @ - 1]
        /\ got' = [got EXCEPT ![f] = Append(@, m)]
    BY <1>33 DEF Replay, Deliver
  <2>2. todo \in [Feeds -> [Messages -> Nat]]
    BY DEF TypeOK, Copies
  <2>3. /\ \A g \in Feeds : g # f => todo'[g] = todo[g] /\ got'[g] = got[g]
        /\ \A n \in Messages : n # m => todo'[f][n] = todo[f][n]
    BY <2>1, <2>2 DEF TypeOK
  <2>4. got[f] \in Seq(Messages) /\ got'[f] = Append(got[f], m)
    BY <2>1 DEF TypeOK
  <2>5. Received(f) \cup {m} \subseteq Received(f)'
    BY <2>4, AppendReceived DEF Received
  <2>6. ASSUME NEW n \in 1 .. handled PROVE Offered(f, n)'
    <3>1. Offered(f, n) /\ n \in Messages
      BY <2>1 DEF CacheInv, TypeOK, Messages
    <3> QED
      BY <2>1, <2>3, <2>5, <3>1 DEF Offered
  <2>7. ASSUME NEW g \in Feeds, g # f, request'[g] \in {"scan", "replay"}, NEW n \in 1 .. handled
        PROVE  Offered(g, n)'
    BY <2>1, <2>3, <2>7, OfferedKept DEF CacheInv
  <2> QED
    BY <2>1, <2>6, <2>7 DEF CacheInv
<1> QED
  BY <1>1, <1>2, <1>3, <1>4, <1>5, <1>6, <1>7, <1>8, <1>9, <1>10, <1>11, <1>12, <1>13, <1>14, <1>15, <1>16, <1>17, <1>18, <1>19, <1>20, <1>21, <1>22, <1>23, <1>24, <1>25, <1>26, <1>27, <1>28, <1>29, <1>30, <1>31, <1>32, <1>33
  DEF Next, Source, HubSteps, Registration, ListenSteps, StartSteps, Signal

\* A client that ends its registration has all that was not lost.
LEMMA AllOffered ==
    ASSUME TypeOK, CacheInv, NEW f \in Feeds, EndRegister(f)
    PROVE  1 .. handled \subseteq Received(f) \cup lost
<1>1. request[f] = "replay" /\ \A m \in Messages : todo[f][m] = 0
  BY DEF EndRegister
<1>2. ASSUME NEW m \in 1 .. handled PROVE m \in Received(f) \cup lost
  <2>1. Offered(f, m) /\ m \in Messages
    BY <1>1 DEF CacheInv, TypeOK, Messages
  <2> QED
    BY <1>1, <2>1 DEF Offered
<1> QED
  BY <1>2

\* What a step must leave alone for a client to miss no message afterwards.
LEMMA ReachedKept ==
    ASSUME NEW f, UNCHANGED handled, got'[f] = got[f], lost \subseteq lost',
           hub = "send" /\ f \in pending => hub' = "send" /\ f \in pending'
    PROVE  Reached(f) \subseteq Reached(f)'
BY DEF Reached, Received

\* No step makes a registered client miss a message.
LEMMA StepNoneMissed ==
    TypeOK /\ OwnerInv /\ QueueInv /\ ReplayInv /\ CacheInv /\ NoneMissed /\ [Next]_vars
        => NoneMissed'
<1> SUFFICES ASSUME TypeOK, OwnerInv, QueueInv, ReplayInv, CacheInv, NoneMissed, [Next]_vars
             PROVE  NoneMissed'
  OBVIOUS
<1> USE NamesAssumption, FeedBoundsAssumption
<1> USE DEF Feeds, serviceVars, sourceVars, hubVars, clientVars, historyVars
<1>q. ASSUME clients' \subseteq clients, UNCHANGED <<handled, got>>, lost \subseteq lost',
             \A f \in clients :
                hub = "send" /\ f \in pending => hub' = "send" /\ f \in pending'
      PROVE  NoneMissed'
  BY <1>q, ReachedKept DEF NoneMissed
<1>1. CASE Dial
  BY <1>q, <1>1 DEF Dial
<1>2. CASE SetOpen
  BY <1>q, <1>2 DEF SetOpen, OwnerInv
<1>3. CASE GiveUp
  BY <1>q, <1>3 DEF GiveUp, EndListen
<1>4. CASE Push
  BY <1>q, <1>4 DEF Push
<1>5. CASE ReadError
  BY <1>q, <1>5 DEF ReadError, EndListen
<1>6. CASE Read
  BY <1>q, <1>6 DEF Read
<1>7. CASE Break
  BY <1>q, <1>7 DEF Break
<1>8. CASE Receive
  BY <1>q, <1>8 DEF Receive
<1>9. CASE EndBroadcast
  BY <1>q, <1>9 DEF EndBroadcast
<1>10. CASE StopRunning
  BY <1>q, <1>10 DEF StopRunning
<1>11. CASE CleanUp
  BY <1>q, <1>11 DEF CleanUp
<1>12. CASE Stop
  BY <1>q, <1>12 DEF Stop
<1>13. CASE WriteClose
  BY <1>q, <1>13 DEF WriteClose
<1>14. CASE ForbidReconnect
  BY <1>q, <1>14 DEF ForbidReconnect
<1>15. CASE SetClosed
  BY <1>q, <1>15 DEF SetClosed
<1>16. CASE Idle
  BY <1>q, <1>16 DEF Idle, vars
<1>17. CASE RegisterAuto
  BY <1>q, <1>17 DEF RegisterAuto
<1>18. ASSUME NEW f \in Feeds, FeedClosed(f) PROVE NoneMissed'
  BY <1>q, <1>18 DEF FeedClosed
<1>19. ASSUME NEW f \in Feeds, Written(f) PROVE NoneMissed'
  BY <1>q, <1>19 DEF Written
<1>20. ASSUME NEW f \in Feeds, RegisterClient(f) PROVE NoneMissed'
  BY <1>q, <1>20 DEF RegisterClient, GetMessages
<1>21. ASSUME NEW f \in Feeds, EndScan(f) PROVE NoneMissed'
  BY <1>q, <1>21 DEF EndScan
<1>22. ASSUME NEW f \in Clients, RegisterClientFeed(f) PROVE NoneMissed'
  BY <1>q, <1>22 DEF RegisterClientFeed
<1>23. ASSUME NEW f \in Clients, Ping(f) \/ PingFails(f) PROVE NoneMissed'
  BY <1>q, <1>23 DEF Ping, PingFails
<1>24. ASSUME NEW f \in Clients, UnregisterClient(f) PROVE NoneMissed'
  BY <1>q, <1>24 DEF UnregisterClient
<1>25. ASSUME NEW f \in Clients, CloseConn(f) PROVE NoneMissed'
  BY <1>q, <1>25 DEF CloseConn
<1>26. ASSUME NEW m \in Messages, Remove(m) PROVE NoneMissed'
  BY <1>q, <1>26 DEF Remove
<1>27. ASSUME NEW m \in Messages, Elsewhere(m) PROVE NoneMissed'
  BY <1>q, <1>27 DEF Elsewhere
<1>28. ASSUME NEW f \in Feeds, NEW m \in Messages, ScanKey(f, m) PROVE NoneMissed'
  BY <1>q, <1>28 DEF ScanKey
<1>29. CASE UNCHANGED vars
  BY <1>q, <1>29 DEF vars
<1>30. CASE Broadcast
  <2>1. handled' = handled + 1 /\ handled \in Nat
    BY <1>30 DEF Broadcast, QueueInv, Taken, TypeOK
  <2>2. /\ UNCHANGED <<clients, got>> /\ hub # "send"
        /\ hub' = "send" /\ pending' = clients
    BY <1>30 DEF Broadcast
  <2>3. lost \subseteq lost'
    BY <1>30 DEF Broadcast, AddMessage, AddMessageFails
  <2>4. ASSUME NEW f \in clients PROVE 1 .. handled' \subseteq Reached(f)'
    <3>1. 1 .. handled \subseteq Received(f) \cup lost
      BY <2>2 DEF NoneMissed, Reached
    <3>2. 1 .. handled' = 1 .. handled \cup {handled'}
      BY <2>1
    <3>3. handled' \in Reached(f)'
      BY <2>2 DEF Reached
    <3>4. Received(f) \cup lost \subseteq Reached(f)'
      BY <2>2, <2>3 DEF Reached, Received
    <3> QED
      BY <3>1, <3>2, <3>3, <3>4
  <2> QED
    BY <2>2, <2>4 DEF NoneMissed
<1>31. ASSUME NEW f \in Feeds, Send(f) PROVE NoneMissed'
  <2>1. /\ UNCHANGED <<hub, clients, handled, lost>>
        /\ pending' = pending \ {f} /\ message = handled /\ message \in Messages
        /\ got' = [got EXCEPT ![f] = Append(@, message)]
    BY <1>31 DEF Send, Deliver, QueueInv, Taken, TypeOK
  <2>2. got[f] \in Seq(Messages) /\ got'[f] = Append(got[f], message)
    BY <2>1 DEF TypeOK
  <2>3. Received(f) \cup {handled} \subseteq Received(f)'
    BY <2>1, <2>2, AppendReceived DEF Received
  <2>4. Reached(f) \subseteq Reached(f)'
    BY <2>1, <2>3 DEF Reached
  <2>5. ASSUME NEW g \in clients, g # f PROVE Reached(g) \subseteq Reached(g)'
    <3>1. got'[g] = got[g]
      BY <2>1, <2>5 DEF TypeOK
    <3> QED
      BY <2>1, <2>5, <3>1, ReachedKept
  <2> QED
    BY <2>1, <2>4, <2>5 DEF NoneMissed
<1>32. ASSUME NEW f \in Feeds, NEW m \in Messages, Replay(f, m) PROVE NoneMissed'
  <2>1. /\ UNCHANGED <<hub, pending, clients, handled, lost>> /\ f \notin clients
        /\ got' = [got EXCEPT ![f] = Append(@, m)]
    BY <1>32 DEF Replay, Deliver, OwnerInv
  <2>2. ASSUME NEW g \in clients PROVE Reached(g) \subseteq Reached(g)'
    <3>1. got'[g] = got[g]
      BY <2>1, <2>2 DEF TypeOK
    <3> QED
      BY <2>1, <3>1, ReachedKept
  <2> QED
    BY <2>1, <2>2 DEF NoneMissed
<1>33. ASSUME NEW f \in Feeds, EndRegister(f) PROVE NoneMissed'
  <2>1. UNCHANGED <<hub, pending, handled, got, lost>> /\ clients' = clients \cup {f}
    BY <1>33 DEF EndRegister
  <2>2. 1 .. handled \subseteq Reached(f)
    BY <1>33, AllOffered DEF Reached
  <2> QED
    BY <2>1, <2>2, ReachedKept DEF NoneMissed
<1> QED
  BY <1>1, <1>2, <1>3, <1>4, <1>5, <1>6, <1>7, <1>8, <1>9, <1>10, <1>11, <1>12, <1>13, <1>14, <1>15, <1>16, <1>17, <1>18, <1>19, <1>20, <1>21, <1>22, <1>23, <1>24, <1>25, <1>26, <1>27, <1>28, <1>29, <1>30, <1>31, <1>32, <1>33
  DEF Next, Source, HubSteps, Registration, ListenSteps, StartSteps, Signal

\* A registered client got every message that the cache took and did not lose.
THEOREM NoneMissedCorrect == Spec => []NoneMissed
<1> DEFINE IInv == TypeOK /\ OwnerInv /\ QueueInv /\ ReplayInv /\ CacheInv /\ NoneMissed
<1>1. Init => IInv
  BY InitType, InitOrder DEF Init, CacheInv, NoneMissed
<1>2. IInv /\ [Next]_vars => IInv'
  BY StepType, StepOwner, StepQueue, StepReplay, StepCache, StepNoneMissed
<1> QED
  BY <1>1, <1>2, PTL DEF Spec

\* What a step must leave alone for the clients to see nothing of it.
LEMMA PromiseStutter ==
    ASSUME UNCHANGED <<handled, lost, got>>,
           \A f \in Feeds : Status(f)' = Status(f) /\ UpTo(f)' = UpTo(f)
    PROVE  UNCHANGED Promise!vars
BY DEF Promise!vars

\* The place of one client changes and no other's.
LEMMA PlaceOf ==
    ASSUME NEW f \in Feeds,
           \A g \in Feeds : g # f => Status(g)' = Status(g) /\ UpTo(g)' = UpTo(g)
    PROVE  /\ [g \in Feeds |-> Status(g)]' = [[g \in Feeds |-> Status(g)] EXCEPT ![f] = Status(f)']
           /\ [g \in Feeds |-> UpTo(g)]' = [[g \in Feeds |-> UpTo(g)] EXCEPT ![f] = UpTo(f)']
OBVIOUS

\* Every step is a step of the ordered broadcast or hidden from the clients.
LEMMA StepPromise ==
    TypeOK /\ OwnerInv /\ QueueInv /\ ReplayInv /\ CacheInv /\ [Next]_vars => [Promise!Next]_(Promise!vars)
<1> SUFFICES ASSUME TypeOK, OwnerInv, QueueInv, ReplayInv, CacheInv, [Next]_vars
             PROVE  [Promise!Next]_(Promise!vars)
  OBVIOUS
<1> USE NamesAssumption, FeedBoundsAssumption
<1> USE DEF Feeds, serviceVars, sourceVars, hubVars, clientVars, historyVars
<1>q. ASSUME UNCHANGED <<handled, lost, got, clients, since, request>>,
             \A f \in Feeds : (hub = "send" /\ f \in pending) <=> (hub' = "send" /\ f \in pending')
      PROVE  [Promise!Next]_(Promise!vars)
  <2>1. ASSUME NEW f \in Feeds PROVE Status(f)' = Status(f) /\ UpTo(f)' = UpTo(f)
    BY <1>q DEF Status, UpTo
  <2> QED
    BY <1>q, <2>1, PromiseStutter
<1>1. CASE Dial
  BY <1>q, <1>1 DEF Dial
<1>2. CASE SetOpen
  BY <1>q, <1>2 DEF SetOpen, OwnerInv
<1>3. CASE GiveUp
  BY <1>q, <1>3 DEF GiveUp, EndListen
<1>4. CASE Push
  BY <1>q, <1>4 DEF Push
<1>5. CASE ReadError
  BY <1>q, <1>5 DEF ReadError, EndListen
<1>6. CASE Read
  BY <1>q, <1>6 DEF Read
<1>7. CASE Break
  BY <1>q, <1>7 DEF Break
<1>8. CASE Receive
  BY <1>q, <1>8 DEF Receive
<1>9. CASE EndBroadcast
  BY <1>q, <1>9 DEF EndBroadcast
<1>10. CASE StopRunning
  BY <1>q, <1>10 DEF StopRunning
<1>11. CASE Stop
  BY <1>q, <1>11 DEF Stop
<1>12. CASE WriteClose
  BY <1>q, <1>12 DEF WriteClose
<1>13. CASE ForbidReconnect
  BY <1>q, <1>13 DEF ForbidReconnect
<1>14. CASE SetClosed
  BY <1>q, <1>14 DEF SetClosed
<1>15. CASE Idle
  BY <1>q, <1>15 DEF Idle, vars
<1>16. ASSUME NEW f \in Feeds, FeedClosed(f) PROVE [Promise!Next]_(Promise!vars)
  BY <1>q, <1>16 DEF FeedClosed
<1>17. ASSUME NEW f \in Feeds, Written(f) PROVE [Promise!Next]_(Promise!vars)
  BY <1>q, <1>17 DEF Written
<1>18. ASSUME NEW f \in Clients, Ping(f) \/ PingFails(f) PROVE [Promise!Next]_(Promise!vars)
  BY <1>q, <1>18 DEF Ping, PingFails
<1>19. ASSUME NEW f \in Clients, CloseConn(f) PROVE [Promise!Next]_(Promise!vars)
  BY <1>q, <1>19 DEF CloseConn
<1>20. ASSUME NEW m \in Messages, Elsewhere(m) PROVE [Promise!Next]_(Promise!vars)
  BY <1>q, <1>20 DEF Elsewhere
<1>21. ASSUME NEW f \in Feeds, NEW m \in Messages, ScanKey(f, m) PROVE [Promise!Next]_(Promise!vars)
  BY <1>q, <1>21 DEF ScanKey
<1>22. CASE UNCHANGED vars
  BY <1>q, <1>22 DEF vars
<1>23. CASE Broadcast
  <2>1. handled' = handled + 1 /\ message = handled + 1 /\ message \in Messages /\ handled \in Nat
    BY <1>23 DEF Broadcast, QueueInv, Taken, TypeOK
  <2>2. lost' \in {lost, lost \cup {message}}
    BY <1>23 DEF Broadcast, AddMessage, AddMessageFails
  <2>3. /\ UNCHANGED <<request, clients, since, got>> /\ hub # "send"
        /\ hub' = "send" /\ pending' = clients
    BY <1>23 DEF Broadcast
  <2>4. ASSUME NEW f \in Feeds PROVE Status(f)' = Status(f) /\ UpTo(f)' = UpTo(f)
    <3>1. /\ request[f] \notin {"scan", "replay"} /\ (f \in clients => request[f] = "done")
          /\ request[f] \in {"idle", "lock", "scan", "replay", "done", "refused"}
      BY <1>23 DEF Broadcast, OwnerInv, TypeOK
    <3>2. Status(f)' = Status(f)
      BY <2>3 DEF Status
    <3>3. Status(f) = "in" => f \in clients
      BY <3>1 DEF Status
    <3>4. Status(f) # "joining"
      BY <3>1 DEF Status
    <3> QED
      BY <2>1, <2>3, <3>2, <3>3, <3>4 DEF UpTo
  <2>5. Promise!Publish
    BY <2>1, <2>2, <2>3, <2>4 DEF Promise!Publish
  <2> QED
    BY <2>5 DEF Promise!Next
<1>24. ASSUME NEW f \in Feeds, Send(f) PROVE [Promise!Next]_(Promise!vars)
  <2>1. /\ UNCHANGED <<hub, clients, handled, lost, request, since>> /\ hub = "send" /\ f \in pending
        /\ pending' = pending \ {f} /\ message = handled /\ handled \in Nat
        /\ got' = [got EXCEPT ![f] = Append(@, message)]
    BY <1>24 DEF Send, Deliver, QueueInv, Taken, TypeOK
  <2>2. Status(f) = "in" /\ UpTo(f) = handled - 1
    BY <2>1 DEF OwnerInv, Status, UpTo
  <2>3. Status(f)' = "in" /\ UpTo(f)' = handled
    BY <2>1 DEF OwnerInv, Status, UpTo
  <2>4. ASSUME NEW g \in Feeds, g # f PROVE Status(g)' = Status(g) /\ UpTo(g)' = UpTo(g)
    BY <2>1, <2>4 DEF Status, UpTo
  <2>5. /\ [g \in Feeds |-> UpTo(g)][f] = handled - 1 /\ handled - 1 + 1 = handled
        /\ [g \in Feeds |-> Status(g)][f] = "in" /\ handled - 1 < handled
    BY <2>1, <2>2
  <2>6. /\ [g \in Feeds |-> UpTo(g)]' = [[g \in Feeds |-> UpTo(g)] EXCEPT ![f] = @ + 1]
        /\ got' = [got EXCEPT ![f] = Append(@, [g \in Feeds |-> UpTo(g)][f] + 1)]
        /\ UNCHANGED [g \in Feeds |-> Status(g)]
    BY <2>1, <2>2, <2>3, <2>4, <2>5, PlaceOf
  <2>7. Promise!Receive(f)
    BY <2>1, <2>5, <2>6 DEF Promise!Receive
  <2> QED
    BY <2>7 DEF Promise!Next
<1>25. CASE CleanUp
  <2>1. /\ UNCHANGED <<handled, lost, got, request, since>> /\ clients' = {}
        /\ hub # "send" /\ hub' # "send"
    BY <1>25 DEF CleanUp
  <2>2. ASSUME NEW f \in Feeds
        PROVE  /\ Status(f)' = IF Status(f) = "in" THEN "left" ELSE Status(f)
               /\ UpTo(f)' = IF Status(f) = "in" THEN 0 ELSE UpTo(f)
    <3>1. /\ request[f] = "done" \/ f \notin clients
          /\ request[f] \in {"idle", "lock", "scan", "replay", "done", "refused"}
      BY DEF OwnerInv, TypeOK
    <3>2. Status(f)' = IF Status(f) = "in" THEN "left" ELSE Status(f)
      BY <2>1, <3>1 DEF Status
    <3>3. Status(f) \in {"out", "joining", "in", "left"}
      BY <3>1 DEF Status
    <3> QED
      BY <2>1, <3>2, <3>3 DEF UpTo
  <2>3. Promise!LeaveAll
    BY <2>1, <2>2 DEF Promise!LeaveAll
  <2> QED
    BY <2>3 DEF Promise!Next
<1>26. CASE RegisterAuto
  <2>1. /\ UNCHANGED <<handled, lost, got, clients, since, hub, pending>>
        /\ request' = [request EXCEPT ![Approver] = "lock"]
        /\ request[Approver] = "idle"
    BY <1>26 DEF RegisterAuto, OwnerInv
  <2>2. request'[Approver] = "lock" /\ \A g \in Feeds : g # Approver => request'[g] = request[g]
    BY <2>1 DEF TypeOK
  <2>3. ASSUME NEW g \in Feeds PROVE Status(g)' = Status(g) /\ UpTo(g)' = UpTo(g)
    <3>1. CASE g = Approver
      BY <2>1, <2>2, <3>1 DEF Status, UpTo
    <3>2. CASE g # Approver
      BY <2>1, <2>2, <3>2 DEF Status, UpTo
    <3> QED
      BY <3>1, <3>2
  <2> QED
    BY <2>1, <2>3, PromiseStutter
<1>27. ASSUME NEW f \in Clients, RegisterClientFeed(f) PROVE [Promise!Next]_(Promise!vars)
  <2>1. /\ UNCHANGED <<handled, lost, got, clients, since, hub, pending>>
        /\ \/ request' = [request EXCEPT ![f] = "lock"]
           \/ request' = [request EXCEPT ![f] = "refused"]
        /\ request[f] = "idle"
    BY <1>27 DEF RegisterClientFeed
  <2>2. request'[f] \in {"lock", "refused"} /\ \A g \in Feeds : g # f => request'[g] = request[g]
    BY <2>1 DEF TypeOK
  <2>3. ASSUME NEW g \in Feeds PROVE Status(g)' = Status(g) /\ UpTo(g)' = UpTo(g)
    <3>1. CASE g = f
      BY <2>1, <2>2, <3>1 DEF Status, UpTo
    <3>2. CASE g # f
      BY <2>1, <2>2, <3>2 DEF Status, UpTo
    <3> QED
      BY <3>1, <3>2
  <2> QED
    BY <2>1, <2>3, PromiseStutter
<1>28. ASSUME NEW m \in Messages, Remove(m) PROVE [Promise!Next]_(Promise!vars)
  <2>1. /\ UNCHANGED <<handled, got, clients, since, request, hub, pending>>
        /\ lost \subseteq lost' /\ lost' \in SUBSET Messages
    BY <1>28 DEF Remove, TypeOK
  <2>2. ASSUME NEW f \in Feeds PROVE Status(f)' = Status(f) /\ UpTo(f)' = UpTo(f)
    BY <2>1 DEF Status, UpTo
  <2>3. Promise!Lose
    BY <2>1, <2>2 DEF Promise!Lose
  <2> QED
    BY <2>3 DEF Promise!Next
<1>29. ASSUME NEW f \in Feeds, EndScan(f) PROVE [Promise!Next]_(Promise!vars)
  <2>1. /\ UNCHANGED <<handled, got, clients, since, hub, pending>>
        /\ request[f] = "scan" /\ request' = [request EXCEPT ![f] = "replay"]
        /\ lost' = lost \cup Unread(f)
    BY <1>29 DEF EndScan
  <2>2. lost \subseteq lost' /\ lost' \in SUBSET Messages
    BY <2>1 DEF Unread, TypeOK
  <2>3. request'[f] = "replay" /\ \A g \in Feeds : g # f => request'[g] = request[g]
    BY <2>1 DEF TypeOK
  <2>4. ASSUME NEW g \in Feeds PROVE Status(g)' = Status(g) /\ UpTo(g)' = UpTo(g)
    <3>1. CASE g = f
      BY <2>1, <2>3, <3>1 DEF Status, UpTo
    <3>2. CASE g # f
      BY <2>1, <2>3, <3>2 DEF Status, UpTo
    <3> QED
      BY <3>1, <3>2
  <2>5. Promise!Lose
    BY <2>1, <2>2, <2>4 DEF Promise!Lose
  <2> QED
    BY <2>5 DEF Promise!Next
<1>30. ASSUME NEW f \in Feeds, RegisterClient(f) PROVE [Promise!Next]_(Promise!vars)
  <2>1. /\ UNCHANGED <<handled, got, clients, hub, pending>> /\ request[f] = "lock"
        /\ \/ request' = [request EXCEPT ![f] = "scan"]
           \/ request' = [request EXCEPT ![f] = "replay"]
        /\ since' = [since EXCEPT ![f] = handled]
    BY <1>30 DEF RegisterClient
  <2>2. lost \subseteq lost' /\ lost' \in SUBSET Messages
    BY <1>30 DEF RegisterClient, GetMessages, TypeOK
  <2>3. /\ request'[f] \in {"scan", "replay"} /\ since'[f] = handled
        /\ \A g \in Feeds : g # f => request'[g] = request[g] /\ since'[g] = since[g]
    BY <2>1 DEF TypeOK
  <2>4. Status(f) = "out" /\ Status(f)' = "joining" /\ UpTo(f)' = handled
    BY <2>1, <2>3 DEF Status, UpTo
  <2>5. ASSUME NEW g \in Feeds, g # f PROVE Status(g)' = Status(g) /\ UpTo(g)' = UpTo(g)
    BY <2>1, <2>3, <2>5 DEF Status, UpTo
  <2>6. Promise!Join(f)
    BY <2>1, <2>2, <2>4, <2>5, PlaceOf DEF Promise!Join
  <2> QED
    BY <2>6 DEF Promise!Next
<1>31. ASSUME NEW f \in Feeds, NEW m \in Messages, Replay(f, m) PROVE [Promise!Next]_(Promise!vars)
  <2>1. /\ UNCHANGED <<handled, lost, clients, since, request, hub, pending>> /\ request[f] = "replay"
        /\ got' = [got EXCEPT ![f] = Append(@, m)]
    BY <1>31 DEF Replay, Deliver
  <2>2. ASSUME NEW g \in Feeds PROVE Status(g)' = Status(g) /\ UpTo(g)' = UpTo(g)
    BY <2>1 DEF Status, UpTo
  <2>3. Status(f) = "joining"
    BY <2>1 DEF Status
  <2>4. Promise!Early(f, m)
    BY <2>1, <2>2, <2>3 DEF Promise!Early
  <2> QED
    BY <2>4 DEF Promise!Next
<1>32. ASSUME NEW f \in Feeds, EndRegister(f) PROVE [Promise!Next]_(Promise!vars)
  <2>1. /\ UNCHANGED <<handled, lost, got, since, hub, pending>>
        /\ request[f] = "replay" /\ request' = [request EXCEPT ![f] = "done"]
        /\ clients' = clients \cup {f} /\ hub # "send"
    BY <1>32 DEF EndRegister, OwnerInv
  <2>2. request'[f] = "done" /\ \A g \in Feeds : g # f => request'[g] = request[g]
    BY <2>1 DEF TypeOK
  <2>3. Status(f) = "joining" /\ UpTo(f) = since[f] /\ Status(f)' = "in" /\ UpTo(f)' = handled
    BY <2>1, <2>2 DEF Status, UpTo
  <2>4. ASSUME NEW g \in Feeds, g # f PROVE Status(g)' = Status(g) /\ UpTo(g)' = UpTo(g)
    BY <2>1, <2>2, <2>4 DEF Status, UpTo
  <2>5. since[f] = handled
    BY <2>1 DEF ReplayInv, Replaying
  <2>6. 1 .. UpTo(f) \subseteq Received(f) \cup lost
    BY <1>32, <2>3, <2>5, AllOffered
  <2>7. Promise!Received(f) = Received(f)
    BY DEF Promise!Received, Received
  <2>8. Promise!Joined(f)
    BY <2>1, <2>3, <2>4, <2>5, <2>6, <2>7, PlaceOf DEF Promise!Joined
  <2> QED
    BY <2>8 DEF Promise!Next
<1>33. ASSUME NEW f \in Clients, UnregisterClient(f) PROVE [Promise!Next]_(Promise!vars)
  <2>1. /\ UNCHANGED <<handled, lost, got, since, request, hub, pending>>
        /\ clients' = clients \ {f} /\ hub # "send"
    BY <1>33 DEF UnregisterClient, OwnerInv
  <2>2. ASSUME NEW g \in Feeds, g # f PROVE Status(g)' = Status(g) /\ UpTo(g)' = UpTo(g)
    BY <2>1, <2>2 DEF Status, UpTo
  <2>3. CASE f \in clients
    <3>1. Status(f) = "in" /\ Status(f)' = "left" /\ UpTo(f)' = 0
      BY <2>1, <2>3 DEF OwnerInv, Status, UpTo
    <3>2. Promise!Leave(f)
      BY <2>1, <2>2, <3>1, PlaceOf DEF Promise!Leave
    <3> QED
      BY <3>2 DEF Promise!Next
  <2>4. CASE f \notin clients
    <3>1. Status(f)' = Status(f) /\ UpTo(f)' = UpTo(f)
      BY <2>1, <2>4 DEF Status, UpTo
    <3> QED
      BY <2>1, <2>2, <3>1, PromiseStutter
  <2> QED
    BY <2>3, <2>4
<1> QED
  BY <1>1, <1>2, <1>3, <1>4, <1>5, <1>6, <1>7, <1>8, <1>9, <1>10, <1>11, <1>12, <1>13, <1>14, <1>15, <1>16, <1>17, <1>18, <1>19, <1>20, <1>21, <1>22, <1>23, <1>24, <1>25, <1>26, <1>27, <1>28, <1>29, <1>30, <1>31, <1>32, <1>33
  DEF Next, Source, HubSteps, Registration, ListenSteps, StartSteps, Signal

\* The hub is an ordered broadcast to those who joined: every behaviour of its
\* goroutines is one of the specification Broadcast.
THEOREM OrderedBroadcastCorrect == Spec => OrderedBroadcast
<1> DEFINE IInv == TypeOK /\ OwnerInv /\ QueueInv /\ ReplayInv /\ CacheInv
<1>1. Init => IInv
  BY InitType, InitOrder DEF Init, CacheInv
<1>2. IInv /\ [Next]_vars => IInv'
  BY StepType, StepOwner, StepQueue, StepReplay, StepCache
<1>3. Init => Promise!Init
  BY DEF Init, Promise!Init, Status, UpTo
<1>4. IInv /\ [Next]_vars => [Promise!Next]_(Promise!vars)
  BY StepPromise
<1> QED
  BY <1>1, <1>2, <1>3, <1>4, PTL DEF Spec, OrderedBroadcast, Promise!Spec
====
