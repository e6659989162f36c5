---- MODULE AgentProofs ----
(***************************************************************************)
(* For any number of clients, requests, actions and crashes: whoever       *)
(* follows the local feed has been shown every action that waits, and the  *)
(* feed keeps the promise of module Broadcast.                             *)
(***************************************************************************)
EXTENDS Agent, FiniteSetTheorems, TLAPS

\* What of the types the proof needs.
Types ==
    /\ pc \in [Handlers -> Requests!PCs]
    /\ decision \in [Actions -> {"pending", "approved", "rejected"}]
    /\ crashes \in Nat
    /\ feed \in Seq(Actions)
    /\ status \in [Clients -> {"out", "joining", "in", "left"}]
    /\ sent \in [Clients -> Nat]
    /\ got \in [Clients -> Seq(Nat)]
    /\ offer \in [Clients -> SUBSET Nat]

\* A request removes the message of an action that it decided.
RemoveInv == \A h \in Handlers : pc[h] = "remove" => decision[ActionOf[h]] # "pending"

\* What one step of a request does to the actions and to the cache.
Effect(h) ==
    /\ pc' \in [Handlers -> Requests!PCs]
    /\ decision' \in [Actions -> {"pending", "approved", "rejected"}]
    /\ \A g \in Handlers : g # h => pc'[g] = pc[g]
    /\ \A A \in Actions : decision[A] # "pending" => decision'[A] # "pending"
    /\ expired' = expired /\ crashes' = crashes /\ fed' = fed
    /\ pc'[h] = "remove" => decision'[ActionOf[h]] # "pending"
    /\ cache' = cache \/ (pc[h] = "remove" /\ cache' = cache \ {ActionOf[h]})

\* Without load balancing no request touches a lock, and only act removes a
\* message, after the backend took its signature.
LEMMA RequestEffect ==
    ASSUME Types, RemoveInv, NEW h \in Handlers, Requests!Start(h) \/ Requests!Continue(h)
    PROVE  Effect(h)
<1> USE RequestsAssumption
        DEF Types, RemoveInv, Effect, Requests!PCs, Requests!Section, Requests!SyncOnly, Requests!Goto,
            Requests!Leave, Requests!redisVars, Requests!worldVars, Requests!historyVars, Requests!mutexVars
<1>1. CASE Requests!HandleMessage(h) \/ Requests!Act(h)
  BY <1>1 DEF Requests!HandleMessage, Requests!Act
<1>2. CASE Requests!ShouldHandleAction(h) \/ Requests!NewMutex(h) \/ Requests!AcquireLock(h)
  BY <1>2 DEF Requests!ShouldHandleAction, Requests!NewMutex, Requests!AcquireLock
<1>3. CASE Requests!Lock(h)
  BY <1>3 DEF Requests!Lock
<1>4. CASE Requests!LockError(h)
  BY <1>4 DEF Requests!LockError
<1>5. CASE Requests!Unlock(h)
  BY <1>5 DEF Requests!Unlock
<1>6. CASE Requests!MarkHandled(h)
  BY <1>6 DEF Requests!MarkHandled
<1>7. CASE Requests!GetActionMessage(h)
  BY <1>7 DEF Requests!GetActionMessage
<1>8. ASSUME Requests!Take(h)
      PROVE  /\ decision' \in [Actions -> {"pending", "approved", "rejected"}]
             /\ \A A \in Actions : decision[A] # "pending" => decision'[A] # "pending"
             /\ decision'[ActionOf[h]] # "pending"
  BY <1>8 DEF Requests!Take, Requests!Verdict
<1>9. CASE Requests!SignAction(h)
  BY <1>8, <1>9 DEF Requests!SignAction
<1>10. ASSUME Requests!PostFails(h)
       PROVE  /\ decision' \in [Actions -> {"pending", "approved", "rejected"}]
              /\ \A A \in Actions : decision[A] # "pending" => decision'[A] # "pending"
              /\ UNCHANGED <<cache, expired, crashes, fed>>
              /\ pc[h] = "post"
  BY <1>8, <1>10 DEF Requests!PostFails
<1>11. CASE Requests!SignError(h) \/ Requests!TimeOut(h) \/ Requests!Retry(h)
  BY <1>10, <1>11 DEF Requests!SignError, Requests!TimeOut, Requests!Retry
<1>12. CASE Requests!RemoveMessage(h)
  BY <1>12 DEF Requests!RemoveMessage
<1> QED
  BY <1>1, <1>2, <1>3, <1>4, <1>5, <1>6, <1>7, <1>9, <1>11, <1>12
     DEF Requests!Start, Requests!Continue, Requests!Synchronise, Requests!Sign
\* Messages handled so far, while they wait, are in the cache; a client that
\* registers was sent them or is about to be; and a client of the feed has them.
Inv == Types /\ RemoveInv /\ ShownInv /\ WaitingShown

\* A longer history has the same messages at its start.
LEMMA Appended ==
    ASSUME NEW S, NEW s \in Seq(S), NEW e
    PROVE  /\ Len(Append(s, e)) = Len(s) + 1
           /\ Append(s, e)[Len(s) + 1] = e
           /\ \A i \in 1 .. Len(s) : Append(s, e)[i] = s[i]
  OBVIOUS

\* A step of requests or of time keeps Inv: what waits stays in the cache.
LEMMA RequestsKeepInv ==
    ASSUME Inv, UNCHANGED hubVars,
           pc' \in [Handlers -> Requests!PCs],
           decision' \in [Actions -> {"pending", "approved", "rejected"}],
           crashes' \in Nat, RemoveInv',
           \A A \in Actions : Waiting(A)' => Waiting(A) /\ (A \in cache => A \in cache')
    PROVE  Inv'
<1>1. Types'
  BY DEF Inv, Types, hubVars
<1>2. \A m \in Handled : feed[m] \in Actions
  BY DEF Inv, Types, Handled
<1>3. \A m \in Handled : Waiting(feed[m])' => Waiting(feed[m]) /\ feed[m] \in cache'
  <2> SUFFICES ASSUME NEW m \in Handled, Waiting(feed[m])' PROVE Waiting(feed[m]) /\ feed[m] \in cache'
    OBVIOUS
  <2>1. feed' = feed /\ feed[m] \in Actions
    BY <1>2 DEF hubVars
  <2> QED
    BY <2>1 DEF Inv, ShownInv, Waiting
<1>4. ShownInv'
  BY <1>3 DEF Inv, Types, ShownInv, hubVars, Handled, Received
<1>5. WaitingShown'
  BY <1>3 DEF Inv, Types, ShownInv, WaitingShown, hubVars, Handled, Received
<1> QED
  BY <1>1, <1>4, <1>5 DEF Inv

\* The requests' steps.
LEMMA ActKeepsInv == ASSUME Inv, NEW h \in Handlers, Act(h) PROVE Inv'
<1>1. Effect(h)
  BY RequestEffect DEF Act, Inv
<1>2. RemoveInv'
  BY <1>1, RequestsAssumption DEF Effect, Inv, RemoveInv
<1>3. ASSUME NEW A \in Actions, Waiting(A)' PROVE Waiting(A) /\ (A \in cache => A \in cache')
  <2>1. Waiting(A)
    BY <1>1, <1>3 DEF Effect, Waiting
  <2>2. pc[h] = "remove" => ActionOf[h] # A
    BY <2>1 DEF Inv, RemoveInv, Waiting
  <2> QED
    BY <1>1, <2>1, <2>2 DEF Effect
<1> QED
  BY <1>1, <1>2, <1>3, RequestsKeepInv DEF Act, Effect, Inv, Types

\* What has expired does not wait any more.
LEMMA ExpireKeepsInv == ASSUME Inv, NEW A \in Actions, Expire(A) PROVE Inv'
<1>1. /\ UNCHANGED hubVars /\ UNCHANGED <<pc, decision, crashes, cache>>
      /\ expired' = expired \cup {A}
  BY DEF Expire, Requests!MessageExpire, Requests!handlerVars
<1> QED
  BY <1>1, RequestsKeepInv DEF Inv, Types, RemoveInv, Waiting

\* After a crash nobody follows the feed.
LEMMA CrashKeepsInv == ASSUME Inv, Crash PROVE Inv'
<1>1. /\ pc' = [h \in Handlers |-> IF pc[h] \notin {"idle", "done"} THEN "crashed" ELSE pc[h]]
      /\ UNCHANGED decision /\ crashes' = crashes + 1
      /\ feed' = <<>> /\ status' = [c \in Clients |-> "out"] /\ sent' = [c \in Clients |-> 0]
      /\ got' = [c \in Clients |-> <<>>] /\ offer' = [c \in Clients |-> {}]
  BY DEF Crash, Requests!Crash, NobodyThere
<1>2. Types'
  BY <1>1 DEF Inv, Types, Requests!PCs
<1>3. RemoveInv'
  BY <1>1 DEF Inv, Types, RemoveInv
<1>4. ShownInv' /\ WaitingShown'
  BY <1>1 DEF ShownInv, WaitingShown, Handled
<1> QED
  BY <1>2, <1>3, <1>4 DEF Inv

\* A message that the cache does not take has expired.
LEMMA BroadcastKeepsInv == ASSUME Inv, NEW A \in Actions, Broadcast(A) PROVE Inv'
<1>1. /\ feed' = Append(feed, A)
      /\ UNCHANGED <<pc, decision, crashes, expired, status, sent, got, offer>>
      /\ cache' = cache \cup {A} \/ (A \in expired /\ cache' = cache)
  BY DEF Broadcast, Requests!AddMessage, Requests!handlerVars
<1>2. /\ feed' \in Seq(Actions) /\ Len(feed') = Len(feed) + 1
      /\ feed'[Len(feed) + 1] = A
      /\ \A m \in 1 .. Len(feed) : feed'[m] = feed[m]
  BY <1>1 DEF Inv, Types
<1>3. Types' /\ RemoveInv'
  BY <1>1, <1>2 DEF Inv, Types, RemoveInv
<1>4. \A m \in Handled' : Waiting(feed[m])' => feed'[m] \in cache'
  <2> SUFFICES ASSUME NEW m \in 1 .. Len(feed'), Waiting(feed[m])' PROVE feed'[m] \in cache'
    BY DEF Handled
  <2>1. CASE m = Len(feed) + 1
    BY <1>1, <1>2, <2>1 DEF Waiting
  <2>2. CASE m \in 1 .. Len(feed)
    BY <1>1, <1>2, <2>2 DEF Inv, ShownInv, Waiting, Handled
  <2> QED
    BY <1>1, <1>2, <2>1, <2>2 DEF Inv, Types
<1>5. \A c \in Clients : \A m \in 1 .. sent[c] : feed'[m] = feed[m] /\ (Waiting(feed[m])' <=> Waiting(feed[m]))
  BY <1>1, <1>2 DEF Inv, Types, ShownInv, Waiting
<1>6. ShownInv'
  <2>1. \A c \in Clients : sent'[c] <= Len(feed')
    BY <1>1, <1>2 DEF Inv, Types, ShownInv
  <2>2. ASSUME NEW c \in Clients, status'[c] = "joining", NEW m \in 1 .. sent'[c], Waiting(feed[m])'
        PROVE  m \in (Received(c) \cup offer[c])'
    <3>1. m \in 1 .. sent[c] /\ status[c] = "joining" /\ Waiting(feed[m])
      BY <1>1, <1>5, <2>2
    <3>2. (Received(c) \cup offer[c])' = Received(c) \cup offer[c]
      BY <1>1 DEF Received
    <3> QED
      BY <3>1, <3>2 DEF Inv, ShownInv
  <2> QED
    BY <1>4, <2>1, <2>2 DEF ShownInv
<1>7. WaitingShown'
  BY <1>1, <1>5 DEF Inv, WaitingShown, Received
<1> QED
  BY <1>3, <1>6, <1>7 DEF Inv

\* A client gets the message after the last one it is up to date with.
LEMMA SendKeepsInv == ASSUME Inv, NEW c \in Clients, Send(c) PROVE Inv'
<1>1. /\ status[c] = "in" /\ sent[c] < Len(feed)
      /\ sent' = [sent EXCEPT ![c] = sent[c] + 1]
      /\ got' = [got EXCEPT ![c] = Append(got[c], sent[c] + 1)]
      /\ UNCHANGED <<pc, decision, crashes, expired, cache, feed, status, offer>>
  BY DEF Send, requestVars
<1>2. Types' /\ RemoveInv'
  BY <1>1 DEF Inv, Types, RemoveInv
<1>3. Received(c)' = Received(c) \cup {sent[c] + 1}
  <2>1. got'[c] = Append(got[c], sent[c] + 1) /\ got[c] \in Seq(Nat)
    BY <1>1 DEF Inv, Types
  <2> QED
    BY <2>1, Appended DEF Received
<1>4. \A d \in Clients : d # c => sent'[d] = sent[d] /\ Received(d)' = Received(d)
  BY <1>1 DEF Inv, Types, Received
<1>5. sent'[c] = sent[c] + 1 /\ sent[c] \in Nat /\ Len(feed) \in Nat
  BY <1>1 DEF Inv, Types
<1>6. \A m \in Nat : Waiting(feed[m])' <=> Waiting(feed[m])
  BY <1>1 DEF Waiting
<1>7. ShownInv'
  BY <1>1, <1>4, <1>5, <1>6 DEF Inv, Types, ShownInv, Handled
<1>8. WaitingShown'
  <2> SUFFICES ASSUME NEW d \in Clients, status[d] = "in", NEW m \in 1 .. sent'[d], Waiting(feed[m])
               PROVE  m \in Received(d)'
    BY <1>1, <1>2, <1>6 DEF Types, WaitingShown
  <2>1. CASE d # c
    BY <1>4, <2>1 DEF Inv, WaitingShown
  <2>2. CASE d = c /\ m = sent[c] + 1
    BY <1>3, <2>2
  <2>3. CASE d = c /\ m # sent[c] + 1
    BY <1>3, <1>5, <2>3 DEF Inv, WaitingShown
  <2> QED
    BY <2>1, <2>2, <2>3
<1> QED
  BY <1>2, <1>7, <1>8 DEF Inv

\* A client that begins to register is offered what is cached.
LEMMA RegisterKeepsInv == ASSUME Inv, NEW c \in Clients, RegisterClient(c) PROVE Inv'
<1>1. /\ status[c] = "out" /\ status' = [status EXCEPT ![c] = "joining"]
      /\ cache' = cache \ expired
      /\ offer' = [offer EXCEPT ![c] = {m \in Handled : feed[m] \in cache'}]
      /\ sent' = [sent EXCEPT ![c] = Len(feed)]
      /\ UNCHANGED <<pc, decision, crashes, expired, feed, got>>
  BY DEF RegisterClient, GetMessages
<1>2. Types' /\ RemoveInv'
  BY <1>1 DEF Inv, Types, RemoveInv, Handled
<1>3. \A m \in Handled : /\ Waiting(feed[m])' <=> Waiting(feed[m])
                         /\ Waiting(feed[m]) => feed[m] \in cache'
  BY <1>1 DEF Inv, ShownInv, Waiting
<1>4. \A d \in Clients : d # c => sent'[d] = sent[d] /\ status'[d] = status[d] /\ offer'[d] = offer[d]
  BY <1>1 DEF Inv, Types
<1>5. \A d \in Clients : 1 .. sent[d] \subseteq Handled
  BY DEF Inv, Types, ShownInv, Handled
<1>6. sent'[c] = Len(feed) /\ status'[c] = "joining" /\ offer'[c] = {m \in Handled : feed[m] \in cache'}
  BY <1>1 DEF Inv, Types
<1>7. \A d \in Clients : Received(d)' = Received(d)
  BY <1>1 DEF Received
<1>8. Handled' = Handled /\ feed' = feed /\ Len(feed) \in Nat
  BY <1>1 DEF Handled, Inv, Types
<1>9. ShownInv'
  BY <1>3, <1>4, <1>5, <1>6, <1>7, <1>8 DEF Inv, ShownInv, Handled
<1>10. WaitingShown'
  BY <1>3, <1>4, <1>5, <1>6, <1>7, <1>8 DEF Inv, WaitingShown
<1> QED
  BY <1>2, <1>9, <1>10 DEF Inv

\* It gets one of those.
LEMMA SendCachedKeepsInv == ASSUME Inv, NEW c \in Clients, NEW n \in Handled, SendCached(c, n) PROVE Inv'
<1>1. /\ offer' = [offer EXCEPT ![c] = offer[c] \ {n}]
      /\ got' = [got EXCEPT ![c] = Append(got[c], n)]
      /\ UNCHANGED <<pc, decision, crashes, expired, cache, feed, status, sent>>
  BY DEF SendCached, requestVars
<1>2. Types' /\ RemoveInv'
  BY <1>1 DEF Inv, Types, RemoveInv, Handled
<1>3. Received(c)' = Received(c) \cup {n} /\ offer'[c] = offer[c] \ {n}
  <2>1. got'[c] = Append(got[c], n) /\ got[c] \in Seq(Nat) /\ n \in Nat
    BY <1>1 DEF Inv, Types, Handled
  <2> QED
    BY <1>1, <2>1, Appended DEF Received, Inv, Types
<1>4. \A d \in Clients : d # c => offer'[d] = offer[d] /\ Received(d)' = Received(d)
  BY <1>1 DEF Inv, Types, Received
<1>5. \A m \in Nat : Waiting(feed[m])' <=> Waiting(feed[m])
  BY <1>1 DEF Waiting
<1>6. \A d \in Clients : /\ Received(d) \subseteq Received(d)'
                         /\ Received(d) \cup offer[d] \subseteq (Received(d) \cup offer[d])'
  BY <1>3, <1>4
<1>7. ShownInv' /\ WaitingShown'
  BY <1>1, <1>5, <1>6 DEF Inv, Types, ShownInv, WaitingShown, Handled
<1> QED
  BY <1>2, <1>7 DEF Inv

\* A client has registered, or leaves.
LEMMA LeaveKeepsInv ==
    ASSUME Inv, NEW c \in Clients, EndRegister(c) \/ UnregisterClient(c)
    PROVE  Inv'
<1>1. UNCHANGED <<pc, decision, crashes, expired, cache, feed, got, offer>>
  BY DEF EndRegister, UnregisterClient, requestVars
<1>2. \A d \in Clients : Received(d)' = Received(d)
  BY <1>1 DEF Received
<1>3. CASE EndRegister(c)
  <2>1. /\ status[c] = "joining" /\ offer[c] = {}
        /\ status' = [status EXCEPT ![c] = "in"] /\ sent' = sent
    BY <1>3 DEF EndRegister
  <2> QED
    BY <1>1, <1>2, <2>1 DEF Inv, Types, RemoveInv, ShownInv, WaitingShown, Waiting, Handled
<1>4. CASE UnregisterClient(c)
  <2>1. status' = [status EXCEPT ![c] = "left"] /\ sent' = [sent EXCEPT ![c] = 0]
    BY <1>4 DEF UnregisterClient
  <2>2. Types' /\ RemoveInv'
    BY <1>1, <2>1 DEF Inv, Types, RemoveInv
  <2>3. sent'[c] = 0 /\ status'[c] = "left"
    BY <2>1 DEF Inv, Types
  <2>4. \A d \in Clients : d # c => sent'[d] = sent[d] /\ status'[d] = status[d]
    BY <2>1 DEF Inv, Types
  <2>5. Len(feed) \in Nat
    BY DEF Inv, Types
  <2>6. ShownInv'
    BY <1>1, <1>2, <2>3, <2>4, <2>5 DEF Inv, ShownInv, Waiting, Handled
  <2>7. WaitingShown'
    BY <1>1, <1>2, <2>3, <2>4 DEF Inv, WaitingShown, Waiting
  <2> QED
    BY <2>2, <2>6, <2>7 DEF Inv
<1> QED
  BY <1>3, <1>4

\* Inv holds in every reachable state.
LEMMA InvCorrect == Spec => []Inv
<1>1. Init => Inv
  BY DEF Init, NobodyThere, Requests!Init, Inv, Types, Requests!PCs, RemoveInv, ShownInv, WaitingShown,
         Handled
<1>2. Inv /\ [Next]_vars => Inv'
  <2> SUFFICES ASSUME Inv, [Next]_vars PROVE Inv'
    OBVIOUS
  <2>1. CASE \E c \in Clients : UnregisterClient(c) \/ EndRegister(c)
    BY <2>1, LeaveKeepsInv
  <2>2. CASE \E c \in Clients : \E m \in Handled : SendCached(c, m)
    BY <2>2, SendCachedKeepsInv
  <2>3. CASE UNCHANGED vars
    <3>1. UNCHANGED hubVars /\ UNCHANGED <<pc, decision, crashes, cache, expired>>
      BY <2>3 DEF vars, requestVars
    <3> QED
      BY <3>1, RequestsKeepInv DEF Inv, Types, RemoveInv, Waiting
  <2>4. CASE Requests!Terminated /\ UNCHANGED hubVars
    <3>1. UNCHANGED hubVars /\ UNCHANGED <<pc, decision, crashes, cache, expired>>
      BY <2>4 DEF Requests!Terminated, Requests!vars, Requests!handlerVars, Requests!redisVars, Requests!worldVars
    <3> QED
      BY <3>1, RequestsKeepInv DEF Inv, Types, RemoveInv, Waiting
  <2> QED
    BY <2>1, <2>2, <2>3, <2>4, ActKeepsInv, ExpireKeepsInv, BroadcastKeepsInv, SendKeepsInv,
       RegisterKeepsInv, CrashKeepsInv DEF Next
<1> QED
  BY <1>1, <1>2, PTL DEF Spec

\* Whoever follows the local feed has been shown every action that still waits
\* for a decision, except those the hub is about to send, whatever requests
\* succeed or fail and whenever the client registered (feed_hub.go:97-111,
\* action_service.go:60-75, local_cache.go:34).
THEOREM WaitingShownCorrect == Spec => []WaitingShown
<1>1. Inv => WaitingShown
  BY DEF Inv
<1> QED
  BY <1>1, InvCorrect, PTL

\* A message leaves the cache only when its action was decided, its time has
\* passed or the process ended, also when a client's registration cleans the
\* cache up (action_service.go:69-75, local_cache.go:43-45).
THEOREM CacheKeepsPendingCorrect == Spec => CacheKeepsPending
<1>1. Inv /\ [Next]_vars => [\A A \in Actions : ~Requests!DropsPending(A)]_(Requests!vars)
  <2> SUFFICES ASSUME Inv, [Next]_vars, NEW A \in Actions, Requests!DropsPending(A) PROVE FALSE
    OBVIOUS
  <2>1. A \in cache /\ A \notin cache' /\ decision'[A] = "pending" /\ A \notin expired' /\ crashes' = crashes
    BY DEF Requests!DropsPending
  <2>2. ASSUME NEW h \in Handlers, Act(h) PROVE FALSE
    <3>1. Effect(h)
      BY <2>2, RequestEffect DEF Act, Inv
    <3>2. pc[h] = "remove" /\ A = ActionOf[h]
      BY <2>1, <3>1 DEF Effect
    <3>3. decision[A] # "pending"
      BY <3>2 DEF Inv, RemoveInv
    <3> QED
      BY <2>1, <3>1, <3>3 DEF Effect
  <2>3. ASSUME NEW B \in Actions, Expire(B) \/ Broadcast(B) PROVE FALSE
    BY <2>1, <2>3 DEF Expire, Broadcast, Requests!MessageExpire, Requests!AddMessage
  <2>4. ASSUME NEW c \in Clients, RegisterClient(c) PROVE FALSE
    BY <2>1, <2>4 DEF RegisterClient, GetMessages
  <2>5. CASE Crash
    BY <2>1, <2>5 DEF Crash, Requests!Crash, Inv, Types
  <2>6. ASSUME UNCHANGED cache PROVE FALSE
    BY <2>1, <2>6
  <2> QED
    BY <2>2, <2>3, <2>4, <2>5, <2>6 DEF Next, Send, EndRegister, UnregisterClient, SendCached, requestVars,
       Requests!Terminated, Requests!vars, Requests!redisVars, vars
<1> QED
  BY <1>1, InvCorrect, PTL DEF Spec, CacheKeepsPending, Requests!NeverDropPending

----------------------------------------------------------------------------
\* The refinement.  The hub gets the message of an action once in the life of
\* its process; what a client that registers has not got and will not be sent
\* is not in the cache any more.
Lost == {m \in Handled : feed[m] \notin cache}

FeedInv ==
    /\ \A m \in Handled : <<Me, feed[m]>> \in fed
    /\ \A m, n \in Handled : feed[m] = feed[n] => m = n
    /\ \A c \in Clients :
          status[c] = "joining" =>
              \A m \in 1 .. sent[c] : m \in Received(c) \cup offer[c] \cup Lost

\* So there are no more messages than actions.
LEMMA FeedFits ==
    ASSUME NEW s \in Seq(Actions), \A m, n \in 1 .. Len(s) : s[m] = s[n] => m = n
    PROVE  Len(s) <= Cardinality(Actions) /\ Cardinality(Actions) \in Nat
<1>1. Len(s) \in Nat /\ s \in [1 .. Len(s) -> Actions]
  OBVIOUS
<1>2. s \in Injection(1 .. Len(s), Actions)
  BY <1>1 DEF Injection, IsInjective
<1>3. Cardinality(1 .. Len(s)) <= Cardinality(Actions)
  BY <1>2, ActionsAssumption, FS_Injection
<1>4. Cardinality(1 .. Len(s)) = Len(s)
  <2>1. Cardinality(1 .. Len(s)) = IF 1 > Len(s) THEN 0 ELSE Len(s) - 1 + 1
    BY <1>1, FS_Interval
  <2> QED
    BY <1>1, <2>1
<1>5. Cardinality(Actions) \in Nat
  BY ActionsAssumption, FS_CardinalityType
<1> QED
  BY <1>3, <1>4, <1>5

LEMMA HandledFit == Types /\ FeedInv => Handled \subseteq 1 .. Cardinality(Actions)
  BY FeedFits DEF Types, FeedInv, Handled

\* Where the feed and its clients stay as they are and messages leave the cache,
\* the promise sees them get lost.
LEMMA LostOnly ==
    ASSUME Types, FeedInv, UNCHANGED hubVars, fed' = fed, cache' \subseteq cache
    PROVE  FeedInv' /\ [Promise!Next]_(Promise!vars)
<1>1. Lost \subseteq Lost' /\ Lost' \subseteq Handled /\ Handled' = Handled
  BY DEF Lost, hubVars, Handled
<1>2. FeedInv'
  BY <1>1 DEF FeedInv, hubVars, Received, Handled
<1>3. Handled \subseteq 1 .. Cardinality(Actions)
  BY HandledFit
<1>4. Promise!Lose
  BY <1>1, <1>3 DEF Promise!Lose, Lost, hubVars
<1> QED
  BY <1>2, <1>4 DEF Promise!Next

LEMMA PublishPromise == ASSUME Types, Types', FeedInv, NEW A \in Actions, Broadcast(A)
                        PROVE  FeedInv' /\ Promise!Publish
<1>1. /\ feed' = Append(feed, A)
      /\ <<Me, A>> \notin fed /\ fed' = fed \cup {<<Me, A>>}
      /\ cache' = cache \cup {A} \/ cache' = cache
      /\ UNCHANGED <<status, sent, got, offer>>
  BY DEF Broadcast, Requests!AddMessage
<1>2. /\ Len(feed') = Len(feed) + 1 /\ Len(feed) \in Nat
      /\ feed'[Len(feed) + 1] = A
      /\ \A m \in Handled : feed'[m] = feed[m]
  BY <1>1 DEF Types, Handled
<1>3. \A m \in Handled : feed[m] # A
  BY <1>1 DEF FeedInv
<1>4. Handled' = Handled \cup {Len(feed) + 1} /\ Len(feed) + 1 \notin Handled
  BY <1>2 DEF Handled
<1>5. Lost' = Lost \/ Lost' = Lost \cup {Len(feed) + 1}
  <2>1. \A m \in Handled : feed'[m] \in cache' <=> feed[m] \in cache
    BY <1>1, <1>2, <1>3
  <2> QED
    BY <1>4, <2>1 DEF Lost
<1>6. FeedInv'
  <2>1. \A m \in Handled' : <<Me, feed'[m]>> \in fed'
    BY <1>1, <1>2, <1>4 DEF FeedInv
  <2>2. \A m, n \in Handled' : feed'[m] = feed'[n] => m = n
    BY <1>2, <1>3, <1>4 DEF FeedInv
  <2>3. Lost \subseteq Lost'
    BY <1>5
  <2>4. \A c \in Clients : Received(c)' = Received(c)
    BY <1>1 DEF Received
  <2> QED
    BY <1>1, <2>1, <2>2, <2>3, <2>4 DEF FeedInv
<1>7. Len(feed) + 1 \in 1 .. Cardinality(Actions)
  <2>1. feed' \in Seq(Actions) /\ \A m, n \in 1 .. Len(feed') : feed'[m] = feed'[n] => m = n
    BY <1>6 DEF FeedInv, Types, Handled
  <2>2. Len(feed') <= Cardinality(Actions) /\ Cardinality(Actions) \in Nat
    BY <2>1, FeedFits
  <2> QED
    BY <1>2, <2>2
<1> QED
  BY <1>1, <1>2, <1>5, <1>6, <1>7 DEF Promise!Publish, Lost

\* The other steps of the hub and of a client.
LEMMA ClientPromise ==
    ASSUME Types, Types', FeedInv, NEW c \in Clients,
           Send(c) \/ EndRegister(c) \/ UnregisterClient(c)
    PROVE  FeedInv' /\ Promise!Next
<1>1. UNCHANGED <<feed, fed, cache, offer>> /\ Lost' = Lost /\ Handled' = Handled
  BY DEF Send, EndRegister, UnregisterClient, requestVars, Lost, Handled
<1>2. CASE Send(c)
  <2>1. /\ status[c] = "in" /\ sent[c] < Len(feed) /\ status' = status
        /\ sent' = [sent EXCEPT ![c] = @ + 1]
        /\ got' = [got EXCEPT ![c] = Append(@, sent[c] + 1)]
    BY <1>2 DEF Send
  <2>2. \A d \in Clients : status[d] = "joining" => sent'[d] = sent[d] /\ Received(d)' = Received(d)
    BY <2>1 DEF Types, Received
  <2>3. FeedInv'
    BY <1>1, <2>1, <2>2 DEF FeedInv
  <2>4. Promise!Receive(c)
    BY <1>1, <2>1 DEF Promise!Receive, Lost
  <2> QED
    BY <2>3, <2>4 DEF Promise!Next
<1>3. CASE EndRegister(c)
  <2>1. /\ status[c] = "joining" /\ offer[c] = {}
        /\ status' = [status EXCEPT ![c] = "in"] /\ sent' = sent /\ got' = got
    BY <1>3 DEF EndRegister
  <2>2. \A d \in Clients : status'[d] = "joining" => status[d] = "joining"
    BY <2>1 DEF Types
  <2>3. FeedInv'
    BY <1>1, <2>1, <2>2 DEF FeedInv, Received
  <2>4. 1 .. sent[c] \subseteq Promise!Received(c) \cup Lost
    BY <2>1 DEF FeedInv, Received, Promise!Received
  <2>5. Promise!Joined(c)
    BY <1>1, <2>1, <2>4 DEF Promise!Joined, Lost
  <2> QED
    BY <2>3, <2>5 DEF Promise!Next
<1>4. CASE UnregisterClient(c)
  <2>1. /\ status[c] = "in" /\ got' = got
        /\ status' = [status EXCEPT ![c] = "left"] /\ sent' = [sent EXCEPT ![c] = 0]
    BY <1>4 DEF UnregisterClient
  <2>2. \A d \in Clients : status'[d] = "joining" => status[d] = "joining" /\ sent'[d] = sent[d]
    BY <2>1 DEF Types
  <2>3. FeedInv'
    BY <1>1, <2>1, <2>2 DEF FeedInv, Received
  <2>4. Promise!Leave(c)
    BY <1>1, <2>1 DEF Promise!Leave, Lost
  <2> QED
    BY <2>3, <2>4 DEF Promise!Next
<1> QED
  BY <1>2, <1>3, <1>4

\* A registration: what is neither offered nor received was lost.
LEMMA JoinPromise ==
    ASSUME Types, Types', FeedInv, NEW c \in Clients, RegisterClient(c)
    PROVE  FeedInv' /\ Promise!Join(c)
<1>1. /\ status[c] = "out" /\ status' = [status EXCEPT ![c] = "joining"]
      /\ cache' = cache \ expired
      /\ offer' = [offer EXCEPT ![c] = {m \in Handled : feed[m] \in cache'}]
      /\ sent' = [sent EXCEPT ![c] = Len(feed)]
      /\ UNCHANGED <<fed, feed, got>>
  BY DEF RegisterClient, GetMessages
<1>2. /\ Handled' = Handled /\ Lost \subseteq Lost'
      /\ Lost' = {m \in Handled : feed[m] \notin cache'}
      /\ \A d \in Clients : Received(d)' = Received(d)
  BY <1>1 DEF Lost, Handled, Received
<1>3. 1 .. sent'[c] = Handled /\ offer'[c] \cup Lost' = Handled
  BY <1>1, <1>2 DEF Types, Handled
<1>4. \A d \in Clients : d # c => status'[d] = status[d] /\ sent'[d] = sent[d] /\ offer'[d] = offer[d]
  BY <1>1 DEF Types
<1>5. \A d \in Clients : status'[d] = "joining" =>
          \A m \in 1 .. sent'[d] : m \in Received(d)' \cup offer'[d] \cup Lost'
  <2> SUFFICES ASSUME NEW d \in Clients, status'[d] = "joining", NEW m \in 1 .. sent'[d]
               PROVE  m \in Received(d)' \cup offer'[d] \cup Lost'
    OBVIOUS
  <2>1. CASE d = c
    BY <1>3, <2>1
  <2>2. CASE d # c
    BY <1>2, <1>4, <2>2 DEF FeedInv
  <2> QED
    BY <2>1, <2>2
<1>6. FeedInv'
  BY <1>1, <1>2, <1>5 DEF FeedInv
<1>7. Lost' \subseteq 1 .. Cardinality(Actions)
  BY <1>2, HandledFit
<1> QED
  BY <1>1, <1>2, <1>6, <1>7 DEF Promise!Join, Lost

LEMMA EarlyPromise ==
    ASSUME Types, Types', FeedInv, NEW c \in Clients, NEW n \in Handled, SendCached(c, n),
           status[c] = "joining"
    PROVE  FeedInv' /\ Promise!Early(c, n)
<1>1. /\ offer' = [offer EXCEPT ![c] = offer[c] \ {n}]
      /\ got' = [got EXCEPT ![c] = Append(got[c], n)]
      /\ UNCHANGED <<fed, cache, feed, status, sent>>
  BY DEF SendCached, requestVars
<1>2. Lost' = Lost /\ Handled' = Handled
  BY <1>1 DEF Lost, Handled
<1>3. Received(c)' = Received(c) \cup {n} /\ offer'[c] = offer[c] \ {n}
  <2>1. got'[c] = Append(got[c], n) /\ got[c] \in Seq(Nat) /\ n \in Nat
    BY <1>1 DEF Types, Handled
  <2> QED
    BY <1>1, <2>1, Appended DEF Received, Types
<1>4. \A d \in Clients : d # c => offer'[d] = offer[d] /\ Received(d)' = Received(d)
  BY <1>1 DEF Types, Received
<1>5. FeedInv'
  BY <1>1, <1>2, <1>3, <1>4 DEF FeedInv
<1> QED
  BY <1>1, <1>2, <1>5 DEF Promise!Early, Lost

\* Only a client that registers is offered messages.
OfferInv == \A c \in Clients : status[c] # "joining" => offer[c] = {}

LEMMA StepOffer == Types /\ OfferInv /\ [Next]_vars => OfferInv'
<1> SUFFICES ASSUME Types, OfferInv, [Next]_vars PROVE OfferInv'
  OBVIOUS
<1> USE DEF Types, OfferInv
<1>1. ASSUME UNCHANGED hubVars PROVE OfferInv'
  BY <1>1 DEF hubVars
<1>2. ASSUME NEW A \in Actions, Broadcast(A) PROVE OfferInv'
  BY <1>2 DEF Broadcast
<1>3. ASSUME NEW c \in Clients, Send(c) \/ RegisterClient(c) \/ EndRegister(c) \/ UnregisterClient(c)
      PROVE  OfferInv'
  BY <1>3 DEF Send, RegisterClient, EndRegister, UnregisterClient
<1>4. ASSUME NEW c \in Clients, NEW m \in Handled, SendCached(c, m) PROVE OfferInv'
  BY <1>4 DEF SendCached
<1>5. CASE Crash
  BY <1>5 DEF Crash, NobodyThere
<1> QED
  BY <1>1, <1>2, <1>3, <1>4, <1>5 DEF Next, Act, Expire, vars

LEMMA StepPromise ==
    Inv /\ Inv' /\ FeedInv /\ OfferInv /\ [Next]_vars =>
        FeedInv' /\ [Promise!Next \/ Crash]_(Promise!vars)
<1> SUFFICES ASSUME Inv, Inv', FeedInv, OfferInv, [Next]_vars
             PROVE  FeedInv' /\ [Promise!Next \/ Crash]_(Promise!vars)
  OBVIOUS
<1>1. Types /\ Types'
  BY DEF Inv
<1>2. ASSUME NEW h \in Handlers, Act(h) PROVE FeedInv' /\ [Promise!Next]_(Promise!vars)
  <2>1. Effect(h)
    BY <1>2, RequestEffect DEF Act, Inv
  <2>2. UNCHANGED hubVars /\ fed' = fed /\ cache' \subseteq cache
    BY <1>2, <2>1 DEF Effect, Act
  <2> QED
    BY <1>1, <2>2, LostOnly
<1>3. ASSUME NEW A \in Actions, Expire(A) PROVE FeedInv' /\ [Promise!Next]_(Promise!vars)
  <2>1. UNCHANGED hubVars /\ fed' = fed /\ cache' = cache
    BY <1>3 DEF Expire, Requests!MessageExpire
  <2> QED
    BY <1>1, <2>1, LostOnly
<1>4. ASSUME NEW A \in Actions, Broadcast(A) PROVE FeedInv' /\ Promise!Next
  BY <1>1, <1>4, PublishPromise DEF Promise!Next
<1>5. ASSUME NEW c \in Clients, Send(c) \/ EndRegister(c) \/ UnregisterClient(c)
      PROVE  FeedInv' /\ Promise!Next
  BY <1>1, <1>5, ClientPromise
<1>6. ASSUME NEW c \in Clients, RegisterClient(c) PROVE FeedInv' /\ Promise!Next
  BY <1>1, <1>6, JoinPromise DEF Promise!Next
<1>7. ASSUME NEW c \in Clients, NEW m \in Handled, SendCached(c, m) PROVE FeedInv' /\ Promise!Next
  <2>1. status[c] = "joining"
    BY <1>7 DEF OfferInv, SendCached
  <2>2. FeedInv' /\ Promise!Early(c, m)
    BY <1>1, <1>7, <2>1, EarlyPromise
  <2>3. m \in 1 .. Cardinality(Actions)
    BY <1>1, HandledFit
  <2> QED
    BY <2>2, <2>3 DEF Promise!Next
<1>8. CASE Crash
  <2>1. feed' = <<>> /\ status' = [c \in Clients |-> "out"]
    BY <1>8 DEF Crash, NobodyThere
  <2>2. FeedInv'
    BY <2>1 DEF FeedInv, Handled
  <2> QED
    BY <1>8, <2>2
<1>9. CASE UNCHANGED vars \/ (Requests!Terminated /\ UNCHANGED hubVars)
  <2>1. UNCHANGED hubVars /\ fed' = fed /\ cache' = cache
    BY <1>9 DEF vars, requestVars, Requests!Terminated, Requests!vars, Requests!redisVars, Requests!worldVars
  <2> QED
    BY <1>1, <2>1, LostOnly
<1> QED
  BY <1>2, <1>3, <1>4, <1>5, <1>6, <1>7, <1>8, <1>9 DEF Next

\* Refinement: until the process ends, the feed keeps the promise of module
\* Broadcast, where lost are the messages the local cache does not have
\* (feed_hub.go:97-111, 152-192, local_cache.go:34-52).
THEOREM FeedPromiseCorrect == Spec => FeedPromise
<1>1. Init => FeedInv /\ OfferInv /\ Promise!Init
  BY DEF Init, NobodyThere, FeedInv, OfferInv, Promise!Init, Handled
<1>2. Inv /\ Inv' /\ FeedInv /\ OfferInv /\ [Next]_vars =>
          FeedInv' /\ OfferInv' /\ [Promise!Next \/ Crash]_(Promise!vars)
  BY StepPromise, StepOffer DEF Inv
<1> QED
  BY <1>1, <1>2, InvCorrect, PTL DEF Spec, FeedPromise

----------------------------------------------------------------------------
(***************************************************************************)
(* Type correctness.  Inv has the types of the hub's variables; this is    *)
(* what remains: those of the requests and of what they leave behind.      *)
(***************************************************************************)

\* The steps of the requests and of the world they run in.
LEMMA RequestType ==
    ASSUME Requests!TypeOK, NEW h \in Handlers, Requests!Start(h) \/ Requests!Continue(h)
    PROVE  Requests!TypeOK'
<1> USE RequestsAssumption, BoundsAssumption
<1> USE DEF Requests!TypeOK, Requests!PCs, Requests!Section, Requests!SyncOnly, Requests!Goto, Requests!Answer,
        Requests!Leave, Requests!IsAuto, Requests!handlerVars, Requests!mutexVars, Requests!redisVars,
        Requests!worldVars, Requests!historyVars
<1>1. CASE Requests!HandleMessage(h) \/ Requests!Act(h)
  BY <1>1 DEF Requests!HandleMessage, Requests!Act
<1>2. pc[h] \notin Requests!SyncOnly
  OBVIOUS
<1>3. ~Requests!Synchronise(h)
  BY <1>2 DEF Requests!Synchronise, Requests!ShouldHandleAction, Requests!NewMutex, Requests!AcquireLock,
              Requests!Lock, Requests!LockError, Requests!Unlock, Requests!MarkHandled
<1>4. CASE Requests!GetActionMessage(h)
  BY <1>4 DEF Requests!GetActionMessage
<1>5. CASE Requests!SignAction(h)
  BY <1>5 DEF Requests!SignAction, Requests!Take, Requests!Verdict
<1>6. CASE Requests!SignError(h)
  BY <1>6 DEF Requests!SignError, Requests!PostFails, Requests!Take, Requests!Verdict
<1>7. ~Requests!TimeOut(h) /\ ~Requests!Retry(h)
  BY DEF Requests!TimeOut, Requests!Retry
<1>8. CASE Requests!RemoveMessage(h)
  BY <1>8 DEF Requests!RemoveMessage
<1> QED
  BY <1>1, <1>3, <1>4, <1>5, <1>6, <1>7, <1>8
     DEF Requests!Start, Requests!Continue, Requests!Sign

LEMMA StepType == Requests!TypeOK /\ [Next]_vars => Requests!TypeOK'
<1> SUFFICES ASSUME Requests!TypeOK, [Next]_vars PROVE Requests!TypeOK'
  OBVIOUS
<1> USE DEF Requests!TypeOK, Requests!PCs, Requests!Section, Requests!SyncOnly, Requests!handlerVars,
        Requests!mutexVars, Requests!redisVars, Requests!worldVars, Requests!historyVars
<1>1. ASSUME NEW h \in Handlers, Act(h) PROVE Requests!TypeOK'
  BY <1>1, RequestType DEF Act
<1>2. ASSUME NEW A \in Actions, Expire(A) PROVE Requests!TypeOK'
  BY <1>2 DEF Expire, Requests!MessageExpire
<1>3. ASSUME NEW A \in Actions, Broadcast(A) PROVE Requests!TypeOK'
  BY <1>3 DEF Broadcast, Requests!AddMessage
<1>4. ASSUME NEW c \in Clients, RegisterClient(c) PROVE Requests!TypeOK'
  BY <1>4 DEF RegisterClient, GetMessages
<1>5. CASE Crash
  BY <1>5, BoundsAssumption DEF Crash, Requests!Crash
<1>6. CASE UNCHANGED requestVars
  BY <1>6 DEF requestVars
<1>7. ASSUME NEW c \in Clients, Send(c) \/ EndRegister(c) \/ UnregisterClient(c)
      PROVE  UNCHANGED requestVars
  BY <1>7 DEF Send, EndRegister, UnregisterClient
<1>8. ASSUME NEW c \in Clients, NEW m \in Handled, SendCached(c, m) PROVE UNCHANGED requestVars
  BY <1>8 DEF SendCached
<1>9. CASE Requests!Terminated \/ UNCHANGED vars
  BY <1>9 DEF Requests!Terminated, Requests!vars, vars, requestVars
<1> QED
  BY <1>1, <1>2, <1>3, <1>4, <1>5, <1>6, <1>7, <1>8, <1>9 DEF Next

\* Every reachable state has the right types.
THEOREM TypeCorrect == Spec => []TypeOK
<1>1. Init => Requests!TypeOK
  BY BoundsAssumption DEF Init, Requests!Init, Requests!TypeOK, Requests!PCs, Requests!Section, Requests!SyncOnly
<1>2. Inv /\ Requests!TypeOK => TypeOK
  BY DEF Inv, Types, TypeOK
<1> QED
  BY <1>1, <1>2, StepType, InvCorrect, PTL DEF Spec
====
