---- MODULE Broadcast ----
(***************************************************************************)
(* What the feed promises its clients, whatever the hub, its lock, its     *)
(* channels and its message cache do (internal/hub/feed_hub.go): a client  *)
(* that joins is offered every message that was not lost before, and from  *)
(* then on it gets each message once and in order until it leaves.         *)
(***************************************************************************)
EXTENDS Naturals, Sequences

CONSTANTS
    Clients,
    Messages      \* the messages' numbers: 1 .. n

VARIABLES
    handled,      \* number of the last message published
    lost,         \* messages a client that joins may not count on
    status,       \* "out", "joining", "in" or "left"
    sent,         \* number of the last message a client is up to date with
    got           \* the messages it got, in order

vars == <<handled, lost, status, sent, got>>

Init ==
    /\ handled = 0 /\ lost = {}
    /\ status = [c \in Clients |-> "out"]
    /\ sent = [c \in Clients |-> 0]
    /\ got = [c \in Clients |-> <<>>]

\* The next message is there; the cache may not take it.
Publish ==
    /\ handled + 1 \in Messages
    /\ handled' = handled + 1
    /\ lost' \in {lost, lost \cup {handled + 1}}
    /\ UNCHANGED <<status, sent, got>>

\* The cache loses messages.
Lose ==
    /\ lost' \in SUBSET Messages /\ lost \subseteq lost'
    /\ UNCHANGED <<handled, status, sent, got>>

\* A client begins to join; the cache may drop what has expired.
Join(c) ==
    /\ status[c] = "out"
    /\ status' = [status EXCEPT ![c] = "joining"]
    /\ sent' = [sent EXCEPT ![c] = handled]
    /\ lost' \in SUBSET Messages /\ lost \subseteq lost'
    /\ UNCHANGED <<handled, got>>

\* While it joins it gets earlier messages, in any order and maybe repeatedly.
Early(c, m) ==
    /\ status[c] = "joining"
    /\ got' = [got EXCEPT ![c] = Append(@, m)]
    /\ UNCHANGED <<handled, lost, status, sent>>

Received(c) == {got[c][i] : i \in 1 .. Len(got[c])}

\* It has joined when it has all there were, but for those that were lost.
Joined(c) ==
    /\ status[c] = "joining"
    /\ 1 .. sent[c] \subseteq Received(c) \cup lost
    /\ status' = [status EXCEPT ![c] = "in"]
    /\ UNCHANGED <<handled, lost, sent, got>>

\* Then it gets the message after the last one.
Receive(c) ==
    /\ status[c] = "in" /\ sent[c] < handled
    /\ sent' = [sent EXCEPT ![c] = @ + 1]
    /\ got' = [got EXCEPT ![c] = Append(@, sent[c] + 1)]
    /\ UNCHANGED <<handled, lost, status>>

Leave(c) ==
    /\ status[c] = "in"
    /\ status' = [status EXCEPT ![c] = "left"]
    /\ sent' = [sent EXCEPT ![c] = 0]
    /\ UNCHANGED <<handled, lost, got>>

\* All clients leave at once.
LeaveAll ==
    /\ status' = [c \in Clients |-> IF status[c] = "in" THEN "left" ELSE status[c]]
    /\ sent' = [c \in Clients |-> IF status[c] = "in" THEN 0 ELSE sent[c]]
    /\ UNCHANGED <<handled, lost, got>>

Next ==
    \/ Publish \/ Lose \/ LeaveAll
    \/ \E c \in Clients :
          \/ Join(c) \/ Joined(c) \/ Receive(c) \/ Leave(c)
          \/ \E m \in Messages : Early(c, m)

Spec == Init /\ [][Next]_vars
====
