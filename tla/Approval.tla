---- MODULE Approval ----
(***************************************************************************)
(* What the handlers of actions promise together, in however many          *)
(* instances they run: they take turns at an action, the first signature   *)
(* decides it, and a handler that looks at the status first signs only an  *)
(* action that is still pending when the backend takes the signature.      *)
(*                                                                         *)
(* The promise is one for each action, until it is broken for that action. *)
(* ActionHandling says when.                                               *)
(***************************************************************************)
CONSTANTS
    Actions,
    Handlers,  \* messages and requests
    ActionOf,  \* what a handler is about
    VerdictOf, \* what its signature says: "approved" or "rejected"
    Careful    \* the handlers that look at the status of the action

VARIABLES
    turn,      \* handlers that talk to the backend
    signed,    \* handlers whose signature it took
    decision,  \* "pending", or what it recorded
    broken     \* actions for which nothing is promised any more

vars == <<turn, signed, decision, broken>>

Init ==
    /\ turn = {} /\ signed = {}
    /\ decision = [A \in Actions |-> "pending"]
    /\ broken \in SUBSET Actions

\* A handler begins when nobody else is at its action.
Enter(h) ==
    /\ h \notin turn
    /\ ActionOf[h] \notin broken => \A g \in turn : ActionOf[g] # ActionOf[h]
    /\ turn' = turn \cup {h}
    /\ UNCHANGED <<signed, decision, broken>>

\* The backend takes its signature; it may try again, or be done.
Sign(h) ==
    /\ h \in turn
    /\ h \in Careful /\ ActionOf[h] \notin broken => decision[ActionOf[h]] = "pending"
    /\ signed' = signed \cup {h}
    /\ decision' = IF decision[ActionOf[h]] = "pending"
                     THEN [decision EXCEPT ![ActionOf[h]] = VerdictOf[h]] ELSE decision
    /\ turn' = turn \/ turn' = turn \ {h}
    /\ UNCHANGED broken

\* Handlers end, signed or not.
Leave ==
    /\ turn' \subseteq turn
    /\ UNCHANGED <<signed, decision, broken>>

Break ==
    /\ broken \subseteq broken' /\ broken' \subseteq Actions
    /\ UNCHANGED <<turn, signed, decision>>

Next == (\E h \in Handlers : Enter(h) \/ Sign(h)) \/ Leave \/ Break

Spec == Init /\ [][Next]_vars
====
