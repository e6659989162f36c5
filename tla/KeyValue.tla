---- MODULE KeyValue ----
(***************************************************************************)
(* What a key-value store promises its callers (internal/util/kvstore.go): *)
(* a map that changes in one step, within the call and at the call's key,  *)
(* whatever else goes on.  A call whose answer is an error may have taken  *)
(* effect.                                                                 *)
(*                                                                         *)
(* The promise ends when trust ends.  CloudStore says when that is.        *)
(***************************************************************************)
CONSTANTS
    Callers, \* calls to the store; a call to Set stores the caller's name
    Keys,
    None     \* no value

VARIABLES
    map,     \* the stored values
    op,      \* what a call was asked to do
    status,  \* where a call is
    answer,  \* the value that a call to Get returned
    trust    \* "yes" while the promise is kept

vars == <<map, op, status, answer, trust>>

Operations == [kind : {"get", "set", "del"}, key : Keys]

\* What operation o of caller c makes of map m.
Update(m, c, o) ==
    CASE o.kind = "get" -> m
      [] o.kind = "set" -> [m EXCEPT ![o.key] = c]
      [] o.kind = "del" -> [m EXCEPT ![o.key] = None]

Init ==
    /\ map = [k \in Keys |-> None]
    /\ op = [c \in Callers |-> None]
    /\ status = [c \in Callers |-> "idle"]
    /\ answer = [c \in Callers |-> None]
    /\ trust = "yes"

Begin(c) ==
    /\ status[c] = "idle"
    /\ \E o \in Operations : op' = [op EXCEPT ![c] = o]
    /\ status' = [status EXCEPT ![c] = "busy"]
    /\ UNCHANGED <<map, answer, trust>>

\* The call takes effect, and may return at once.
Apply(c) ==
    /\ status[c] = "busy"
    /\ map' = Update(map, c, op[c])
    /\ \E s \in {"applied", "done", "failed"} : status' = [status EXCEPT ![c] = s]
    /\ answer' = IF op[c].kind = "get" THEN [answer EXCEPT ![c] = map[op[c].key]] ELSE answer
    /\ UNCHANGED <<op, trust>>

\* Calls return: without an error only if they took effect.
Return ==
    /\ status' \in [Callers -> {"idle", "busy", "applied", "done", "failed"}]
    /\ \A c \in Callers :
          \/ status'[c] = status[c]
          \/ status[c] = "applied" /\ status'[c] \in {"done", "failed"}
          \/ status[c] = "busy" /\ status'[c] = "failed"
    /\ UNCHANGED <<map, op, answer, trust>>

Broken == trust' = "no"

Next == (\E c \in Callers : Begin(c) \/ Apply(c)) \/ Return \/ Broken

Spec == Init /\ [][Next]_vars
====
