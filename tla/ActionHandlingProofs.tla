---- MODULE ActionHandlingProofs ----
(***************************************************************************)
(* Proofs about ActionHandling, for all sets of instances, actions and     *)
(* handlers and every configuration.                                       *)
(***************************************************************************)
EXTENDS ActionHandling, Integers, TLAPS

\* The initial state has the right types.
LEMMA InitType == Init => TypeOK
BY BoundsAssumption DEF Init, TypeOK, PCs, Section, SyncOnly

\* Every step keeps the types, and keeps the lock code out of lone instances.
LEMMA StepType == TypeOK /\ [Next]_vars => TypeOK'
<1> SUFFICES ASSUME TypeOK, [Next]_vars PROVE TypeOK'
  OBVIOUS
<1> USE HandlersAssumption, NoneAssumption, DeploymentAssumption, BoundsAssumption
<1> USE DEF TypeOK, PCs, Section, SyncOnly, Goto, Answer, Leave, Kinds,
    handlerVars, mutexVars, redisVars, worldVars, historyVars
<1>1. ASSUME NEW h \in Handlers, Start(h) PROVE TypeOK'
  BY <1>1 DEF Start, HandleMessage, Act
<1>2. ASSUME NEW h \in Handlers, Synchronise(h) PROVE TypeOK'
  <2>1. CASE ShouldHandleAction(h)
    BY <2>1 DEF ShouldHandleAction
  <2>2. CASE NewMutex(h)
    BY <2>2 DEF NewMutex
  <2>3. CASE AcquireLock(h)
    BY <2>3 DEF AcquireLock
  <2>4. CASE Lock(h)
    BY <2>4 DEF Lock
  <2>5. CASE LockError(h)
    BY <2>5 DEF LockError, LockErrorEffect
  <2>6. CASE Unlock(h)
    BY <2>6 DEF Unlock
  <2>7. CASE MarkHandled(h)
    BY <2>7 DEF MarkHandled
  <2> QED BY <1>2, <2>1, <2>2, <2>3, <2>4, <2>5, <2>6, <2>7 DEF Synchronise
<1>3. ASSUME NEW h \in Handlers, Sign(h) PROVE TypeOK'
  <2>1. CASE GetActionMessage(h)
    BY <2>1 DEF GetActionMessage
  <2>2. CASE SignAction(h)
    BY <2>2 DEF SignAction, Take, Verdict
  <2>3. CASE SignError(h)
    BY <2>3 DEF SignError, PostFails, Take, Verdict
  <2>4. CASE TimeOut(h)
    BY <2>4 DEF TimeOut, PostFails, Take, Verdict
  <2>5. CASE Retry(h)
    BY <2>5 DEF Retry, PostFails, Take, Verdict
  <2>6. CASE RemoveMessage(h)
    BY <2>6 DEF RemoveMessage
  <2> QED BY <1>3, <2>1, <2>2, <2>3, <2>4, <2>5, <2>6 DEF Sign
<1>4. CASE Environment
  <2>1. ASSUME NEW A \in Actions, LockExpire(A) \/ MarkExpire(A) \/ MessageExpire(A)
        PROVE  TypeOK'
    BY <2>1 DEF LockExpire, MarkExpire, MessageExpire
  <2>2. ASSUME NEW a \in Agents, NEW A \in Actions, AddMessage(a, A) PROVE TypeOK'
    BY <2>2 DEF AddMessage
  <2>3. ASSUME NEW a \in Agents, Crash(a) PROVE TypeOK'
    BY <2>3 DEF Crash
  <2> QED BY <1>4, <2>1, <2>2, <2>3 DEF Environment
<1>5. CASE Terminated \/ UNCHANGED vars
  BY <1>5 DEF Terminated, vars
<1> QED BY <1>1, <1>2, <1>3, <1>4, <1>5 DEF Next, Continue

\* Every reachable state has the right types.
THEOREM TypeCorrect == Spec => []TypeOK
BY InitType, StepType, PTL DEF Spec

----------------------------------------------------------------------------
(***************************************************************************)
(* The locking invariant.  Most steps touch neither a mutex nor a lock and *)
(* only move their handler inside the classes of program counters that the *)
(* invariant tells apart; one lemma says so for all of them.               *)
(***************************************************************************)

\* The steps of a handler that leave mutexes and locks alone.
QuietStep(h) ==
    Start(h) \/ ShouldHandleAction(h) \/ Sign(h) \/ MarkHandled(h)

\* What LockingInv and NoOrphanLock need to know of such a step.
Quiet(h) ==
    /\ UNCHANGED <<target, mutexVars, lock, overlapped, lapsed, faulted>>
    /\ \A g \in Handlers : g # h => pc'[g] = pc[g]
    /\ pc[h] \in After => pc'[h] \in After
    /\ pc'[h] # "locking" /\ pc'[h] # "acquire"
    /\ LoadBalancing => (pc'[h] \in Holding <=> pc[h] \in Holding)

LEMMA QuietSteps ==
    ASSUME TypeOK, NEW h \in Handlers, QuietStep(h)
    PROVE  Quiet(h)
<1> USE DEF Quiet, TypeOK, After, Holding, Section, SyncOnly, Goto, Leave,
    handlerVars, mutexVars, redisVars, worldVars, historyVars
<1>1. CASE Start(h)
  BY <1>1 DEF Start, HandleMessage, Act
<1>2. CASE ShouldHandleAction(h)
  BY <1>2 DEF ShouldHandleAction
<1>3. CASE Sign(h)
  <2>1. CASE GetActionMessage(h)
    BY <2>1 DEF GetActionMessage
  <2>2. CASE SignAction(h)
    BY <2>2 DEF SignAction
  <2>3. CASE SignError(h)
    BY <2>3 DEF SignError, PostFails
  <2>4. CASE TimeOut(h)
    BY <2>4 DEF TimeOut, PostFails
  <2>5. CASE Retry(h)
    BY <2>5 DEF Retry, PostFails
  <2>6. CASE RemoveMessage(h)
    BY <2>6 DEF RemoveMessage
  <2> QED BY <1>3, <2>1, <2>2, <2>3, <2>4, <2>5, <2>6 DEF Sign
<1>4. CASE MarkHandled(h)
  BY <1>4 DEF MarkHandled
<1> QED BY <1>1, <1>2, <1>3, <1>4 DEF QuietStep

\* The same for the steps of the environment that concern neither.
LEMMA CalmEnvironment ==
    ASSUME TypeOK,
           \/ \E A \in Actions : MarkExpire(A) \/ MessageExpire(A)
           \/ \E a \in Agents, A \in Actions : AddMessage(a, A)
           \/ Terminated
           \/ UNCHANGED vars
    PROVE  UNCHANGED <<pc, target, mutexVars, lock, overlapped, lapsed, faulted, signed, decision>>
BY DEF MarkExpire, MessageExpire, AddMessage, Terminated, vars, handlerVars,
       mutexVars, redisVars, worldVars, historyVars

LEMMA InitLocking == Init => LockingInv
BY NoneAssumption DEF Init, LockingInv, SlotInv, TargetInv, ValueInv, LockInv,
   Using, Holding, Section

\* LockingInv is inductive: one step per kind of action, one below it for each
\* part of the invariant.
LEMMA StepLocking == TypeOK /\ LockingInv /\ [Next]_vars => LockingInv'
<1> SUFFICES ASSUME TypeOK, SlotInv, TargetInv, ValueInv, LockInv, [Next]_vars
             PROVE  LockingInv'
  BY DEF LockingInv
<1> USE HandlersAssumption, NoneAssumption
<1> USE DEF TypeOK, Exact, After, Using, Holding, Section, SyncOnly, Goto,
    mutexVars, redisVars, worldVars, historyVars, handlerVars
<1>1. ASSUME NEW h \in Handlers, QuietStep(h) PROVE LockingInv'
  <2>q. Quiet(h)
    BY <1>1, QuietSteps
  <2>1. SlotInv'
    BY <2>q DEF Quiet, SlotInv
  <2>2. TargetInv'
    BY <2>q DEF Quiet, SlotInv, TargetInv
  <2>3. ValueInv'
    BY <2>q DEF Quiet, SlotInv, TargetInv, ValueInv
  <2>4. LockInv'
    BY <2>q DEF Quiet, SlotInv, TargetInv, ValueInv, LockInv
  <2> QED BY <2>1, <2>2, <2>3, <2>4 DEF LockingInv
<1>2. ASSUME NEW h \in Handlers, NewMutex(h) PROVE LockingInv'
  <2>1. SlotInv'
    BY <1>2 DEF NewMutex, SlotInv
  <2>2. TargetInv'
    BY <1>2 DEF NewMutex, SlotInv, TargetInv
  <2>3. ValueInv'
    BY <1>2 DEF NewMutex, SlotInv, TargetInv, ValueInv
  <2>4. LockInv'
    BY <1>2 DEF NewMutex, SlotInv, TargetInv, ValueInv, LockInv
  <2> QED BY <2>1, <2>2, <2>3, <2>4 DEF LockingInv
<1>3. ASSUME NEW h \in Handlers, AcquireLock(h) PROVE LockingInv'
  <2>1. SlotInv'
    BY <1>3 DEF AcquireLock, SlotInv
  <2>2. TargetInv'
    BY <1>3 DEF AcquireLock, SlotInv, TargetInv
  <2>3. ValueInv'
    BY <1>3 DEF AcquireLock, SlotInv, TargetInv, ValueInv
  <2>4. LockInv'
    BY <1>3 DEF AcquireLock, SlotInv, TargetInv, ValueInv, LockInv
  <2> QED BY <2>1, <2>2, <2>3, <2>4 DEF LockingInv
<1>4. ASSUME NEW h \in Handlers, Lock(h) PROVE LockingInv'
  <2>1. SlotInv'
    BY <1>4 DEF Lock, SlotInv
  <2>2. TargetInv'
    BY <1>4 DEF Lock, SlotInv, TargetInv
  <2>3. ValueInv'
    <3>1. target[h] \in Handlers /\ value' = [value EXCEPT ![target[h]] = h]
      BY <1>4 DEF Lock, SlotInv, TargetInv
    <3>2. ASSUME NEW m \in Handlers, value'[m] # None
          PROVE  pc'[value'[m]] \in After /\ target'[value'[m]] = m
      BY <1>4, <3>1, <3>2 DEF Lock, ValueInv
    <3>3. ASSUME NEW g \in Handlers, Exact(g)', pc'[g] \in Holding
          PROVE  value'[g] = g
      BY <1>4, <3>1, <3>3 DEF Lock, SlotInv, TargetInv, ValueInv
    <3> QED BY <3>2, <3>3 DEF ValueInv
  <2>4. LockInv'
    BY <1>4 DEF Lock, SlotInv, TargetInv, ValueInv, LockInv
  <2> QED BY <2>1, <2>2, <2>3, <2>4 DEF LockingInv
<1>5. ASSUME NEW h \in Handlers, LockError(h) PROVE LockingInv'
  <2>1. SlotInv'
    BY <1>5 DEF LockError, LockErrorEffect, SlotInv
  <2>2. TargetInv'
    BY <1>5 DEF LockError, LockErrorEffect, SlotInv, TargetInv
  <2>3. ValueInv'
    BY <1>5 DEF LockError, LockErrorEffect, SlotInv, TargetInv, ValueInv
  <2>4. LockInv'
    BY <1>5 DEF LockError, LockErrorEffect, SlotInv, TargetInv, ValueInv, LockInv
  <2> QED BY <2>1, <2>2, <2>3, <2>4 DEF LockingInv
<1>6. ASSUME NEW h \in Handlers, Unlock(h) PROVE LockingInv'
  <2>1. SlotInv'
    BY <1>6 DEF Unlock, SlotInv
  <2>2. TargetInv'
    BY <1>6 DEF Unlock, SlotInv, TargetInv
  <2>3. ValueInv'
    BY <1>6 DEF Unlock, SlotInv, TargetInv, ValueInv
  <2>4. LockInv'
    BY <1>6 DEF Unlock, SlotInv, TargetInv, ValueInv, LockInv
  <2> QED BY <2>1, <2>2, <2>3, <2>4 DEF LockingInv
<1>7. ASSUME NEW A \in Actions, LockExpire(A) PROVE LockingInv'
  <2>1. SlotInv'
    BY <1>7 DEF LockExpire, SlotInv
  <2>2. TargetInv'
    BY <1>7 DEF LockExpire, SlotInv, TargetInv
  <2>3. ValueInv'
    BY <1>7 DEF LockExpire, SlotInv, TargetInv, ValueInv
  <2>4. LockInv'
    BY <1>7 DEF LockExpire, SlotInv, TargetInv, ValueInv, LockInv
  <2> QED BY <2>1, <2>2, <2>3, <2>4 DEF LockingInv
<1>8. ASSUME NEW a \in Agents, Crash(a) PROVE LockingInv'
  <2>1. SlotInv'
    BY <1>8 DEF Crash, SlotInv
  <2>2. TargetInv'
    BY <1>8 DEF Crash, SlotInv, TargetInv
  <2>3. ValueInv'
    BY <1>8 DEF Crash, SlotInv, TargetInv, ValueInv
  <2>4. LockInv'
    BY <1>8 DEF Crash, SlotInv, TargetInv, ValueInv, LockInv
  <2> QED BY <2>1, <2>2, <2>3, <2>4 DEF LockingInv
<1>9. ASSUME \/ \E A \in Actions : MarkExpire(A) \/ MessageExpire(A)
             \/ \E a \in Agents, A \in Actions : AddMessage(a, A)
             \/ Terminated
             \/ UNCHANGED vars
      PROVE  LockingInv'
  BY <1>9, CalmEnvironment DEF LockingInv, SlotInv, TargetInv, ValueInv, LockInv
<1>10. ASSUME NEW h \in Handlers, Start(h) \/ Continue(h) PROVE LockingInv'
  BY <1>10, <1>1, <1>2, <1>3, <1>4, <1>5, <1>6 DEF Continue, Synchronise, QuietStep
<1>11. CASE Environment
  <2>1. CASE \E A \in Actions : LockExpire(A) \/ MarkExpire(A) \/ MessageExpire(A)
    BY <2>1, <1>7, <1>9
  <2>2. CASE \E a \in Agents, A \in Actions : AddMessage(a, A)
    BY <2>2, <1>9
  <2>3. CASE \E a \in Agents : Crash(a)
    BY <2>3, <1>8, <1>9
  <2> QED BY <1>11, <2>1, <2>2, <2>3 DEF Environment
<1>12. CASE Terminated
  BY <1>12, <1>9
<1>13. CASE UNCHANGED vars
  BY <1>13, <1>9
<1> QED BY <1>10, <1>11, <1>12, <1>13 DEF Next

\* The locking invariant holds in every reachable state.
THEOREM LockingCorrect == Spec => []LockingInv
BY InitLocking, StepLocking, TypeCorrect, PTL DEF Spec

----------------------------------------------------------------------------
\* The locking invariant excludes two holders of one action's lock.
LEMMA Exclusion == TypeOK /\ LockingInv => ExclusiveSigning
<1> SUFFICES ASSUME TypeOK, LockInv, LoadBalancing,
                    NEW g \in Handlers, NEW h \in Handlers,
                    g # h, ActionOf[g] = ActionOf[h],
                    pc[g] \in Section, pc[h] \in Section,
                    Clean(ActionOf[h])
             PROVE  FALSE
  BY DEF LockingInv, ExclusiveSigning
<1>1. Exact(g) /\ Exact(h) /\ ActionOf[h] \notin lapsed
  BY DEF Clean, Handles, Exact
<1>2. lock[ActionOf[g]] = g /\ lock[ActionOf[h]] = h
  BY <1>1 DEF LockInv, Holding
<1> QED BY <1>2

\* Under load balancing two handlers are in the signing code of one action at
\* a time only if a lock lapsed or a mutex slot was overwritten.
THEOREM ExclusiveSigningCorrect == Spec => []ExclusiveSigning
BY Exclusion, TypeCorrect, LockingCorrect, PTL

----------------------------------------------------------------------------
\* NoOrphanLock is inductive beside LockingInv: the step that could leave a
\* lock behind is Unlock, and there an exact slot names the right mutex.
LEMMA StepOrphan ==
    TypeOK /\ LockingInv /\ NoOrphanLock /\ [Next]_vars => NoOrphanLock'
<1> SUFFICES ASSUME TypeOK, LockingInv, NoOrphanLock, [Next]_vars
             PROVE  NoOrphanLock'
  OBVIOUS
<1> USE HandlersAssumption, NoneAssumption
<1> USE DEF NoOrphanLock, Holding, Section, Goto,
    mutexVars, redisVars, worldVars, historyVars, handlerVars
<1>1. ASSUME NEW h \in Handlers, QuietStep(h) PROVE NoOrphanLock'
  <2>1. Quiet(h)
    BY <1>1, QuietSteps
  <2>2. pc[h] # "crashed"
    BY <1>1 DEF QuietStep, Start, HandleMessage, Act, ShouldHandleAction, Sign,
       GetActionMessage, SignAction, SignError, TimeOut, Retry, PostFails,
       RemoveMessage, MarkHandled
  <2> QED BY <2>1, <2>2 DEF Quiet, TypeOK, LockingInv, LockInv
<1>2. ASSUME NEW h \in Handlers, NewMutex(h) PROVE NoOrphanLock'
  BY <1>2 DEF NewMutex, TypeOK
<1>3. ASSUME NEW h \in Handlers, AcquireLock(h) PROVE NoOrphanLock'
  BY <1>3 DEF AcquireLock, TypeOK
<1>4. ASSUME NEW h \in Handlers, Lock(h) PROVE NoOrphanLock'
  BY <1>4 DEF Lock, TypeOK
<1>5. ASSUME NEW h \in Handlers, LockError(h) PROVE NoOrphanLock'
  BY <1>5 DEF LockError, LockErrorEffect, TypeOK
<1>6. ASSUME NEW h \in Handlers, Unlock(h) PROVE NoOrphanLock'
  <2> SUFFICES ASSUME NEW A \in Actions, lock'[A] = h, ~(AgentOf[h] \in overlapped),
                      h \notin faulted'
               PROVE  FALSE
    BY <1>6 DEF Unlock, TypeOK
  <2>1. Exact(h) /\ slot[AgentOf[h]] = h /\ target[h] = h /\ value[h] = h
    BY <1>6 DEF Unlock, TypeOK, SyncOnly, Exact, LockingInv, SlotInv, TargetInv, ValueInv, Using
  <2>2. lock[A] = h /\ lock' = [lock EXCEPT ![ActionOf[h]] = IF @ = h THEN None ELSE @]
    BY <1>6, <2>1 DEF Unlock, TypeOK
  <2>3. A = ActionOf[h]
    BY <2>1, <2>2 DEF LockingInv, LockInv
  <2> QED BY <2>2, <2>3 DEF TypeOK
<1>7. CASE Environment
  <2>1. ASSUME NEW A \in Actions, LockExpire(A) PROVE NoOrphanLock'
    BY <2>1 DEF LockExpire, TypeOK
  <2>2. ASSUME NEW a \in Agents, Crash(a) PROVE NoOrphanLock'
    BY <2>2 DEF Crash, TypeOK
  <2>3. CASE \E A \in Actions : LockExpire(A) \/ MarkExpire(A) \/ MessageExpire(A)
    BY <2>3, <2>1, CalmEnvironment
  <2>4. CASE \E a \in Agents, A \in Actions : AddMessage(a, A)
    BY <2>4, CalmEnvironment
  <2>5. CASE \E a \in Agents : Crash(a)
    BY <2>5, <2>2, CalmEnvironment
  <2> QED BY <1>7, <2>3, <2>4, <2>5 DEF Environment
<1>8. ASSUME Terminated \/ UNCHANGED vars PROVE NoOrphanLock'
  BY <1>8, CalmEnvironment
<1>9. ASSUME NEW h \in Handlers, Start(h) \/ Continue(h) PROVE NoOrphanLock'
  BY <1>9, <1>1, <1>2, <1>3, <1>4, <1>5, <1>6 DEF Continue, Synchronise, QuietStep
<1>10. CASE Terminated
  BY <1>10, <1>8
<1>11. CASE UNCHANGED vars
  BY <1>11, <1>8
<1> QED BY <1>7, <1>9, <1>10, <1>11 DEF Next

\* Redis keeps a lock only for a handler that will release it, or for a reason
\* the history names.
THEOREM NoOrphanLockCorrect == Spec => []NoOrphanLock
<1>1. Init => NoOrphanLock
  BY DEF Init, NoOrphanLock
<1> QED BY <1>1, StepOrphan, TypeCorrect, LockingCorrect, PTL DEF Spec

\* What a step that changes a lock somebody holds may be.
LEMMA StepReleases ==
    ASSUME TypeOK, LockingInv, [Next]_vars,
           NEW A \in Actions, lock[A] # None, lock'[A] # lock[A]
    PROVE  \/ LockExpire(A)
           \/ \E h \in Handlers :
                 /\ pc[h] = "unlock" /\ pc'[h] = "mark"
                 /\ h = lock[A] \/ AgentOf[h] \in overlapped
<1> DEFINE Goal == \/ LockExpire(A)
                   \/ \E h \in Handlers :
                         /\ pc[h] = "unlock" /\ pc'[h] = "mark"
                         /\ h = lock[A] \/ AgentOf[h] \in overlapped
<1> USE HandlersAssumption, NoneAssumption
<1> USE DEF Holding, Section, Goto, mutexVars, redisVars, worldVars, historyVars, handlerVars
<1>1. ASSUME NEW h \in Handlers, QuietStep(h) PROVE Goal
  BY <1>1, QuietSteps DEF Quiet
<1>2. ASSUME NEW h \in Handlers, NewMutex(h) \/ AcquireLock(h) PROVE Goal
  BY <1>2 DEF NewMutex, AcquireLock
<1>3. ASSUME NEW h \in Handlers, Lock(h) \/ LockError(h) PROVE Goal
  BY <1>3 DEF Lock, LockError, LockErrorEffect, TypeOK
<1>4. ASSUME NEW h \in Handlers, Unlock(h) PROVE Goal
  <2>1. pc[h] = "unlock" /\ pc'[h] = "mark"
    BY <1>4 DEF Unlock, TypeOK
  <2>2. CASE AgentOf[h] \notin overlapped
    <3>1. slot[AgentOf[h]] = h /\ value[h] = h
      BY <2>1, <2>2 DEF TypeOK, SyncOnly, Exact, LockingInv, SlotInv, ValueInv, Using
    <3>2. lock' \in {lock, [lock EXCEPT ![ActionOf[h]] = IF @ = h THEN None ELSE @]}
      BY <1>4, <3>1 DEF Unlock
    <3> QED
      BY <2>1, <3>2 DEF TypeOK
  <2> QED
    BY <2>1, <2>2
<1>5. CASE Environment
  <2>1. ASSUME NEW B \in Actions, LockExpire(B) PROVE Goal
    BY <2>1 DEF LockExpire, TypeOK
  <2>2. ASSUME NEW a \in Agents, Crash(a) PROVE Goal
    BY <2>2 DEF Crash
  <2>3. CASE \/ \E B \in Actions : MarkExpire(B) \/ MessageExpire(B)
             \/ \E a \in Agents, B \in Actions : AddMessage(a, B)
    BY <2>3, CalmEnvironment
  <2> QED BY <1>5, <2>1, <2>2, <2>3 DEF Environment
<1>6. CASE Terminated \/ UNCHANGED vars
  BY <1>6, CalmEnvironment
<1>7. ASSUME NEW h \in Handlers, Start(h) \/ Continue(h) PROVE Goal
  BY <1>7, <1>1, <1>2, <1>3, <1>4 DEF Continue, Synchronise, QuietStep
<1> QED BY <1>5, <1>6, <1>7 DEF Next

\* A late Release leaves the lock of the next holder alone.
THEOREM ReleasesOwnCorrect == Spec => ReleasesOwn
<1>1. TypeOK /\ LockingInv /\ [Next]_vars =>
        [\A A \in Actions :
            lock[A] # None /\ lock'[A] # lock[A] =>
                \/ LockExpire(A)
                \/ \E h \in Handlers :
                      /\ pc[h] = "unlock" /\ pc'[h] = "mark"
                      /\ h = lock[A] \/ AgentOf[h] \in overlapped]_vars
  BY StepReleases
<1> QED BY <1>1, TypeCorrect, LockingCorrect, PTL DEF Spec, ReleasesOwn

----------------------------------------------------------------------------
(***************************************************************************)
(* One signature per action from REST requests.  A request signs only an   *)
(* action it saw pending, and nobody decides the action between its GET    *)
(* and its POST while locks hold: that is DecisionInv.                     *)
(***************************************************************************)
DecidedOnce == DecisionInv /\ RestDecidesOnce

\* The steps that send a signature, and all other steps of a handler.
Signs(h) == SignAction(h) \/ SignError(h) \/ TimeOut(h) \/ Retry(h)
SignsNot(h) == Start(h) \/ Synchronise(h) \/ GetActionMessage(h) \/ RemoveMessage(h)

LEMMA SigningSteps ==
    ASSUME TypeOK, NEW h \in Handlers, Signs(h)
    PROVE  /\ pc[h] = "post"
           /\ \A g \in Handlers : g # h => pc'[g] = pc[g]
           /\ ~IsAuto(h) => pc'[h] # "post"
           /\ UNCHANGED <<lapsed, overlapped>>
           /\ Take(h) \/ UNCHANGED <<signed, decision>>
<1> USE DEF TypeOK, Goto, Leave, PostFails
<1>1. CASE SignAction(h)
  BY <1>1 DEF SignAction
<1>2. CASE SignError(h)
  BY <1>2 DEF SignError
<1>3. CASE TimeOut(h)
  BY <1>3 DEF TimeOut
<1>4. CASE Retry(h)
  BY <1>4 DEF Retry
<1> QED BY <1>1, <1>2, <1>3, <1>4 DEF Signs

\* Every other step keeps the decisions, and brings a REST request to its POST
\* only if the action is pending.
NoDecision ==
    /\ UNCHANGED <<signed, decision>>
    /\ lapsed \subseteq lapsed' /\ overlapped \subseteq overlapped'
    /\ \A g \in Handlers :
          ~IsAuto(g) /\ pc'[g] = "post" =>
              pc[g] = "post" \/ decision[ActionOf[g]] = "pending"

LEMMA OtherSteps ==
    ASSUME TypeOK, NEW h \in Handlers, SignsNot(h)
    PROVE  NoDecision
<1> USE DEF NoDecision, TypeOK, Goto, Leave, worldVars, historyVars
<1>1. CASE Start(h)
  BY <1>1 DEF Start, HandleMessage, Act
<1>2. CASE Synchronise(h)
  BY <1>2 DEF Synchronise, ShouldHandleAction, NewMutex, AcquireLock, Lock,
     LockError, LockErrorEffect, Unlock, MarkHandled
<1>3. CASE GetActionMessage(h) \/ RemoveMessage(h)
  BY <1>3 DEF GetActionMessage, RemoveMessage
<1> QED BY <1>1, <1>2, <1>3 DEF SignsNot

LEMMA EnvironmentSteps ==
    ASSUME TypeOK, Environment \/ Terminated \/ UNCHANGED vars
    PROVE  NoDecision
<1> USE DEF NoDecision, TypeOK, handlerVars, worldVars, historyVars
<1>1. CASE Environment
  <2>1. ASSUME NEW A \in Actions, LockExpire(A) \/ MarkExpire(A) \/ MessageExpire(A)
        PROVE  NoDecision
    BY <2>1 DEF LockExpire, MarkExpire, MessageExpire
  <2>2. ASSUME NEW a \in Agents, NEW A \in Actions, AddMessage(a, A) PROVE NoDecision
    BY <2>2 DEF AddMessage
  <2>3. ASSUME NEW a \in Agents, Crash(a) PROVE NoDecision
    BY <2>3 DEF Crash
  <2> QED BY <1>1, <2>1, <2>2, <2>3 DEF Environment
<1>2. CASE Terminated \/ UNCHANGED vars
  BY <1>2 DEF Terminated, vars
<1> QED BY <1>1, <1>2

LEMMA StepDecided ==
    TypeOK /\ ExclusiveSigning /\ DecidedOnce /\ [Next]_vars => DecidedOnce'
<1> SUFFICES ASSUME TypeOK, ExclusiveSigning, DecisionInv, RestDecidesOnce, [Next]_vars
             PROVE  DecidedOnce'
  BY DEF DecidedOnce
<1> USE HandlersAssumption DEF Clean, Handles
<1>1. ASSUME NoDecision PROVE DecidedOnce'
  <2>1. DecisionInv'
    BY <1>1 DEF NoDecision, DecisionInv
  <2>2. RestDecidesOnce'
    BY <1>1 DEF NoDecision, RestDecidesOnce
  <2> QED BY <2>1, <2>2 DEF DecidedOnce
<1>2. ASSUME NEW h \in Handlers, Signs(h) PROVE DecidedOnce'
  <2>1. CASE UNCHANGED <<signed, decision>>
    <3>1. NoDecision
      BY <1>2, <2>1, SigningSteps DEF NoDecision
    <3> QED BY <3>1, <1>1
  <2>2. CASE Take(h)
    <3>1. \A g \in signed' : decision'[ActionOf[g]] # "pending"
      BY <2>2 DEF Take, Verdict, TypeOK, DecisionInv
    <3>2. ASSUME LoadBalancing, NEW g \in Handlers, ~IsAuto(g), pc'[g] = "post",
                 Clean(ActionOf[g])'
          PROVE  decision'[ActionOf[g]] = "pending"
      <4>1. g # h /\ pc[g] = "post" /\ Clean(ActionOf[g])
        BY <1>2, <3>2, SigningSteps
      <4>2. ActionOf[g] # ActionOf[h]
        BY <1>2, <3>2, <4>1, SigningSteps DEF ExclusiveSigning, Section
      <4> QED BY <2>2, <3>2, <4>1, <4>2 DEF Take, TypeOK, DecisionInv
    <3>3. ASSUME LoadBalancing, NEW f \in signed', NEW g \in signed',
                 ~IsAuto(f), ~IsAuto(g), ActionOf[f] = ActionOf[g], Clean(ActionOf[g])'
          PROVE  f = g
      <4>1. Clean(ActionOf[g]) /\ pc[h] = "post"
        BY <1>2, <3>3, SigningSteps
      <4>2. CASE f \in signed /\ g \in signed
        BY <3>3, <4>1, <4>2 DEF RestDecidesOnce
      <4>3. CASE f = h \/ g = h
        BY <3>3, <2>2, <4>1, <4>3 DEF DecisionInv, Take
      <4> QED BY <4>2, <4>3, <2>2 DEF Take
    <3>4. DecisionInv'
      BY <3>1, <3>2 DEF DecisionInv
    <3>5. RestDecidesOnce'
      BY <3>3 DEF RestDecidesOnce
    <3> QED BY <3>4, <3>5 DEF DecidedOnce
  <2> QED BY <1>2, <2>1, <2>2, SigningSteps
<1>3. ASSUME NEW h \in Handlers, Start(h) \/ Continue(h) PROVE DecidedOnce'
  BY <1>3, <1>1, <1>2, OtherSteps DEF Continue, Sign, Signs, SignsNot
<1>4. CASE Environment \/ Terminated
  BY <1>4, <1>1, EnvironmentSteps
<1>5. CASE UNCHANGED vars
  BY <1>5, <1>1, EnvironmentSteps
<1> QED BY <1>3, <1>4, <1>5 DEF Next

\* Decisions and signatures agree in every reachable state.
LEMMA DecidedCorrect == Spec => []DecidedOnce
<1>1. Init => DecidedOnce
  BY DEF Init, DecidedOnce, DecisionInv, RestDecidesOnce
<1> QED
  BY <1>1, StepDecided, TypeCorrect, ExclusiveSigningCorrect, PTL DEF Spec

\* Under load balancing the backend takes one REST signature per action, if
\* that action's lock never lapsed and its instances' slots were never shared.
THEOREM RestDecidesOnceCorrect == Spec => []RestDecidesOnce
<1>1. DecidedOnce => RestDecidesOnce
  BY DEF DecidedOnce
<1> QED
  BY <1>1, DecidedCorrect, PTL

\* A request that signs decides, since it still sees a pending action; and a
\* decision stays.
LEMMA StepSigned ==
    TypeOK /\ DecidedOnce /\ SignedIsTrue /\ [Next]_vars => SignedIsTrue'
<1> SUFFICES ASSUME TypeOK, DecisionInv, SignedIsTrue, [Next]_vars
             PROVE  SignedIsTrue'
  BY DEF DecidedOnce
<1> USE HandlersAssumption DEF Clean, Handles
<1>1. ASSUME NoDecision PROVE SignedIsTrue'
  BY <1>1 DEF NoDecision, SignedIsTrue
<1>2. ASSUME NEW h \in Handlers, Signs(h) PROVE SignedIsTrue'
  <2>1. CASE UNCHANGED <<signed, decision>>
    BY <1>1, <1>2, <2>1, SigningSteps DEF NoDecision
  <2>2. CASE Take(h)
    <3> SUFFICES ASSUME LoadBalancing, NEW g \in signed', ~IsAuto(g), Clean(ActionOf[g])'
                 PROVE  decision'[ActionOf[g]] = Verdict(g)
      BY DEF SignedIsTrue, Verdict
    <3>1. Clean(ActionOf[g]) /\ pc[h] = "post" /\ g \in Handlers
      BY <1>2, <2>2, SigningSteps DEF Take, TypeOK
    <3>2. CASE g \in signed
      <4>1. decision[ActionOf[g]] = Verdict(g) /\ decision[ActionOf[g]] # "pending"
        BY <3>1, <3>2 DEF SignedIsTrue, DecisionInv
      <4> QED
        BY <2>2, <3>1, <4>1 DEF Take, TypeOK
    <3>3. CASE g = h
      BY <2>2, <3>1, <3>3 DEF Take, TypeOK, DecisionInv
    <3> QED
      BY <2>2, <3>2, <3>3 DEF Take
  <2> QED BY <1>2, <2>1, <2>2, SigningSteps
<1>3. ASSUME NEW h \in Handlers, Start(h) \/ Continue(h) PROVE SignedIsTrue'
  BY <1>3, <1>1, <1>2, OtherSteps DEF Continue, Sign, Signs, SignsNot
<1>4. CASE Environment \/ Terminated
  BY <1>4, <1>1, EnvironmentSteps
<1>5. CASE UNCHANGED vars
  BY <1>5, <1>1, EnvironmentSteps
<1> QED BY <1>3, <1>4, <1>5 DEF Next

\* Under load balancing a REST request whose signature the backend took sees its
\* own verdict recorded, as long as locks hold.
THEOREM SignedIsTrueCorrect == Spec => []SignedIsTrue
<1>1. Init => SignedIsTrue
  BY DEF Init, SignedIsTrue
<1> QED
  BY <1>1, StepSigned, TypeCorrect, DecidedCorrect, PTL DEF Spec

\* What the lock is good for when no two handlers shared the slot: a handler in
\* the signing code locked its own mutex, which is the one for its action, and
\* Redis keeps that lock for it until the TTL ends.
OwnLock ==
    \A h \in Handlers :
        LoadBalancing /\ pc[h] \in Section /\ AgentOf[h] \notin overlapped =>
            /\ ActionOf[target[h]] = ActionOf[h]
            /\ ActionOf[h] \notin lapsed => lock[ActionOf[h]] = h

\* So LockIsForTheAction fails only where a slot was overwritten
\* (syncronizer.go:53-57).
THEOREM OwnLockCorrect == Spec => []OwnLock
<1>1. LockingInv => OwnLock
  BY DEF LockingInv, TargetInv, LockInv, OwnLock, Exact, Holding
<1> QED
  BY <1>1, LockingCorrect, PTL

----------------------------------------------------------------------------
(***************************************************************************)
(* All of it in one: ActionHandling implements module Approval.            *)
(***************************************************************************)
Turn == {h \in Handlers : pc[h] \in Section}
Broken == {A \in Actions : ~LoadBalancing \/ ~Clean(A)}

\* Handlers leave the signing code, or nothing happens that the promise is about.
LEMMA LeavesPromise ==
    ASSUME UNCHANGED <<signed, decision, lapsed, overlapped>>,
           \A h \in Handlers : pc'[h] \in Section => pc[h] \in Section
    PROVE  Promise!Next
<1>1. Turn' \subseteq Turn /\ Broken' = Broken
  BY DEF Turn, Broken, Clean
<1>2. Promise!Leave
  BY <1>1 DEF Promise!Leave, Turn, Broken
<1> QED
  BY <1>2 DEF Promise!Next

\* A lock ceases to hold.
LEMMA BreaksPromise ==
    ASSUME UNCHANGED <<signed, decision>>, lapsed \subseteq lapsed', overlapped \subseteq overlapped',
           \A h \in Handlers : pc'[h] \in Section <=> pc[h] \in Section
    PROVE  Promise!Next
<1>1. Turn' = Turn /\ Broken \subseteq Broken' /\ Broken' \subseteq Actions
  BY DEF Turn, Broken, Clean
<1>2. Promise!Break
  BY <1>1 DEF Promise!Break, Turn, Broken
<1> QED
  BY <1>2 DEF Promise!Next

\* A handler comes to the signing code: that nobody else is there is what
\* ExclusiveSigning says of the next state.
LEMMA EntersPromise ==
    ASSUME ExclusiveSigning', NEW h \in Handlers,
           UNCHANGED <<signed, decision, lapsed, overlapped>>,
           \A g \in Handlers : g # h => pc'[g] = pc[g],
           pc[h] \notin Section, pc'[h] \in Section
    PROVE  Promise!Next
<1>1. Turn' = Turn \cup {h} /\ h \notin Turn /\ Broken' = Broken
  BY DEF Turn, Broken, Clean
<1>2. ASSUME ActionOf[h] \notin Broken, NEW g \in Turn PROVE ActionOf[g] # ActionOf[h]
  <2>1. g \in Handlers /\ g # h /\ pc'[g] \in Section
    BY <1>1, <1>2 DEF Turn
  <2>2. LoadBalancing /\ Clean(ActionOf[h])'
    BY <1>1, <1>2, HandlersAssumption DEF Broken
  <2> QED
    BY <2>1, <2>2 DEF ExclusiveSigning
<1>3. Promise!Enter(h)
  BY <1>1, <1>2 DEF Promise!Enter, Turn, Broken
<1> QED
  BY <1>3 DEF Promise!Next

\* A signature is sent: a request sends it for an action that is pending.
LEMMA SignsPromise ==
    ASSUME TypeOK, DecidedOnce, NEW h \in Handlers, Signs(h)
    PROVE  Promise!Next
<1> USE HandlersAssumption
<1>1. /\ pc[h] = "post" /\ UNCHANGED <<lapsed, overlapped>>
      /\ \A g \in Handlers : g # h => pc'[g] = pc[g]
  BY SigningSteps
<1>2. CASE UNCHANGED <<signed, decision>>
  BY <1>1, <1>2, LeavesPromise DEF Section
<1>3. CASE Take(h)
  <2>1. h \in Turn /\ Broken' = Broken /\ (Turn' = Turn \/ Turn' = Turn \ {h})
    BY <1>1 DEF Turn, Broken, Clean, Section
  <2>2. ~IsAuto(h) /\ ActionOf[h] \notin Broken => decision[ActionOf[h]] = "pending"
    BY <1>1 DEF Broken, DecidedOnce, DecisionInv
  <2>3. Promise!Sign(h)
    BY <1>3, <2>1, <2>2 DEF Promise!Sign, Take, Turn, Broken
  <2> QED
    BY <2>3 DEF Promise!Next
<1> QED
  BY <1>2, <1>3, SigningSteps

\* Every step is one of the promise, or no step of it.
LEMMA StepTurns ==
    TypeOK /\ DecidedOnce /\ ExclusiveSigning' /\ [Next]_vars => [Promise!Next]_(Promise!vars)
<1> SUFFICES ASSUME TypeOK, DecidedOnce, ExclusiveSigning', [Next]_vars
             PROVE  Promise!Next
  OBVIOUS
<1> USE DEF handlerVars, mutexVars, redisVars, worldVars, historyVars
<1>1. ASSUME NEW h \in Handlers, Start(h) \/ Lock(h) PROVE Promise!Next
  <2>1. /\ UNCHANGED <<signed, decision, lapsed, overlapped>> /\ pc[h] \notin Section
        /\ \A g \in Handlers : g # h => pc'[g] = pc[g]
    BY <1>1 DEF Start, HandleMessage, Act, Lock, Goto, TypeOK, Section
  <2>2. CASE pc'[h] \in Section
    BY <2>1, <2>2, EntersPromise
  <2>3. CASE pc'[h] \notin Section
    BY <2>1, <2>3, LeavesPromise
  <2> QED
    BY <2>2, <2>3
<1>2. ASSUME NEW h \in Handlers, NewMutex(h) PROVE Promise!Next
  BY <1>2, BreaksPromise DEF NewMutex, Goto, TypeOK, Section
<1>3. ASSUME NEW h \in Handlers,
             \/ ShouldHandleAction(h) \/ AcquireLock(h) \/ LockError(h) \/ Unlock(h)
             \/ MarkHandled(h) \/ GetActionMessage(h) \/ RemoveMessage(h)
      PROVE  Promise!Next
  <2>1. UNCHANGED <<signed, decision, lapsed, overlapped>>
    BY <1>3 DEF ShouldHandleAction, AcquireLock, LockError, Unlock, MarkHandled,
       GetActionMessage, RemoveMessage
  <2>2. \A g \in Handlers : pc'[g] \in Section => pc[g] \in Section
    BY <1>3 DEF ShouldHandleAction, AcquireLock, LockError, Unlock, MarkHandled,
       GetActionMessage, RemoveMessage, Goto, Leave, TypeOK, Section
  <2> QED
    BY <2>1, <2>2, LeavesPromise
<1>4. ASSUME NEW h \in Handlers, Start(h) \/ Continue(h) PROVE Promise!Next
  BY <1>1, <1>2, <1>3, <1>4, SignsPromise DEF Continue, Synchronise, Sign, Signs
<1>5. CASE Environment
  <2>1. ASSUME NEW A \in Actions, LockExpire(A) PROVE Promise!Next
    BY <2>1, BreaksPromise DEF LockExpire
  <2>2. ASSUME NEW A \in Actions, MarkExpire(A) \/ MessageExpire(A) PROVE Promise!Next
    BY <2>2, LeavesPromise DEF MarkExpire, MessageExpire
  <2>3. ASSUME NEW a \in Agents, NEW A \in Actions, AddMessage(a, A) PROVE Promise!Next
    BY <2>3, LeavesPromise DEF AddMessage
  <2>4. ASSUME NEW a \in Agents, Crash(a) PROVE Promise!Next
    BY <2>4, LeavesPromise DEF Crash, TypeOK, Section
  <2> QED
    BY <1>5, <2>1, <2>2, <2>3, <2>4 DEF Environment
<1>6. CASE Terminated \/ UNCHANGED vars
  BY <1>6, LeavesPromise DEF Terminated, vars
<1> QED
  BY <1>4, <1>5, <1>6 DEF Next

\* The handlers take turns at an action, the first signature decides it and a
\* request signs only what is pending, as long as the action's locks hold.
THEOREM TakesTurnsCorrect == Spec => TakesTurns
<1>1. Init => Promise!Init
  BY DEF Init, Promise!Init, Section
<1> QED
  BY <1>1, StepTurns, TypeCorrect, DecidedCorrect, ExclusiveSigningCorrect, PTL
     DEF Spec, TakesTurns, Promise!Spec

----------------------------------------------------------------------------
(***************************************************************************)
(* The message cache keeps what is pending.                                *)
(***************************************************************************)
LEMMA StepRemove == TypeOK /\ RemoveInv /\ [Next]_vars => RemoveInv'
<1> SUFFICES ASSUME TypeOK, RemoveInv, [Next]_vars PROVE RemoveInv'
  OBVIOUS
<1> USE HandlersAssumption
<1> USE DEF TypeOK, RemoveInv, Goto, Leave, worldVars
<1>1. ASSUME NEW h \in Handlers, Start(h) \/ Synchronise(h) PROVE RemoveInv'
  BY <1>1 DEF Start, HandleMessage, Act, Synchronise, ShouldHandleAction, NewMutex,
     AcquireLock, Lock, LockError, Unlock, MarkHandled
<1>2. ASSUME NEW h \in Handlers, Sign(h) PROVE RemoveInv'
  <2>1. CASE GetActionMessage(h) \/ RemoveMessage(h)
    BY <2>1 DEF GetActionMessage, RemoveMessage
  <2>2. CASE SignAction(h)
    BY <2>2 DEF SignAction, Take, Verdict
  <2>3. CASE SignError(h) \/ TimeOut(h) \/ Retry(h)
    BY <2>3 DEF SignError, TimeOut, Retry, PostFails, Take, Verdict
  <2> QED BY <1>2, <2>1, <2>2, <2>3 DEF Sign
<1>3. CASE Environment
  <2>1. ASSUME NEW A \in Actions, LockExpire(A) \/ MarkExpire(A) \/ MessageExpire(A)
        PROVE  RemoveInv'
    BY <2>1 DEF LockExpire, MarkExpire, MessageExpire, handlerVars
  <2>2. ASSUME NEW a \in Agents, NEW A \in Actions, AddMessage(a, A) PROVE RemoveInv'
    BY <2>2 DEF AddMessage, handlerVars
  <2>3. ASSUME NEW a \in Agents, Crash(a) PROVE RemoveInv'
    BY <2>3 DEF Crash, handlerVars
  <2> QED BY <1>3, <2>1, <2>2, <2>3 DEF Environment
<1>4. CASE Terminated \/ UNCHANGED vars
  BY <1>4 DEF Terminated, vars, handlerVars
<1> QED BY <1>1, <1>2, <1>3, <1>4 DEF Next, Continue

\* No step takes a message out of the cache while its action is pending and in
\* time, but for the end of the process that holds it.
LEMMA StepKeepsPending ==
    ASSUME TypeOK, RemoveInv, [Next]_vars, NEW A \in Actions
    PROVE  ~DropsPending(A)
<1> SUFFICES ASSUME DropsPending(A) PROVE FALSE
  OBVIOUS
<1> USE DEF DropsPending, redisVars, worldVars
<1>1. ASSUME NEW h \in Handlers, Start(h) \/ Synchronise(h) PROVE FALSE
  BY <1>1 DEF Start, HandleMessage, Act, Synchronise, ShouldHandleAction, NewMutex,
     AcquireLock, Lock, LockError, Unlock, MarkHandled
<1>2. ASSUME NEW h \in Handlers, Sign(h) PROVE FALSE
  BY <1>2 DEF Sign, GetActionMessage, SignAction, SignError, TimeOut, Retry,
     PostFails, RemoveMessage, RemoveInv
<1>3. CASE Environment
  <2>1. ASSUME NEW B \in Actions, LockExpire(B) \/ MarkExpire(B) \/ MessageExpire(B)
        PROVE  FALSE
    BY <2>1 DEF LockExpire, MarkExpire, MessageExpire
  <2>2. ASSUME NEW a \in Agents, NEW B \in Actions, AddMessage(a, B) PROVE FALSE
    BY <2>2 DEF AddMessage
  <2>3. ASSUME NEW a \in Agents, Crash(a) PROVE FALSE
    BY <2>3 DEF Crash, TypeOK
  <2> QED BY <1>3, <2>1, <2>2, <2>3 DEF Environment
<1>4. CASE Terminated \/ UNCHANGED vars
  BY <1>4 DEF Terminated, vars
<1> QED BY <1>1, <1>2, <1>3, <1>4 DEF Next, Continue

THEOREM NeverDropPendingCorrect == Spec => NeverDropPending
<1>1. Init => RemoveInv
  BY DEF Init, RemoveInv
<1>2. TypeOK /\ RemoveInv /\ [Next]_vars => [\A A \in Actions : ~DropsPending(A)]_vars
  BY StepKeepsPending
<1> QED BY <1>1, <1>2, StepRemove, TypeCorrect, PTL DEF Spec, NeverDropPending

----------------------------------------------------------------------------
(***************************************************************************)
(* The message cache keeps nothing of what a request decided.              *)
(***************************************************************************)

\* A request that signed has its POST behind it.
SignedInv ==
    \A h \in signed : ~IsAuto(h) => pc[h] \in {"remove", "unlock", "mark", "done", "crashed"}
StaleInv == SignedInv /\ NoStaleMessage

\* What a step must do at most for StaleInv to hold afterwards.
LEMMA StaleKept ==
    ASSUME TypeOK, StaleInv, signed' = signed, stale \subseteq stale',
           cache' \subseteq cache \cup stale',
           \A h \in signed :
              ~IsAuto(h) =>
                 /\ pc'[h] \in {"remove", "unlock", "mark", "done", "crashed"}
                 /\ pc[h] = "remove" => pc'[h] \in {"remove", "crashed"}
                 /\ pc[h] = "crashed" => pc'[h] = "crashed"
                 /\ reply'[h] = reply[h]
    PROVE  StaleInv'
BY DEF StaleInv, SignedInv, NoStaleMessage

LEMMA StepStale == TypeOK /\ DecidedOnce /\ StaleInv /\ [Next]_vars => StaleInv'
<1> SUFFICES ASSUME TypeOK, DecidedOnce, StaleInv, [Next]_vars PROVE StaleInv'
  OBVIOUS
<1> USE HandlersAssumption
<1> USE DEF handlerVars, mutexVars, redisVars, worldVars, historyVars
<1>s. SignedInv /\ NoStaleMessage
  BY DEF StaleInv
<1>1. ASSUME NEW h \in Handlers, Start(h) \/ Synchronise(h) \/ GetActionMessage(h)
      PROVE  StaleInv'
  <2>1. UNCHANGED <<signed, stale, cache>>
    BY <1>1 DEF Start, HandleMessage, Act, Synchronise, ShouldHandleAction, NewMutex,
       AcquireLock, Lock, LockError, Unlock, MarkHandled, GetActionMessage
  <2>2. ASSUME NEW g \in Handlers, g # h PROVE pc'[g] = pc[g] /\ reply'[g] = reply[g]
    BY <1>1, <2>2 DEF TypeOK, Goto, Answer, Leave, Start, HandleMessage, Act, Synchronise,
       ShouldHandleAction, NewMutex, AcquireLock, Lock, LockError, Unlock, MarkHandled,
       GetActionMessage
  <2>3. CASE h \in signed /\ ~IsAuto(h)
    <3>1. pc[h] \in {"remove", "unlock", "mark", "done", "crashed"}
      BY <1>s, <2>3 DEF SignedInv
    <3>2. Unlock(h) \/ MarkHandled(h)
      BY <1>1, <3>1 DEF Start, HandleMessage, Act, Synchronise, ShouldHandleAction, NewMutex,
         AcquireLock, Lock, LockError, GetActionMessage
    <3>3. pc[h] # "remove" /\ pc[h] # "crashed" /\ pc'[h] \in {"mark", "done"} /\ reply'[h] = reply[h]
      BY <3>2 DEF Unlock, MarkHandled, Goto, TypeOK
    <3> QED
      BY <1>s, <2>1, <2>2, <3>3, StaleKept DEF SignedInv, TypeOK
  <2>4. CASE ~(h \in signed /\ ~IsAuto(h))
    BY <1>s, <2>1, <2>2, <2>4, StaleKept DEF SignedInv, TypeOK
  <2> QED
    BY <2>3, <2>4
<1>2. ASSUME NEW h \in Handlers, Signs(h) PROVE StaleInv'
  <2>1. /\ pc[h] = "post" /\ UNCHANGED <<stale, cache>>
        /\ \A g \in Handlers : g # h => pc'[g] = pc[g] /\ reply'[g] = reply[g]
        /\ signed' \subseteq signed \cup {h} /\ signed \subseteq signed'
    BY <1>2 DEF TypeOK, Signs, SignAction, SignError, TimeOut, Retry, PostFails, Take,
       Goto, Answer, Leave
  <2>2. ASSUME ~IsAuto(h), h \in signed'
        PROVE  /\ pc'[h] \in {"remove", "unlock", "mark", "done", "crashed"}
               /\ reply'[h] = "ok" /\ HasCache(AgentOf[h]) => pc'[h] = "remove"
    <3>1. CASE SignAction(h)
      BY <2>2, <3>1 DEF SignAction, Goto, Leave, TypeOK
    <3>2. CASE SignError(h)
      BY <2>2, <3>2 DEF SignError, Goto, Answer, Leave, TypeOK
    <3> QED
      BY <1>2, <2>2, <3>1, <3>2 DEF Signs, TimeOut, Retry
  <2>3. SignedInv'
    BY <1>s, <2>1, <2>2 DEF SignedInv, TypeOK
  <2>4. NoStaleMessage'
    BY <1>s, <2>1, <2>2 DEF NoStaleMessage, TypeOK
  <2> QED
    BY <2>3, <2>4 DEF StaleInv
<1>3. ASSUME NEW h \in Handlers, RemoveMessage(h) PROVE StaleInv'
  <2>1. /\ pc[h] = "remove" /\ UNCHANGED <<signed, reply>>
        /\ \A g \in Handlers : g # h => pc'[g] = pc[g]
        /\ pc'[h] \in {"unlock", "done"}
        /\ \/ cache' = cache \ {ActionOf[h]} /\ stale' = stale \ {ActionOf[h]}
           \/ cache' = cache /\ stale' = stale \cup {ActionOf[h]}
    BY <1>3 DEF RemoveMessage, Goto, Leave, TypeOK
  <2>2. SignedInv'
    BY <1>s, <2>1 DEF SignedInv, TypeOK
  <2>3. NoStaleMessage'
    BY <1>s, <2>1 DEF NoStaleMessage, TypeOK
  <2> QED
    BY <2>2, <2>3 DEF StaleInv
<1>4. CASE Environment
  <2>1. ASSUME NEW A \in Actions, LockExpire(A) \/ MarkExpire(A) \/ MessageExpire(A)
        PROVE  StaleInv'
    <3>1. UNCHANGED <<signed, stale, pc, reply>> /\ cache' \subseteq cache
      BY <2>1 DEF LockExpire, MarkExpire, MessageExpire
    <3> QED
      BY <1>s, <3>1, StaleKept DEF SignedInv
  <2>2. ASSUME NEW a \in Agents, NEW A \in Actions, AddMessage(a, A) PROVE StaleInv'
    <3>1. UNCHANGED <<signed, pc, reply>> /\ stale \subseteq stale'
      BY <2>2 DEF AddMessage
    <3>2. CASE decision[A] # "pending"
      <4>1. cache' \subseteq cache \cup stale'
        BY <2>2, <3>2 DEF AddMessage
      <4> QED
        BY <1>s, <3>1, <4>1, StaleKept DEF SignedInv
    <3>3. CASE decision[A] = "pending"
      <4>1. cache' \subseteq cache \cup {A} /\ \A h \in signed : ActionOf[h] # A
        BY <2>2, <3>3 DEF AddMessage, DecidedOnce, DecisionInv
      <4>2. SignedInv' /\ NoStaleMessage'
        BY <1>s, <3>1, <4>1 DEF SignedInv, NoStaleMessage
      <4> QED
        BY <4>2 DEF StaleInv
    <3> QED
      BY <3>2, <3>3
  <2>3. ASSUME NEW a \in Agents, Crash(a) PROVE StaleInv'
    <3>1. UNCHANGED <<signed, stale, reply>> /\ cache' \subseteq cache
      BY <2>3 DEF Crash
    <3>2. \A h \in Handlers : pc'[h] = pc[h] \/ pc'[h] = "crashed"
      BY <2>3 DEF Crash, TypeOK
    <3> QED
      BY <1>s, <3>1, <3>2, StaleKept DEF SignedInv, TypeOK
  <2> QED BY <1>4, <2>1, <2>2, <2>3 DEF Environment
<1>5. CASE Terminated \/ UNCHANGED vars
  BY <1>s, <1>5, StaleKept DEF Terminated, vars, SignedInv
<1> QED BY <1>1, <1>2, <1>3, <1>4, <1>5 DEF Next, Continue, Sign, Signs

\* A request that decided an action and answered leaves no message of it in the
\* cache, unless the message came later or Redis failed.
THEOREM NoStaleMessageCorrect == Spec => []NoStaleMessage
<1>1. Init => StaleInv
  BY DEF Init, StaleInv, SignedInv, NoStaleMessage
<1>2. StaleInv => NoStaleMessage
  BY DEF StaleInv
<1> QED BY <1>1, <1>2, StepStale, TypeCorrect, DecidedCorrect, PTL DEF Spec

----------------------------------------------------------------------------
(***************************************************************************)
(* The retry loop: after k - 1 sleeps of RetryInterval, 2 * RetryInterval, *)
(* ... at least RetryInterval * k * (k - 1) / 2 has passed.                *)
(***************************************************************************)

\* A multiple is divided exactly.
LEMMA Multiple == ASSUME NEW r \in Nat \ {0}, NEW k \in Nat PROVE (k * r) \div r = k
<1>1. k * r \in Nat
  OBVIOUS
<1> QED
  BY <1>1

\* Half of a product that is bounded is bounded.
LEMMA HalfBound ==
    ASSUME NEW r \in Nat \ {0}, NEW n \in Nat, NEW x \in Nat, r * n < 2 * x
    PROVE  r * (n \div 2) < x
<1>1. n \div 2 \in Nat /\ 2 * (n \div 2) <= n
  OBVIOUS
<1>2. r * (2 * (n \div 2)) <= r * n
  BY <1>1
<1>3. r * (2 * (n \div 2)) = 2 * (r * (n \div 2))
  BY <1>1
<1>4. r * n \in Nat /\ r * (n \div 2) \in Nat
  BY <1>1
<1> QED
  BY <1>2, <1>3, <1>4

\* One more sleep.
LEMMA SleepSum ==
    ASSUME NEW r \in Nat \ {0}, NEW k \in Nat \ {0}, NEW e \in Nat, NEW d \in Nat,
           r * (k * (k - 1)) <= 2 * e
    PROVE  r * ((k + 1) * k) <= 2 * (e + d + k * r)
<1>1. r * ((k + 1) * k) = r * (k * (k - 1)) + 2 * (k * r)
  OBVIOUS
<1> QED BY <1>1

\* A handler in its k-th attempt; the bounds are tighter until it leaves the loop.
Before == {"idle", "check", "assign", "acquire", "locking", "get", "post"}
Attempt(h, k) ==
    /\ wait[h] = k * RetryInterval
    /\ RetryInterval * (k * (k - 1)) <= 2 * elapsed[h]
    /\ k = 1 => elapsed[h] <= MaxRequestTime
    /\ k = 1 /\ pc[h] \in Before => elapsed[h] = 0
    /\ k > 1 =>
         /\ elapsed[h] < RetryIntervalMax + RetryInterval * (k - 1) + MaxRequestTime
         /\ pc[h] \in Before => elapsed[h] < RetryIntervalMax + RetryInterval * (k - 1)
         /\ RetryInterval * ((k - 1) * (k - 2)) < 2 * RetryIntervalMax
BackoffInv == \A h \in Handlers : \E k \in Nat \ {0} : Attempt(h, k)

\* Only a failed POST of the auto approver touches the timer.
LEMMA AttemptKept ==
    ASSUME NEW h, NEW k, Attempt(h, k), elapsed'[h] = elapsed[h], wait'[h] = wait[h],
           pc'[h] \in Before => pc[h] \in Before
    PROVE  Attempt(h, k)'
BY DEF Attempt

LEMMA StepBackoff == TypeOK /\ BackoffInv /\ [Next]_vars => BackoffInv'
<1> SUFFICES ASSUME TypeOK, BackoffInv, [Next]_vars PROVE BackoffInv'
  OBVIOUS
<1> USE HandlersAssumption, BoundsAssumption
<1> USE DEF handlerVars, mutexVars, redisVars, worldVars, historyVars
<1>q. ASSUME UNCHANGED <<elapsed, wait>>, \A h \in Handlers : pc'[h] \in Before => pc[h] \in Before
      PROVE  BackoffInv'
  BY <1>q, AttemptKept DEF BackoffInv
<1>1. ASSUME NEW h \in Handlers, Start(h) \/ Synchronise(h) \/ GetActionMessage(h)
      PROVE  BackoffInv'
  <2>1. UNCHANGED <<elapsed, wait>>
    BY <1>1 DEF Start, HandleMessage, Act, Synchronise, ShouldHandleAction, NewMutex,
       AcquireLock, Lock, LockError, Unlock, MarkHandled, GetActionMessage
  <2>2. \A g \in Handlers : pc'[g] \in Before => pc[g] \in Before
    BY <1>1 DEF TypeOK, Before, Goto, Leave, Start, HandleMessage, Act, Synchronise,
       ShouldHandleAction, NewMutex, AcquireLock, Lock, LockError, Unlock, MarkHandled,
       GetActionMessage
  <2> QED
    BY <1>q, <2>1, <2>2
<1>2. ASSUME NEW h \in Handlers, SignAction(h) \/ SignError(h) \/ RemoveMessage(h)
      PROVE  BackoffInv'
  <2>1. UNCHANGED <<elapsed, wait>>
    BY <1>2 DEF SignAction, SignError, RemoveMessage
  <2>2. \A g \in Handlers : pc'[g] \in Before => pc[g] \in Before
    BY <1>2 DEF TypeOK, Before, Goto, Leave, SignAction, SignError, PostFails, RemoveMessage
  <2> QED
    BY <1>q, <2>1, <2>2
<1>3. ASSUME NEW h \in Handlers, TimeOut(h) PROVE BackoffInv'
  <2>1. PICK d \in 0 .. MaxRequestTime : elapsed' = [elapsed EXCEPT ![h] = @ + d]
    BY <1>3 DEF TimeOut
  <2>2. /\ elapsed'[h] = elapsed[h] + d /\ elapsed[h] \in Nat /\ wait' = wait
        /\ pc[h] = "post" /\ pc'[h] \notin Before
        /\ \A g \in Handlers : g # h => pc'[g] = pc[g] /\ elapsed'[g] = elapsed[g]
    BY <1>3, <2>1 DEF TimeOut, PostFails, Goto, Leave, TypeOK, Before
  <2>3. PICK k \in Nat \ {0} : Attempt(h, k)
    BY DEF BackoffInv
  <2>4. Attempt(h, k)'
    <3>1. /\ pc[h] \in Before /\ RetryInterval * (k * (k - 1)) \in Int
          /\ RetryInterval * (k - 1) \in Int
      BY <2>2 DEF Before
    <3>2. wait'[h] = k * RetryInterval
      BY <2>2, <2>3 DEF Attempt
    <3>3. RetryInterval * (k * (k - 1)) <= 2 * elapsed'[h]
      BY <2>2, <2>3, <3>1 DEF Attempt
    <3>4. k = 1 => elapsed'[h] <= MaxRequestTime
      BY <2>2, <2>3, <3>1 DEF Attempt
    <3>5. k > 1 =>
            /\ elapsed'[h] < RetryIntervalMax + RetryInterval * (k - 1) + MaxRequestTime
            /\ RetryInterval * ((k - 1) * (k - 2)) < 2 * RetryIntervalMax
      BY <2>2, <2>3, <3>1 DEF Attempt
    <3> QED
      BY <2>2, <3>2, <3>3, <3>4, <3>5 DEF Attempt
  <2> QED
    BY <2>2, <2>4, AttemptKept DEF BackoffInv
<1>4. ASSUME NEW h \in Handlers, Retry(h) PROVE BackoffInv'
  <2>1. PICK d \in 0 .. MaxRequestTime :
           /\ elapsed[h] + d < RetryIntervalMax
           /\ elapsed' = [elapsed EXCEPT ![h] = @ + d + wait[h]]
    BY <1>4 DEF Retry
  <2>2. /\ elapsed'[h] = elapsed[h] + d + wait[h] /\ elapsed[h] \in Nat
        /\ wait'[h] = wait[h] + RetryInterval /\ pc' = pc
        /\ \A g \in Handlers : g # h => elapsed'[g] = elapsed[g] /\ wait'[g] = wait[g]
    BY <1>4, <2>1 DEF Retry, TypeOK
  <2>3. PICK k \in Nat \ {0} : Attempt(h, k)
    BY DEF BackoffInv
  <2>a. wait[h] = k * RetryInterval /\ RetryInterval * (k * (k - 1)) <= 2 * elapsed[h]
    BY <2>3 DEF Attempt
  <2>4. Attempt(h, k + 1)'
    <3>1. wait'[h] = (k + 1) * RetryInterval
      BY <2>2, <2>a
    <3>2. RetryInterval * ((k + 1) * (k + 1 - 1)) <= 2 * elapsed'[h]
      <4>1. RetryInterval * ((k + 1) * k) <= 2 * (elapsed[h] + d + k * RetryInterval)
        BY <2>2, <2>a, SleepSum
      <4> QED
        BY <2>2, <2>a, <4>1
    <3>3. elapsed'[h] < RetryIntervalMax + RetryInterval * (k + 1 - 1)
      BY <2>1, <2>2, <2>a
    <3>4. elapsed'[h] < RetryIntervalMax + RetryInterval * (k + 1 - 1) + MaxRequestTime
      <4>1. RetryInterval * (k + 1 - 1) \in Int /\ elapsed'[h] \in Int
        BY <2>2, <2>a
      <4> QED
        BY <3>3, <4>1
    <3>5. RetryInterval * ((k + 1 - 1) * (k + 1 - 2)) < 2 * RetryIntervalMax
      <4>1. (k + 1 - 1) * (k + 1 - 2) = k * (k - 1) /\ RetryInterval * (k * (k - 1)) \in Int
        OBVIOUS
      <4> QED
        BY <2>1, <2>2, <2>a, <4>1
    <3> QED
      BY <3>1, <3>2, <3>3, <3>4, <3>5 DEF Attempt
  <2>5. \E j \in Nat \ {0} : Attempt(h, j)'
    <3>1. k + 1 \in Nat \ {0}
      OBVIOUS
    <3> QED
      BY <2>4, <3>1
  <2> QED
    BY <2>2, <2>5, AttemptKept DEF BackoffInv
<1>5. CASE Environment
  <2>1. ASSUME NEW A \in Actions, LockExpire(A) \/ MarkExpire(A) \/ MessageExpire(A)
        PROVE  BackoffInv'
    BY <1>q, <2>1 DEF LockExpire, MarkExpire, MessageExpire
  <2>2. ASSUME NEW a \in Agents, NEW A \in Actions, AddMessage(a, A) PROVE BackoffInv'
    BY <1>q, <2>2 DEF AddMessage
  <2>3. ASSUME NEW a \in Agents, Crash(a) PROVE BackoffInv'
    <3>1. UNCHANGED <<elapsed, wait>>
      BY <2>3 DEF Crash
    <3>2. \A g \in Handlers : pc'[g] = pc[g] \/ pc'[g] = "crashed"
      BY <2>3 DEF Crash, TypeOK
    <3> QED
      BY <1>q, <3>1, <3>2 DEF Before
  <2> QED BY <1>5, <2>1, <2>2, <2>3 DEF Environment
<1>6. CASE Terminated \/ UNCHANGED vars
  BY <1>q, <1>6 DEF Terminated, vars
<1> QED BY <1>1, <1>2, <1>3, <1>4, <1>5, <1>6 DEF Next, Continue, Sign

\* The number of the attempt is what BackoffBound divides out of the next sleep.
LEMMA AttemptBound == TypeOK /\ BackoffInv => BackoffBound
<1> SUFFICES ASSUME TypeOK, BackoffInv, NEW h \in Handlers
             PROVE  LET k == wait[h] \div RetryInterval IN
                    /\ k = 1 => elapsed[h] <= MaxRequestTime
                    /\ k > 1 =>
                        /\ elapsed[h] < RetryIntervalMax + RetryInterval * (k - 1) + MaxRequestTime
                        /\ RetryInterval * (((k - 1) * (k - 2)) \div 2) < RetryIntervalMax
  BY DEF BackoffBound
<1> USE BoundsAssumption
<1>1. PICK k \in Nat \ {0} : Attempt(h, k)
  BY DEF BackoffInv
<1>2. wait[h] \div RetryInterval = k
  BY <1>1, Multiple DEF Attempt
<1>3. /\ k = 1 => elapsed[h] <= MaxRequestTime
      /\ k > 1 => elapsed[h] < RetryIntervalMax + RetryInterval * (k - 1) + MaxRequestTime
  BY <1>1 DEF Attempt
<1>4. k > 1 => RetryInterval * (((k - 1) * (k - 2)) \div 2) < RetryIntervalMax
  <2>1. k > 1 => RetryInterval * ((k - 1) * (k - 2)) < 2 * RetryIntervalMax
    BY <1>1 DEF Attempt
  <2>2. k > 1 => (k - 1) * (k - 2) \in Nat
    OBVIOUS
  <2> QED
    BY <2>1, <2>2, HalfBound
<1> QED
  BY <1>2, <1>3, <1>4

\* How long a handler may pause next says how often it tried.
LEMMA BackoffCorrect == Spec => []BackoffInv
<1>1. Init => BackoffInv
  <2> SUFFICES ASSUME Init, NEW h \in Handlers PROVE Attempt(h, 1)
    BY DEF BackoffInv
  <2> QED
    BY BoundsAssumption DEF Init, Attempt
<1> QED BY <1>1, StepBackoff, TypeCorrect, PTL DEF Spec

\* The auto approver's retry loop stops, and it posts a bounded number of times.
THEOREM BackoffBoundCorrect == Spec => []BackoffBound
BY BackoffCorrect, AttemptBound, TypeCorrect, PTL

----------------------------------------------------------------------------
(***************************************************************************)
(* The handlers' steps come to an end: each goes down the code, and the    *)
(* one loop uses up its time.                                              *)
(***************************************************************************)
LEMMA EffortType ==
    ASSUME TypeOK, NEW h \in Handlers
    PROVE  Ahead(h) \in Nat /\ TimeLeft(h) \in Nat
BY BoundsAssumption DEF TypeOK, Ahead, TimeLeft

\* Time that passes leaves less of it.
LEMMA LessTime ==
    ASSUME TypeOK, TypeOK', NEW h \in Handlers, elapsed'[h] >= elapsed[h]
    PROVE  TimeLeft(h)' <= TimeLeft(h)
BY BoundsAssumption DEF TypeOK, TimeLeft

\* Pauses take time.
LEMMA Pauses == ASSUME TypeOK, BackoffInv, NEW h \in Handlers PROVE wait[h] \in Nat \ {0}
<1>1. PICK k \in Nat \ {0} : wait[h] = k * RetryInterval
  BY DEF BackoffInv, Attempt
<1>2. (k * RetryInterval) \div RetryInterval = k
  BY Multiple, BoundsAssumption
<1> QED
  BY <1>1, <1>2, BoundsAssumption DEF TypeOK

\* What a handler does brings it ahead; the others stay where they are.
LEMMA HandlerAhead ==
    ASSUME TypeOK, TypeOK', BackoffInv, NEW h \in Handlers, Start(h) \/ Continue(h)
    PROVE  /\ Effort(h)' < Effort(h)
           /\ \A g \in Handlers : g # h => pc'[g] = pc[g] /\ elapsed'[g] = elapsed[g]
<1> USE HandlersAssumption, BoundsAssumption
<1> USE DEF TypeOK, Goto, Leave, handlerVars
<1>1. ASSUME elapsed'[h] >= elapsed[h], Ahead(h)' < Ahead(h) PROVE Effort(h)' < Effort(h)
  <2>1. TimeLeft(h)' <= TimeLeft(h)
    BY <1>1, LessTime
  <2>2. Ahead(h) \in Nat /\ TimeLeft(h) \in Nat /\ Ahead(h)' \in Nat /\ TimeLeft(h)' \in Nat
    BY DEF Ahead, TimeLeft
  <2> QED
    BY <1>1, <2>1, <2>2 DEF Effort
<1>2. CASE Start(h) \/ Synchronise(h) \/ GetActionMessage(h) \/ SignAction(h)
           \/ SignError(h) \/ RemoveMessage(h)
  <2>1. elapsed' = elapsed
    BY <1>2 DEF Start, HandleMessage, Act, Synchronise, ShouldHandleAction, NewMutex,
       AcquireLock, Lock, LockError, Unlock, MarkHandled, GetActionMessage, SignAction,
       SignError, RemoveMessage
  <2>2. \A g \in Handlers : g # h => pc'[g] = pc[g]
    BY <1>2 DEF Start, HandleMessage, Act, Synchronise, ShouldHandleAction, NewMutex,
       AcquireLock, Lock, LockError, Unlock, MarkHandled, GetActionMessage, SignAction,
       SignError, PostFails, RemoveMessage
  <2>3. Ahead(h)' < Ahead(h)
    <3>1. CASE Start(h)
      BY <3>1 DEF Start, HandleMessage, Act, Ahead
    <3>2. CASE Synchronise(h)
      BY <3>2 DEF Synchronise, ShouldHandleAction, NewMutex, AcquireLock, Lock, LockError,
         Unlock, MarkHandled, Ahead
    <3>3. CASE GetActionMessage(h) \/ SignAction(h) \/ SignError(h) \/ RemoveMessage(h)
      BY <3>3 DEF GetActionMessage, SignAction, SignError, PostFails, RemoveMessage, Ahead
    <3> QED
      BY <1>2, <3>1, <3>2, <3>3
  <2> QED
    BY <1>1, <2>1, <2>2, <2>3
<1>3. CASE TimeOut(h)
  <2>1. elapsed'[h] >= elapsed[h] /\ Ahead(h)' < Ahead(h)
    BY <1>3 DEF TimeOut, PostFails, Ahead
  <2> QED
    BY <1>1, <1>3, <2>1 DEF TimeOut, PostFails
<1>4. CASE Retry(h)
  <2>1. PICK d \in 0 .. MaxRequestTime :
           /\ elapsed[h] + d < RetryIntervalMax
           /\ elapsed' = [elapsed EXCEPT ![h] = @ + d + wait[h]]
    BY <1>4 DEF Retry
  <2>2. wait[h] \in Nat \ {0}
    BY Pauses
  <2>3. /\ pc' = pc /\ elapsed[h] \in Nat /\ elapsed'[h] = elapsed[h] + d + wait[h]
        /\ \A g \in Handlers : g # h => elapsed'[g] = elapsed[g]
    BY <1>4, <2>1 DEF Retry
  <2>4. Ahead(h)' = Ahead(h) /\ Ahead(h) \in Nat
    BY <2>3 DEF Ahead
  <2>5. TimeLeft(h)' < TimeLeft(h) /\ TimeLeft(h) \in Nat /\ TimeLeft(h)' \in Nat
    <3>1. elapsed[h] < RetryIntervalMax /\ elapsed[h] < elapsed'[h] /\ elapsed'[h] \in Nat
      <4>1. d \in Nat /\ elapsed[h] + d < RetryIntervalMax
        BY <2>1
      <4> HIDE DEF TypeOK
      <4> QED
        BY <2>2, <2>3, <4>1
    <3> QED
      BY <2>3, <3>1 DEF TimeLeft
  <2> QED
    BY <2>3, <2>4, <2>5 DEF Effort
<1> QED
  BY <1>2, <1>3, <1>4 DEF Continue, Sign

LEMMA StepForward ==
    TypeOK /\ TypeOK' /\ BackoffInv /\ [Next]_vars =>
        \A h \in Handlers :
           /\ Effort(h)' <= Effort(h)
           /\ Start(h) \/ Continue(h) => Effort(h)' < Effort(h)
<1> SUFFICES ASSUME TypeOK, TypeOK', BackoffInv, [Next]_vars, NEW h \in Handlers
             PROVE  Effort(h)' <= Effort(h)
  BY HandlerAhead
<1>e. Effort(h) \in Nat /\ Effort(h)' \in Nat
  BY BoundsAssumption DEF TypeOK, Effort, Ahead, TimeLeft
<1>1. ASSUME elapsed'[h] = elapsed[h], pc'[h] = pc[h] \/ pc'[h] = "crashed"
      PROVE  Effort(h)' <= Effort(h)
  <2>1. Ahead(h) \in Nat /\ Ahead(h)' \in Nat /\ Ahead(h)' <= Ahead(h)
    BY <1>1 DEF Ahead
  <2>2. TimeLeft(h)' = TimeLeft(h) /\ TimeLeft(h) \in Nat
    BY <1>1, EffortType DEF TimeLeft
  <2> QED
    BY <2>1, <2>2 DEF Effort
<1>2. ASSUME NEW g \in Handlers, Start(g) \/ Continue(g) PROVE Effort(h)' <= Effort(h)
  <2>1. CASE g = h
    BY <1>2, <1>e, <2>1, HandlerAhead
  <2>2. CASE g # h
    BY <1>1, <1>2, <2>2, HandlerAhead
  <2> QED
    BY <2>1, <2>2
<1>3. CASE Environment
  BY <1>1, <1>3 DEF Environment, LockExpire, MarkExpire, MessageExpire, AddMessage, Crash,
     TypeOK, handlerVars
<1>4. CASE Terminated \/ UNCHANGED vars
  BY <1>1, <1>4 DEF Terminated, vars, handlerVars
<1> QED
  BY <1>2, <1>3, <1>4 DEF Next

\* A handler takes 11 + RetryIntervalMax steps at most, whatever the others do.
THEOREM ForwardCorrect == Spec => Forward
<1>1. TypeOK /\ TypeOK' /\ BackoffInv /\ [Next]_vars =>
        [\A h \in Handlers :
            /\ Effort(h)' <= Effort(h)
            /\ Start(h) \/ Continue(h) => Effort(h)' < Effort(h)]_vars
  BY StepForward
<1> QED
  BY <1>1, TypeCorrect, BackoffCorrect, PTL DEF Spec, Forward
====
