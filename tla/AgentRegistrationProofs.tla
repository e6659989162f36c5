---- MODULE AgentRegistrationProofs ----
(***************************************************************************)
(* For any number of requests, ids and crashes: the program can be started *)
(* again unless a write to its store was cut short, and as long as         *)
(* requests run one after the other, an agent it registered is found       *)
(* again, its keys are the ones in use and its hub runs once.              *)
(***************************************************************************)
EXTENDS AgentRegistration, TLAPS

\* Where a request is that runs.
Running == Entered \cup {"info", "id", "name", "start"}

\* Requests run in a process that serves, and the lock of the store is held by
\* a request that saves.
RunInv ==
    /\ \A r \in Requests : pc[r] \in Running => process = "up"
    /\ writer # None => pc[writer] \in {"info", "id"}

\* The map has the info of the id it names, of the id a request is about to
\* name, and of the request whose value is being written.
DataInv ==
    /\ data.id # None => data.info[data.id] # None
    /\ \A r \in Requests : pc[r] = "id" => data.info[IdOf[r]] # None
    /\ writer # None => data.info[IdOf[writer]] # None

\* So has a file that can be read.
FileInv == file # Torn /\ file.id # None => file.info[file.id] # None

----------------------------------------------------------------------------
\* Saving a value of a request keeps the types of the store.
LEMMA PutType ==
    ASSUME TypeOK, NEW r \in Requests
    PROVE  Put(r) \in Stores
  BY RequestsAssumption DEF TypeOK, Put, Stores, Known

LEMMA EmptyType == EmptyStore \in Stores
  BY DEF EmptyStore, Stores, Known

\* Type correctness of the whole module.
THEOREM TypeCorrect == Spec => []TypeOK
<1> USE RequestsAssumption, AbsentAssumption, CrashesAssumption
<1>1. Init => TypeOK
  BY EmptyType DEF Init, TypeOK, Known, Entered, Final
<1>2. TypeOK /\ [Next]_vars => TypeOK'
  <2> SUFFICES ASSUME TypeOK, [Next]_vars PROVE TypeOK'
    OBVIOUS
  <2>1. CASE Load
    BY <2>1 DEF TypeOK, Load, memory, world, Stores, Known, Decodable, AgentFound
  <2>2. CASE InitiateFound \/ StartFound \/ Listen \/ Crash
    BY <2>2, EmptyType DEF TypeOK, InitiateFound, StartFound, Listen, Crash, Forget, memory, world, Known, Final
  <2>3. ASSUME NEW r \in Requests, Check(r) \/ Register(r) PROVE TypeOK'
    <3> USE DEF TypeOK, Goto, Fail, memory, world, Known, Entered, Final
    <3>1. CASE Check(r)
      BY <3>1 DEF Check
    <3>2. CASE Initiate(r) \/ UpdateAPIKey(r) \/ SetKey(r) \/ Publish(r) \/ GetAgentName(r)
      BY <3>2 DEF Initiate, UpdateAPIKey, SetKey, Publish, GetAgentName
    <3>3. CASE ActionApprove(r)
      BY <3>3 DEF ActionApprove
    <3>4. CASE Start(r)
      BY <3>4 DEF Start
    <3> QED
      BY <2>3, <3>1, <3>2, <3>3, <3>4 DEF Register
  <2>4. ASSUME NEW r \in Requests, Save(r) PROVE TypeOK'
    <3>1. Put(r) \in Stores
      BY PutType
    <3> HIDE DEF Stores
    <3> QED
      BY <2>4, <3>1 DEF TypeOK, Save, BeginSet, EndSet, OpenFails, WriteFails, Saving, Goto, Fail, world, Known, Entered, Final
  <2>5. CASE UNCHANGED vars
    BY <2>5 DEF TypeOK, vars, memory, world
  <2> QED
    BY <2>1, <2>2, <2>3, <2>4, <2>5 DEF Next, Boot, Terminated
<1> QED
  BY <1>1, <1>2, PTL DEF Spec

----------------------------------------------------------------------------
\* A process that fails to start finds a file that was not written to the end
\* (agent_store.go:42-65, main.go:136-145).
THEOREM RestartableCorrect == Spec => []Restartable
<1> USE RequestsAssumption, AbsentAssumption
<1>1. Init => RunInv /\ DataInv /\ FileInv /\ Restartable
  BY DEF Init, RunInv, DataInv, FileInv, Restartable, EmptyStore, Running, Entered
<1>2. TypeOK /\ TypeOK' /\ RunInv /\ DataInv /\ FileInv /\ Restartable /\ [Next]_vars
        => RunInv' /\ DataInv' /\ FileInv' /\ Restartable'
  <2> SUFFICES ASSUME TypeOK, TypeOK', RunInv, DataInv, FileInv, Restartable, [Next]_vars
               PROVE  RunInv' /\ DataInv' /\ FileInv' /\ Restartable'
    OBVIOUS
  <2> USE DEF RunInv, DataInv, FileInv, Restartable
  <2>1. CASE Load
    <3>1. process = "off" /\ UNCHANGED <<pc, writer, file>>
      BY <2>1 DEF Load, memory, world
    <3>2. /\ \A r \in Requests : pc[r] \notin Running /\ pc[r] # "id"
          /\ writer = None
      BY <3>1 DEF TypeOK, Known, Running
    <3>3. CASE Decodable /\ (AgentFound => InfoFound)
      <4>1. data' = file /\ process' # "dead" /\ (file.id # None => file.info[file.id] # None)
        BY <2>1, <3>3 DEF Load, AgentFound, InfoFound
      <4> QED
        BY <3>1, <3>2, <4>1
    <3>4. CASE ~(Decodable /\ (AgentFound => InfoFound))
      <4>1. UNCHANGED data
        BY <2>1, <3>4 DEF Load, memory
      <4>2. file = Torn
        BY <3>4 DEF Decodable, AgentFound, InfoFound
      <4> QED
        BY <3>1, <3>2, <4>1, <4>2
    <3> QED
      BY <3>3, <3>4
  <2>2. CASE InitiateFound \/ StartFound \/ Listen \/ Crash
    BY <2>2 DEF TypeOK, InitiateFound, StartFound, Listen, Crash, Forget, EmptyStore, memory, world, Running, Entered, Final
  <2>3. ASSUME NEW r \in Requests, Check(r) \/ Register(r)
        PROVE  RunInv' /\ DataInv' /\ FileInv' /\ Restartable'
    <3>1. /\ UNCHANGED <<process, data, writer, file>>
          /\ \A s \in Requests : s # r => pc'[s] = pc[s]
          /\ pc[r] \notin {"info", "id"} /\ pc'[r] # "id"
          /\ pc'[r] \in Running => process = "up"
      BY <2>3 DEF TypeOK, Check, Register, Initiate, UpdateAPIKey, SetKey, ActionApprove, Publish,
                  GetAgentName, Start, Goto, Fail, memory, world, Running, Entered
    <3>2. writer # None => writer \in Requests /\ writer # r
      BY <3>1 DEF TypeOK, Known
    <3>3. RunInv'
      <4>1. \A s \in Requests : pc'[s] \in Running => process' = "up"
        BY <3>1
      <4> QED
        BY <3>1, <3>2, <4>1
    <3>4. DataInv'
      <4>1. \A s \in Requests : pc'[s] = "id" => pc[s] = "id"
        BY <3>1
      <4>2. data' = data /\ writer' = writer
        BY <3>1
      <4> QED
        BY <4>1, <4>2
    <3>5. FileInv' /\ Restartable'
      <4>1. file' = file /\ process' = process
        BY <3>1
      <4> QED
        BY <4>1
    <3> QED
      BY <3>3, <3>4, <3>5
  <2>4. ASSUME NEW r \in Requests, Save(r)
        PROVE  RunInv' /\ DataInv' /\ FileInv' /\ Restartable'
    <3>1. process = "up" /\ process' = "up" /\ pc[r] \in {"info", "id"}
      BY <2>4 DEF Save, BeginSet, EndSet, OpenFails, WriteFails, Saving, world, Running
    <3>2. CASE BeginSet(r)
      BY <2>4, <3>1, <3>2 DEF TypeOK, BeginSet, Saving, Put, Stores, Known
    <3>3. CASE EndSet(r)
      BY <2>4, <3>1, <3>3 DEF TypeOK, EndSet, Goto, Stores, Known
    <3>4. CASE OpenFails(r)
      BY <2>4, <3>1, <3>4 DEF TypeOK, OpenFails, Put, Goto, Fail, Stores, Known, world, Running, Entered
    <3>5. CASE WriteFails(r)
      BY <2>4, <3>1, <3>5 DEF TypeOK, WriteFails, Goto, Fail, Stores, Known, world, Running, Entered
    <3> QED
      BY <2>4, <3>2, <3>3, <3>4, <3>5 DEF Save
  <2>5. CASE UNCHANGED vars
    BY <2>5 DEF vars, memory, world
  <2> QED
    BY <2>1, <2>2, <2>3, <2>4, <2>5 DEF Next, Boot, Terminated
<1> QED
  BY <1>1, <1>2, TypeCorrect, PTL DEF Spec
----------------------------------------------------------------------------
\* What holds as long as requests run one after the other.  Past is where a
\* request is that published its agent.
Past == {"info", "id", "name", "start"}

\* A request that has not published its agent is alone, and there is no agent;
\* one that has is the agent.
TurnInv ==
    /\ \A r, s \in Requests : pc[r] \in Entered /\ pc[s] \in Entered => r = s
    /\ \A r \in Requests : pc[r] \in Entered => agentInfo = None
    /\ \A r \in Requests : pc[r] \in Past => agentInfo = r

\* The hub was started for an agent, by the program's start or by the request
\* that registered it.
HubInv ==
    /\ hubs \in {0, 1}
    /\ process \in {"off", "dead"} => agentInfo = None
    /\ process \in {"initiate", "start"} => agentInfo # None /\ hubs = 0
    /\ agentInfo = None => hubs = 0
    /\ \A r \in Requests : pc[r] \in Past => hubs = 0

\* The backend has the agent's key, the signer and the provider were set to the
\* agent, and a request on its way has set what it passed.
KeysInv ==
    /\ agentInfo # None => backend[IdOf[agentInfo]] = agentInfo
    /\ agentInfo # None /\ process # "initiate" =>
          signerKey = agentInfo /\ credentials = agentInfo
    /\ \A r \in Requests :
          /\ pc[r] \in {"update", "key", "approve", "publish"} => credentials = r
          /\ pc[r] \in {"approve", "publish"} => signerKey = r
          /\ pc[r] = "publish" => backend[IdOf[r]] = r

\* The map names no other agent than the one in memory.
MapInv ==
    /\ data.id # None =>
          /\ agentInfo # None
          /\ data.id = IdOf[agentInfo] /\ data.info[data.id] = agentInfo
    /\ \A r \in Requests : pc[r] = "id" => data.info[IdOf[r]] = r
    /\ writer # None =>
          /\ pc[writer] = "info" => data.info[IdOf[writer]] = writer
          /\ pc[writer] = "id" => data.id = IdOf[writer]

\* Nor does the file, and it has the agent of a request that was answered.
Stored(r) == file # Torn /\ file.id = IdOf[r] /\ file.info[IdOf[r]] = r
StoredInv ==
    /\ file # Torn /\ file.id # None =>
          /\ file.info[file.id] \in Requests
          /\ Stored(file.info[file.id])
          /\ backend[file.id] = file.info[file.id]
          /\ process \notin {"off", "dead"} => agentInfo = file.info[file.id]
    /\ \A r \in Requests :
          pc[r] \in {"name", "start", "registered"} => Stored(r) /\ writer = None

AloneInv == TurnInv /\ HubInv /\ KeysInv /\ MapInv /\ StoredInv

IdentityInv == RunInv /\ (raced = "no" => AloneInv)

\* Requests run in a process that serves.
LEMMA RunKept == TypeOK /\ TypeOK' /\ RunInv /\ [Next]_vars => RunInv'
<1> SUFFICES ASSUME TypeOK, TypeOK', RunInv, [Next]_vars PROVE RunInv'
  OBVIOUS
<1> USE AbsentAssumption DEF RunInv, TypeOK, Known, Running, Entered, Final
<1>1. CASE Boot
  BY <1>1 DEF Boot, Load, InitiateFound, StartFound, Listen, Forget, memory, world
<1>2. CASE Crash
  BY <1>2 DEF Crash, Forget
<1>3. ASSUME NEW r \in Requests, Check(r) \/ Register(r) PROVE RunInv'
  BY <1>3 DEF Check, Register, Initiate, UpdateAPIKey, SetKey, ActionApprove, Publish,
              GetAgentName, Start, Goto, Fail, memory, world
<1>4. ASSUME NEW r \in Requests, Save(r) PROVE RunInv'
  BY <1>4 DEF Save, BeginSet, EndSet, OpenFails, WriteFails, Saving, Goto, Fail, world
<1>5. CASE UNCHANGED vars
  BY <1>5 DEF vars, memory
<1> QED
  BY <1>1, <1>2, <1>3, <1>4, <1>5 DEF Next, Terminated

\* The program's start, and its end.
LEMMA BootAlone ==
    ASSUME TypeOK, RunInv, AloneInv, Boot \/ Crash
    PROVE  AloneInv'
<1> USE RequestsAssumption, AbsentAssumption
        DEF TypeOK, AloneInv, TurnInv, HubInv, KeysInv, MapInv, StoredInv, Stored, Known, memory, world
<1>1. CASE Load
  <2>1. /\ process = "off" /\ agentInfo = None /\ hubs = 0
        /\ UNCHANGED <<credentials, signerKey, writer, hubs, pc, file, backend>>
    BY <1>1 DEF Load
  <2>2. \A r \in Requests : pc[r] \notin Running
    BY <2>1 DEF RunInv
  <2>3. writer = None
    BY <2>1, <2>2 DEF RunInv, Running
  <2>4. CASE Decodable /\ AgentFound
    <3>1. /\ file # Torn /\ file.id # None
          /\ file.info[file.id] \in Requests /\ Stored(file.info[file.id])
      BY <2>4 DEF Decodable, AgentFound
    <3>2. data' = file /\ agentInfo' = file.info[file.id] /\ process' = "initiate"
      BY <1>1, <2>4, <3>1 DEF Load, InfoFound, AgentFound
    <3> QED
      BY <2>1, <2>2, <2>3, <3>1, <3>2 DEF Running, Entered, Past
  <2>5. CASE Decodable /\ ~AgentFound
    <3>1. file # Torn /\ file.id = None
      BY <2>5 DEF Decodable, AgentFound
    <3>2. data' = file /\ agentInfo' = None /\ process' = "listen"
      BY <1>1, <2>5 DEF Load
    <3> QED
      BY <2>1, <2>2, <2>3, <3>1, <3>2 DEF Running, Entered, Past
  <2>6. CASE ~Decodable
    <3>1. UNCHANGED <<agentInfo, data>> /\ process' = "dead"
      BY <1>1, <2>6 DEF Load
    <3> QED
      BY <2>1, <2>2, <2>3, <2>6, <3>1 DEF Decodable, Running, Entered, Past
  <2> QED
    BY <2>4, <2>5, <2>6
<1>2. ASSUME UNCHANGED <<file, backend>>, Forget, process' = "off",
             \A r \in Requests : pc'[r] \notin Running,
             \A r \in Requests : pc'[r] = "registered" => pc[r] = "registered"
      PROVE  AloneInv'
  BY <1>2 DEF Forget, EmptyStore, Running, Entered, Past
<1>3. CASE Crash
  <2>1. \A r \in Requests : pc'[r] \notin Running /\ (pc'[r] = "registered" => pc[r] = "registered")
    BY <1>3 DEF Crash, Running, Entered, Final
  <2> QED
    BY <1>2, <1>3, <2>1 DEF Crash
<1>4. CASE InitiateFound \/ StartFound
  <2>1. \A r \in Requests : pc[r] \notin Running /\ pc' = pc
    BY <1>4 DEF InitiateFound, StartFound, RunInv
  <2>2. CASE process' = "off"
    BY <1>2, <1>4, <2>1, <2>2 DEF InitiateFound, StartFound
  <2>3. CASE InitiateFound /\ process' = "start"
    BY <2>1, <2>3 DEF InitiateFound, Running, Entered, Past
  <2>4. CASE StartFound /\ process' = "listen"
    BY <2>1, <2>4 DEF StartFound, Running, Entered, Past
  <2> QED
    BY <1>4, <2>2, <2>3, <2>4 DEF InitiateFound, StartFound
<1>5. CASE Listen
  BY <1>5 DEF Listen
<1> QED
  BY <1>1, <1>3, <1>4, <1>5 DEF Boot

\* A request up to the moment it publishes its agent, and after it has saved it.
LEMMA RegisterAlone ==
    ASSUME TypeOK, TypeOK', RunInv, AloneInv, NEW r \in Requests, Register(r)
    PROVE  AloneInv'
<1> USE RequestsAssumption, AbsentAssumption
        DEF TypeOK, AloneInv, TurnInv, HubInv, KeysInv, MapInv, StoredInv, Stored, Known, memory, world,
            Goto, Fail, Entered, Past, Final
<1>1. process = "up"
  BY DEF RunInv, Running, Register, Initiate, UpdateAPIKey, SetKey, ActionApprove, Publish,
         GetAgentName, Start
<1>2. CASE Initiate(r)
  BY <1>1, <1>2 DEF Initiate
<1>3. CASE UpdateAPIKey(r)
  BY <1>1, <1>3 DEF UpdateAPIKey
<1>4. CASE SetKey(r)
  BY <1>1, <1>4 DEF SetKey
<1>5. CASE ActionApprove(r)
  BY <1>1, <1>5 DEF ActionApprove
<1>6. CASE Publish(r)
  <2>1. /\ agentInfo' = r /\ pc' = [pc EXCEPT ![r] = "info"] /\ agentInfo = None
        /\ UNCHANGED <<process, credentials, signerKey, data, writer, hubs, file, backend>>
        /\ \A s \in Requests : s # r => pc[s] \notin Entered /\ pc[s] \notin Past
        /\ pc[r] = "publish"
    BY <1>6 DEF Publish
  <2>2. TurnInv'
    BY <2>1
  <2>3. HubInv'
    BY <1>1, <2>1
  <2>4. KeysInv'
    BY <2>1
  <2>5. MapInv'
    BY <1>1, <2>1 DEF RunInv
  <2>6. StoredInv'
    BY <1>1, <2>1
  <2> QED
    BY <2>2, <2>3, <2>4, <2>5, <2>6
<1>7. CASE GetAgentName(r)
  BY <1>1, <1>7 DEF GetAgentName
<1>8. CASE Start(r)
  BY <1>1, <1>8 DEF Start
<1> QED
  BY <1>2, <1>3, <1>4, <1>5, <1>6, <1>7, <1>8 DEF Register

\* A request that saves its agent.
LEMMA SaveAlone ==
    ASSUME TypeOK, TypeOK', RunInv, AloneInv, NEW r \in Requests, Save(r)
    PROVE  AloneInv'
<1> USE RequestsAssumption, AbsentAssumption
        DEF TypeOK, AloneInv, TurnInv, HubInv, KeysInv, MapInv, StoredInv, Stored, Known, memory, world,
            Goto, Fail, Entered, Past, Final, Saving
<1>1. process = "up" /\ agentInfo = r
  BY DEF RunInv, Running, Save, BeginSet, EndSet, OpenFails, WriteFails
<1>2. CASE BeginSet(r)
  BY <1>1, <1>2 DEF BeginSet, Put, Stores
<1>3. CASE EndSet(r)
  <2>1. /\ UNCHANGED <<process, agentInfo, credentials, signerKey, data, hubs, backend>>
        /\ file' = data /\ writer' = None /\ writer = r
        /\ pc[r] \in {"info", "id"}
        /\ pc' = [pc EXCEPT ![r] = IF pc[r] = "info" THEN "id" ELSE "name"]
    BY <1>3 DEF EndSet
  <2>2. TurnInv' /\ HubInv'
    BY <1>1, <2>1
  <2>3. KeysInv'
    BY <1>1, <2>1
  <2>4. MapInv'
    BY <1>1, <2>1
  <2>5. \A s \in Requests : s # r => pc[s] \notin {"name", "start", "registered"}
    BY <1>1, <2>1
  <2>6. data # Torn
    BY DEF Stores
  <2>7. StoredInv'
    <3>1. data.id # None => data.id = IdOf[r] /\ data.info[data.id] = r /\ backend[data.id] = r
      BY <1>1
    <3>2. pc[r] = "id" => data.id = IdOf[r]
      BY <2>1
    <3> QED
      BY <1>1, <2>1, <2>5, <2>6, <3>1, <3>2
  <2> QED
    BY <2>2, <2>3, <2>4, <2>7
<1>4. CASE OpenFails(r)
  BY <1>1, <1>4 DEF OpenFails, Put, Stores
<1>5. CASE WriteFails(r)
  BY <1>1, <1>5 DEF WriteFails
<1> QED
  BY <1>2, <1>3, <1>4, <1>5 DEF Save

\* A request that finds no other one on its way.
LEMMA CheckAlone ==
    ASSUME TypeOK, RunInv, AloneInv, NEW r \in Requests, Check(r), raced' = "no"
    PROVE  AloneInv'
<1> USE RequestsAssumption, AbsentAssumption
        DEF TypeOK, AloneInv, TurnInv, HubInv, KeysInv, MapInv, StoredInv, Stored, Known, memory, world,
            Goto, Fail, Entered, Past
<1>1. /\ pc[r] = "idle" /\ UNCHANGED <<process, agentInfo, credentials, signerKey, data, writer, hubs, file, backend>>
      /\ pc' = [pc EXCEPT ![r] = pc'[r]] /\ pc'[r] \in {"refused", "failed", "initiate"}
  BY DEF Check
<1>2. CASE pc'[r] \in {"refused", "failed"}
  BY <1>1, <1>2 DEF RunInv
<1>3. CASE pc'[r] = "initiate"
  <2>1. agentInfo = None /\ \A s \in Requests : pc[s] \notin Entered
    BY <1>3 DEF Check
  <2> QED
    BY <1>1, <1>3, <2>1 DEF RunInv
<1> QED
  BY <1>1, <1>2, <1>3

\* As long as requests run one after the other, all of this holds.
THEOREM AloneCorrect == Spec => []IdentityInv
<1>1. Init => RunInv /\ AloneInv
  BY DEF Init, RunInv, AloneInv, TurnInv, HubInv, KeysInv, MapInv, StoredInv, Stored, EmptyStore,
         Running, Entered, Past
<1>2. TypeOK /\ TypeOK' /\ IdentityInv /\ [Next]_vars => IdentityInv'
  <2> SUFFICES ASSUME TypeOK, TypeOK', RunInv, raced = "no" => AloneInv, [Next]_vars
               PROVE  raced' = "no" => AloneInv'
    BY RunKept DEF IdentityInv
  <2> SUFFICES ASSUME raced' = "no" PROVE AloneInv'
    OBVIOUS
  <2>1. CASE Boot \/ Crash
    <3>1. raced = "no"
      BY <2>1 DEF Boot, Crash, Load, InitiateFound, StartFound, Listen
    <3> QED
      BY <2>1, <3>1, BootAlone
  <2>2. ASSUME NEW r \in Requests, Check(r) PROVE AloneInv'
    <3>1. raced = "no"
      BY <2>2 DEF Check
    <3> QED
      BY <2>2, <3>1, CheckAlone
  <2>3. ASSUME NEW r \in Requests, Register(r) PROVE AloneInv'
    <3>1. raced = "no"
      BY <2>3 DEF Register, Initiate, UpdateAPIKey, SetKey, ActionApprove, Publish, GetAgentName, Start
    <3> QED
      BY <2>3, <3>1, RegisterAlone
  <2>4. ASSUME NEW r \in Requests, Save(r) PROVE AloneInv'
    <3>1. raced = "no"
      BY <2>4 DEF Save, BeginSet, EndSet, OpenFails, WriteFails
    <3> QED
      BY <2>4, <3>1, SaveAlone
  <2>5. CASE UNCHANGED vars
    BY <2>5 DEF vars, memory, world, AloneInv, TurnInv, HubInv, KeysInv, MapInv, StoredInv, Stored
  <2> QED
    BY <2>1, <2>2, <2>3, <2>4, <2>5 DEF Next, Terminated
<1>3. Init => IdentityInv
  BY <1>1 DEF IdentityInv
<1> QED
  BY <1>2, <1>3, TypeCorrect, PTL DEF Spec

\* A request that ran alone and was answered with success is what the store has
\* from then on (agent_service.go:123, agent_store.go:42-65).
THEOREM RememberedCorrect == Spec => []Remembered
<1>1. IdentityInv => Remembered
  BY DEF IdentityInv, AloneInv, StoredInv, Stored, Remembered
<1> QED
  BY <1>1, AloneCorrect, PTL

\* A process that serves an agent signs and authenticates as that agent, with
\* the key the backend has for it (agent_service.go:122-155).
THEOREM OwnKeysCorrect == Spec => []OwnKeys
<1>1. IdentityInv => OwnKeys
  BY DEF IdentityInv, AloneInv, KeysInv, OwnKeys
<1> QED
  BY <1>1, AloneCorrect, PTL

\* The feed hub is started once at most (handler.go:26, feed_hub.go:70-85).
THEOREM OneHubCorrect == Spec => []OneHub
<1>1. IdentityInv => OneHub
  BY DEF IdentityInv, AloneInv, HubInv, OneHub
<1> QED
  BY <1>1, AloneCorrect, PTL

\* No second request registers an agent: where two were answered as registered,
\* they raced (agent_service.go:113-123).
THEOREM OneAgentCorrect == Spec => []OneAgent
<1>1. IdentityInv => OneAgent
  BY DEF IdentityInv, AloneInv, StoredInv, Stored, OneAgent
<1> QED
  BY <1>1, AloneCorrect, PTL

\* Whoever waits for the store's lock waits for a request that is saving, in a
\* process that serves: none ends, fails or crashes with it (filestore.go:67-74).
StoreLock == writer # None => pc[writer] \in {"info", "id"} /\ process = "up"

THEOREM StoreLockCorrect == Spec => []StoreLock
<1>1. TypeOK /\ IdentityInv => StoreLock
  BY DEF IdentityInv, RunInv, Running, StoreLock, TypeOK, Known
<1> QED
  BY <1>1, TypeCorrect, AloneCorrect, PTL
====
