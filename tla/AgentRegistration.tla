---- MODULE AgentRegistration ----
(***************************************************************************)
(* The life of the agent's identity in one instance: requests to register  *)
(* it (internal/rest/handler.go, internal/service/agent_service.go), the   *)
(* store they save it in (internal/store/agent_store.go on                 *)
(* internal/util/filestore.go) and the program's start, which loads it     *)
(* again (cmd/app/main.go, internal/rest/router.go).                       *)
(*                                                                         *)
(* A request generates keys of its own, so the keys, the agent info and    *)
(* the credentials a request stands for are all named by that request.     *)
(***************************************************************************)
EXTENDS Naturals

CONSTANTS
    Requests,  \* requests to register an agent
    Ids,       \* API key ids, which name agents
    IdOf,      \* the API key id a request brings
    None,      \* no request, no id
    Torn,      \* the content of a file that was being written
    MaxCrashes \* bound on the number of crashes

ASSUME RequestsAssumption == IdOf \in [Requests -> Ids]

ASSUME AbsentAssumption ==
    /\ None \notin Requests /\ None \notin Ids
    /\ Torn \notin [info : [Ids -> Requests \cup {None}], id : Ids \cup {None}]

ASSUME CrashesAssumption == MaxCrashes \in Nat

VARIABLES
    process,     \* "off", starting ("initiate", "start", "listen"), "up", "deaf"
                 \* without a listener, or "dead" when it cannot start any more
    pc,          \* where a request is; how it was answered
    \* memory
    agentInfo,   \* agentSrv.agentInfo
    credentials, \* apiTokenProvider: what Initiate was last called with
    signerKey,   \* actionSigner.blsPrivateKey
    data,        \* FileStore.data
    writer,      \* the request that holds the FileStore's lock, writing
    hubs,        \* how often the feed hub was started
    \* outside the process
    file,        \* the store's file
    backend,     \* the key the backend has for an API key id
    crashes,
    \* history
    raced        \* two requests were past the test of agentInfo at a time

memory == <<agentInfo, credentials, signerKey, data, writer, hubs>>
world == <<file, backend, crashes>>
vars == <<process, pc, memory, world, raced>>

Known == Requests \cup {None}
Stores == [info : [Ids -> Known], id : Ids \cup {None}]
EmptyStore == [info |-> [i \in Ids |-> None], id |-> None]

\* A request that has not found an agent and has not published its own yet.
Entered == {"initiate", "update", "key", "approve", "publish"}
Final == {"registered", "refused", "failed", "lost"}

TypeOK ==
    /\ process \in {"off", "initiate", "start", "listen", "up", "deaf", "dead"}
    /\ pc \in [Requests -> {"idle", "info", "id", "name", "start"} \cup Entered \cup Final]
    /\ agentInfo \in Known /\ credentials \in Known /\ signerKey \in Known
    /\ data \in Stores
    /\ writer \in Known
    /\ hubs \in Nat
    /\ file \in Stores \cup {Torn}
    /\ backend \in [Ids -> Known]
    /\ crashes \in 0 .. MaxCrashes
    /\ raced \in {"no", "yes"}

\* A process that has just been started for the first time.
Init ==
    /\ process = "off"
    /\ pc = [r \in Requests |-> "idle"]
    /\ agentInfo = None /\ credentials = None /\ signerKey = None
    /\ data = EmptyStore /\ writer = None /\ hubs = 0
    /\ file = EmptyStore
    /\ backend = [i \in Ids |-> None]
    /\ crashes = 0
    /\ raced = "no"

----------------------------------------------------------------------------
\* initRouter and StartHTTPListener.

\* What a process that ends forgets; file and backend stay.
Forget ==
    /\ agentInfo' = None /\ credentials' = None /\ signerKey' = None
    /\ data' = EmptyStore /\ writer' = None /\ hubs' = 0

Decodable == file # Torn
AgentFound == file.id # None
InfoFound == file.info[file.id] # None

\* A plausible slip: the error of the decoder is dropped.
LoadUndecoded ==
    /\ process = "off"
    /\ data' = file
    /\ agentInfo' = IF Decodable /\ AgentFound THEN file.info[file.id] ELSE None
    /\ process' = IF Decodable /\ AgentFound THEN "initiate" ELSE "listen"
    /\ UNCHANGED <<credentials, signerKey, writer, hubs, pc, world, raced>>

\* FileStore.Init reads the file and GetAgentInfo looks for the agent.  The
\* process exits when the file cannot be decoded or names an agent it does not
\* have, and would at every further start.
Load ==
    /\ process = "off"
    /\ IF Decodable /\ (AgentFound => InfoFound)
       THEN /\ data' = file
            /\ agentInfo' = IF AgentFound THEN file.info[file.id] ELSE None
            /\ process' = IF AgentFound THEN "initiate" ELSE "listen"
            /\ UNCHANGED <<credentials, signerKey, writer, hubs>>
       ELSE /\ process' = "dead"
            /\ UNCHANGED memory
    /\ UNCHANGED <<pc, world, raced>>

\* genHeaderProvider and NewSigner for an agent that was found; an error ends
\* the process, which may be started again.
InitiateFound ==
    /\ process = "initiate"
    /\ \/ /\ credentials' = agentInfo /\ signerKey' = agentInfo
          /\ process' = "start"
          /\ UNCHANGED <<agentInfo, data, writer, hubs>>
       \/ /\ process' = "off"
          /\ Forget
    /\ UNCHANGED <<pc, world, raced>>

\* agentService.Start before the listener is opened.
StartFound ==
    /\ process = "start"
    /\ \/ /\ hubs' = hubs + 1
          /\ process' = "listen"
          /\ UNCHANGED <<agentInfo, credentials, signerKey, data, writer>>
       \/ /\ process' = "off"
          /\ Forget
    /\ UNCHANGED <<pc, world, raced>>

\* The listener is opened.  When it is not, StartHTTPListener sends the error on
\* an unbuffered channel that its caller would read after its return: the main
\* goroutine waits for ever while the rest of the process goes on.
Listen ==
    /\ process = "listen"
    /\ process' \in {"up", "deaf"}
    /\ UNCHANGED <<pc, memory, world, raced>>

\* The process ends, in the middle of whatever it does.
Crash ==
    /\ process \notin {"off", "dead"} /\ crashes < MaxCrashes
    /\ crashes' = crashes + 1
    /\ process' = "off"
    /\ pc' = [r \in Requests |-> IF pc[r] \in Final \cup {"idle"} THEN pc[r] ELSE "lost"]
    /\ Forget
    /\ UNCHANGED <<file, backend, raced>>

----------------------------------------------------------------------------
\* agentSrv.RegisterAgent.

Goto(r, label) == pc' = [pc EXCEPT ![r] = label]

\* A call fails and its error is the answer.
Fail(r) == Goto(r, "failed")

\* A plausible slip: the test of agentInfo is gone.
CheckNothing(r) ==
    /\ process = "up" /\ pc[r] = "idle"
    /\ Goto(r, "initiate")
    /\ raced' = IF \E s \in Requests : pc[s] \in Entered THEN "yes" ELSE raced
    /\ UNCHANGED <<process, memory, world>>

\* An agent that is there refuses others; otherwise keys are generated.
Check(r) ==
    /\ process = "up" /\ pc[r] = "idle"
    /\ \/ /\ agentInfo # None
          /\ Goto(r, "refused")
          /\ UNCHANGED raced
       \/ /\ agentInfo = None
          /\ Fail(r)
          /\ UNCHANGED raced
       \/ /\ agentInfo = None
          /\ Goto(r, "initiate")
          /\ raced' = IF \E s \in Requests : pc[s] \in Entered THEN "yes" ELSE raced
    /\ UNCHANGED <<process, memory, world>>

\* authProvider.Initiate takes the credentials over before it asks for a token.
Initiate(r) ==
    /\ pc[r] = "initiate"
    /\ credentials' = r
    /\ Goto(r, "update") \/ Fail(r)
    /\ UNCHANGED <<process, agentInfo, signerKey, data, writer, hubs, world, raced>>

\* updateAPIKey: the backend answers with an action that will change the keys.
UpdateAPIKey(r) ==
    /\ pc[r] = "update"
    /\ Goto(r, "key") \/ Fail(r)
    /\ UNCHANGED <<process, memory, world, raced>>

\* The key was encoded by the program itself, so decoding it does not fail.
SetKey(r) ==
    /\ pc[r] = "key"
    /\ signerKey' = r
    /\ Goto(r, "approve")
    /\ UNCHANGED <<process, agentInfo, credentials, data, writer, hubs, world, raced>>

\* A plausible slip: the error of the approval is logged and forgotten.
ApproveWithoutError(r) ==
    /\ pc[r] = "approve"
    /\ Goto(r, "publish")
    /\ \/ backend' = [backend EXCEPT ![IdOf[r]] = r]
       \/ UNCHANGED backend
    /\ UNCHANGED <<process, memory, file, crashes, raced>>

\* ActionApprove of that action: the backend changes the key, and its answer
\* arrives or is lost; or it does not.
ActionApprove(r) ==
    /\ pc[r] = "approve"
    /\ \/ /\ backend' = [backend EXCEPT ![IdOf[r]] = r]
          /\ Goto(r, "publish") \/ Fail(r)
       \/ /\ Fail(r)
          /\ UNCHANGED backend
    /\ UNCHANGED <<process, memory, file, crashes, raced>>

\* a.agentInfo = &store.AgentInfo{...}
Publish(r) ==
    /\ pc[r] = "publish"
    /\ agentInfo' = r
    /\ Goto(r, "info")
    /\ UNCHANGED <<process, credentials, signerKey, data, writer, hubs, world, raced>>

----------------------------------------------------------------------------
\* SaveAgentInfo: two calls of FileStore.Set, for the info and for the id.

Saving(r) == pc[r] \in {"info", "id"}

\* A plausible slip: the id is saved before the info it refers to.
PutIdFirst(r) ==
    IF pc[r] = "id" THEN [data EXCEPT !.info[IdOf[r]] = r] ELSE [data EXCEPT !.id = IdOf[r]]

Put(r) ==
    IF pc[r] = "info" THEN [data EXCEPT !.info[IdOf[r]] = r] ELSE [data EXCEPT !.id = IdOf[r]]

\* Set changes the map and writes the whole of it to the file, which is empty
\* or partial until that is done.
BeginSet(r) ==
    /\ Saving(r) /\ writer = None
    /\ data' = Put(r)
    /\ writer' = r
    /\ file' = Torn
    /\ UNCHANGED <<process, pc, agentInfo, credentials, signerKey, hubs, backend, crashes, raced>>

EndSet(r) ==
    /\ Saving(r) /\ writer = r
    /\ file' = data
    /\ writer' = None
    /\ Goto(r, IF pc[r] = "info" THEN "id" ELSE "name")
    /\ UNCHANGED <<process, agentInfo, credentials, signerKey, data, hubs, backend, crashes, raced>>

\* The file cannot be opened: the map keeps the new value.
OpenFails(r) ==
    /\ Saving(r) /\ writer = None
    /\ data' = Put(r)
    /\ Fail(r)
    /\ UNCHANGED <<process, agentInfo, credentials, signerKey, writer, hubs, world, raced>>

\* A plausible slip: the lock is not released when the write fails.
WriteFailsLocked(r) ==
    /\ Saving(r) /\ writer = r
    /\ Fail(r)
    /\ UNCHANGED <<process, memory, world, raced>>

\* A plausible slip: the error of the write is not passed on.
WriteFailsSilently(r) ==
    /\ Saving(r) /\ writer = r
    /\ writer' = None
    /\ Goto(r, IF pc[r] = "info" THEN "id" ELSE "name")
    /\ UNCHANGED <<process, agentInfo, credentials, signerKey, data, hubs, world, raced>>

\* The write fails half way.
WriteFails(r) ==
    /\ Saving(r) /\ writer = r
    /\ writer' = None
    /\ Fail(r)
    /\ UNCHANGED <<process, agentInfo, credentials, signerKey, data, hubs, world, raced>>

\* getAgentName; its error is the answer although the agent is registered.
GetAgentName(r) ==
    /\ pc[r] = "name"
    /\ Goto(r, "start") \/ Fail(r)
    /\ UNCHANGED <<process, memory, world, raced>>

\* The handler starts the service: feedHub.Run connects and starts the hub.
Start(r) ==
    /\ pc[r] = "start"
    /\ \/ /\ hubs' = hubs + 1
          /\ Goto(r, "registered")
       \/ /\ Fail(r)
          /\ UNCHANGED hubs
    /\ UNCHANGED <<process, agentInfo, credentials, signerKey, data, writer, world, raced>>

----------------------------------------------------------------------------
Boot == Load \/ InitiateFound \/ StartFound \/ Listen
Register(r) ==
    \/ Initiate(r) \/ UpdateAPIKey(r) \/ SetKey(r) \/ ActionApprove(r) \/ Publish(r)
    \/ GetAgentName(r) \/ Start(r)
Save(r) == BeginSet(r) \/ EndSet(r) \/ OpenFails(r) \/ WriteFails(r)

\* Every request was answered, or nobody listens, or the program cannot start.
Terminated ==
    /\ process \in {"deaf", "dead"} \/ (process = "up" /\ \A r \in Requests : pc[r] \in Final)
    /\ UNCHANGED vars

Next ==
    \/ Boot \/ Crash
    \/ \E r \in Requests : Check(r) \/ Register(r) \/ Save(r)
    \/ Terminated

Spec == Init /\ [][Next]_vars

\* Go runs a request's goroutine; HTTP requests have a timeout and a write to
\* the file returns.
FairSpec == Spec /\ \A r \in Requests : WF_vars(Register(r) \/ Save(r))

----------------------------------------------------------------------------
\* The program can be started again whenever it ended, unless it ended or
\* failed while it wrote its file: the id in the store always has its info,
\* because SaveAgentInfo writes them in that order (agent_store.go:56-60).
Restartable == process = "dead" => file = Torn

\* A request that ran alone and was answered with success is what the store
\* has from then on, over restarts and further requests (agent_service.go:123,
\* 155, agent_store.go:42-65).
Remembered ==
    \A r \in Requests :
        raced = "no" /\ pc[r] = "registered" =>
            /\ file # Torn
            /\ file.id = IdOf[r] /\ file.info[IdOf[r]] = r

\* When requests run one after the other, a process that serves an agent signs
\* and authenticates as that agent, and with the key the backend has for it,
\* whatever failed before (agent_service.go:122-155, main.go:147-167).
OwnKeys ==
    raced = "no" /\ process = "up" /\ agentInfo # None =>
        /\ signerKey = agentInfo /\ credentials = agentInfo
        /\ backend[IdOf[agentInfo]] = agentInfo

\* Then the feed hub, which cannot run twice, is started once at most
\* (handler.go:26, router.go:111, feed_hub.go:70-85).
OneHub == raced = "no" => hubs <= 1

\* And one request at most registers an agent, in this process or after a
\* restart: whoever saved its agent keeps others out, also while it reads the
\* name and starts the hub (agent_service.go:122-125, swagger.yaml:23).
OneAgent ==
    raced = "no" =>
        \A r, s \in Requests :
            pc[r] = "registered" /\ pc[s] \in {"registered", "name", "start"} => r = s

\* A request that passed the test of agentInfo is answered, or its process ends:
\* nobody waits for ever for the store's lock (filestore.go:67-74).
Answered == \A r \in Requests : pc[r] \in Entered ~> pc[r] \in Final

----------------------------------------------------------------------------
\* What the API's description says, and the code does not do.

\* docs/swagger/swagger.yaml:23: "This will register the agent only if there is
\* none already registered."
OneRegistration ==
    \A r, s \in Requests : pc[r] = "registered" /\ pc[s] = "registered" => r = s
====
