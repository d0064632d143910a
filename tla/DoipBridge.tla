----------------------------- MODULE DoipBridge -----------------------------
(***************************************************************************)
(* The diagnostic manager bridges a tester on the OBD-II port to the       *)
(* extended vehicle.  When its monitor has found the service healthy it    *)
(* takes the offered endpoint, connects a DoIP client and starts an OBD-II *)
(* emulator; each request for live data then goes over DoIP to the server  *)
(* of the vehicle, which reads the data from a web service through a       *)
(* cache.  The manager's main loop, the timer of its monitor, its poller,  *)
(* the emulator and the vehicle's poller run side by side.                 *)
(***************************************************************************)
EXTENDS Integers, Sequences, FiniteSets, SequencesExt

CONSTANTS
    Samples,        \* Samples[pid]: values the web service may give for a pid
    cCacheLifetime, \* 60 s
    MaxTransit,     \* bound: how long the answer of the web service takes
    MaxBridges,     \* bound: converters ever constructed
    MaxAsked,       \* bound: requests of the tester
    MaxStale        \* bound: how often a packet is handled again

ASSUME LifetimeAssumption == cCacheLifetime \in Nat \ {0} /\ MaxTransit \in Nat

VARIABLES
    main,        \* DiagnosticManager::Main, then Terminate and the destructor
    mSdClient,   \* the state of the client, or none once it is deleted
    endpoint,    \* whether TryGetOfferedEndpoint has one
    mDebouncer,  \* of the monitor: its direction, its thread and its last verdict
    fault,       \* why the process aborted, if it did
    bridges,     \* the converters with their emulators and DoIP clients
    mObdToDoipConverter, \* the one the manager knows, or 0
    clientBuffer,  \* what the stack holds where DoipClient::onReceive has its buffer
    vehicle,     \* whether the process of the vehicle runs
    connection,  \* the bridge whose connection DoipServer's listener has
    serverBuffer,  \* what the stack holds where DoipServer::onReceive has its buffer
    mSendQueue,  \* of DoipServer
    mCache,      \* of ReadDataByIdentifier: the cached item and its age
    reading,     \* the answer of the web service, on its way
    asking,      \* the pid the tester is interested in
    resource,    \* its value at the web service
    heldAgo,     \* history: how long ago the resource had each value
    asked,       \* how often the tester asked,
    answered,    \* how often the emulator's callback had an answer for it,
    stale        \* and how often a packet was handled again

managerVars == <<main, mSdClient, endpoint, mDebouncer, fault>>
bridgeVars == <<bridges, mObdToDoipConverter, clientBuffer>>
serverVars == <<vehicle, connection, serverBuffer, mSendQueue, mCache, reading>>
resourceVars == <<asking, resource, heldAgo>>
testerVars == <<asked, answered, stale>>
doipVars == <<managerVars, bridgeVars, serverVars, resourceVars, testerVars>>

Nothing == [is |-> "none"]
NoBridge == 0

-----------------------------------------------------------------------------
(* ObdToDoipConverter *)

\* What is answered with a constant, and what is asked of the vehicle.
FixedPids ==
    {0, 3, 4, 6, 7, 10, 11, 12, 14, 15, 16, 17, 18, 19, 20, 28, 30, 32, 33, 34, 36, 50, 51, 52, 60,
     64, 66, 68, 69, 77, 79, 80, 81, 83, 84, 89, 90, 92, 96, 97, 98, 99, 103, 104, 128, 160}
ForwardedPids == {13, 47, 70, 94, 5, 166}

\* The answers that say which of the next 32 pids are supported, a bit for each.
SupportedPids ==
    [base \in {0, 32, 64, 96, 128, 160} |->
        CASE base = 0   -> <<62, 127, 240, 21>>
          [] base = 32  -> <<208, 2, 112, 17>>
          [] base = 64  -> <<92, 11, 176, 213>>
          [] base = 96  -> <<227, 0, 0, 1>>
          [] base = 128 -> <<0, 0, 0, 1>>
          [] base = 160 -> <<4, 0, 0, 0>>]

TryGetResponseAsync(pid) ==
    IF pid \in FixedPids THEN "answered"
    ELSE IF pid \in ForwardedPids THEN "forwarded" ELSE "refused"

\* The pids that are announced to the tester are exactly those that it gets an
\* answer for: every bit of the six answers agrees with the branches of the code.
Bit(byte, n) == (byte \div (2 ^ (7 - n))) % 2 = 1
Supported(pid) ==
    LET base == ((pid - 1) \div 32) * 32
        n == pid - 1 - base
    IN  base \in DOMAIN SupportedPids /\ Bit(SupportedPids[base][(n \div 8) + 1], n % 8)
ASSUME SupportedIsServed ==
    \A pid \in 1 .. 255 : Supported(pid) <=> TryGetResponseAsync(pid) # "refused"

\* tryParseUdsData: a refusal of the vehicle is not passed on.
tryParseUdsData(packet) == packet.is = "answer"

-----------------------------------------------------------------------------
(* ReadDataByIdentifier *)

\* The bytes for a value: km/h; percent of 255 (2.55 * 100 is a little less than
\* 255 in double precision); degrees above -40; twentieths of a litre; tenths of
\* a kilometre.
getAverageSpeed(value) == <<value % 256>>
getFuelAmount(value) == <<IF value = 100 THEN 254 ELSE (255 * value) \div 100>>
getExternalTemperature(value) == <<(value + 40) % 256>>
getAverageFuelConsumption(value) == <<((2 * value) \div 256) % 256, (2 * value) % 256>>
getEngineCoolantTemperature(value) == <<(value + 40) % 256>>
getOdometerValue(value) ==
    <<(value \div 16777216) % 256, (value \div 65536) % 256, (value \div 256) % 256, value % 256>>

Encode(pid, value) ==
    CASE pid = 13 -> getAverageSpeed(value)
      [] pid = 47 -> getFuelAmount(value)
      [] pid = 70 -> getExternalTemperature(value)
      [] pid = 94 -> getAverageFuelConsumption(value)
      [] pid = 5 -> getEngineCoolantTemperature(value)
      [] pid = 166 -> getOdometerValue(value)

\* What comes of asking the web service: a value, no answer or none that can be
\* parsed, or a value that is not a number, for which an exception is caught.
tryGetResourceValue == {"value", "unavailable", "malformed"}

\* What a vehicle delivers fits the bytes that OBD-II provides for it.
ASSUME SamplesAssumption == Samples \in [ForwardedPids -> SUBSET Int]
ASSUME SpeedAssumption == Samples[13] \subseteq 0 .. 255
ASSUME FuelAssumption == Samples[47] \subseteq 0 .. 100
ASSUME TemperatureAssumption == \A value \in Samples[70] \cup Samples[5] : value + 40 \in 0 .. 255
ASSUME ConsumptionAssumption == \A value \in Samples[94] : value \in Nat /\ value <= 32767
ASSUME OdometerAssumption == \A value \in Samples[166] : value \in Nat /\ value \div 16777216 < 256

\* MemoryCache::Add keeps an item that is there.
CacheAdd(cache, item) == IF cache = Nothing THEN [is |-> "item", item |-> item, age |-> 0] ELSE cache

\* Mutant: an item is served however old it is.
CacheTryGetAlways(cache) == cache # Nothing

\* MemoryCache::TryGet; an item that is too old is removed.
CacheTryGet(cache) == cache # Nothing /\ cache.age < cCacheLifetime

Answer(bytes) == [is |-> "answer", bytes |-> bytes]

\* HandleMessage answers from the cache, or with what the web service has sent,
\* which is cached from when it arrives.
HandleMessage(outcome) ==
    IF CacheTryGet(mCache) THEN [response |-> mCache.item, cache |-> mCache]
    ELSE CASE outcome = "value" -> [response |-> Answer(reading.bytes),
                                    cache |-> CacheAdd(Nothing, Answer(reading.bytes))]
           [] outcome = "unavailable" -> [response |-> [is |-> "refusal"], cache |-> Nothing]
           [] outcome = "malformed" -> [response |-> Nothing, cache |-> Nothing]

-----------------------------------------------------------------------------
(* The handlers of DoipServer *)

\* VehicleIdRequestHandler answers with what it was constructed with.
HandleVehicleIdRequest ==
    /\ mSendQueue' = Append(mSendQueue, [is |-> "idResponse"])
    /\ UNCHANGED mCache

\* DiagMessageHandler routes the request; after an exception it has no answer.
HandleDiagMessage(outcome) ==
    LET handled == HandleMessage(outcome)
    IN  /\ CacheTryGet(mCache) \/ (outcome = "value" <=> reading # Nothing)
        /\ mCache' = handled.cache
        /\ mSendQueue' = IF handled.response = Nothing THEN mSendQueue
                         ELSE Append(mSendQueue, handled.response)

-----------------------------------------------------------------------------
Requests == [is : {"idRequest", "ask"}]
Answers == [is : {"answer"}, bytes : Seq(Int)]
Responses == [is : {"idResponse", "refusal"}] \cup Answers
Bridges == [alive : BOOLEAN, mLogicalAddress : BOOLEAN,
            queue : Seq(Requests), up : Seq(Requests), down : Seq(Responses)]
CachedItems == [is : {"item"}, item : Answers, age : 0 .. cCacheLifetime]
Replies == [is : {"reply"}, bytes : Seq(Int), age : 0 .. MaxTransit, again : BOOLEAN]

Debouncers == [passing : BOOLEAN, thread : {"none", "waiting", "deciding", "expired", "over"},
               verdict : {"Pending", "Passed", "Failed"}]

ManagerTypeOK ==
    /\ main \in {"new", "looping", "returned", "destroying", "gone"}
    /\ mSdClient \in {"ServiceNotSeen", "ServiceReady", "none"}
    /\ endpoint \in BOOLEAN
    /\ mDebouncer \in Debouncers
    /\ fault \in {"none", "null client", "no endpoint", "no connection"}

BridgesTypeOK ==
    /\ bridges \in Seq(Bridges)
    /\ mObdToDoipConverter \in 0 .. Len(bridges) /\ connection \in 0 .. Len(bridges)
    /\ clientBuffer \in {Nothing} \cup Responses /\ serverBuffer \in {Nothing} \cup Requests
    /\ mSendQueue \in Seq(Responses)

ResourceTypeOK ==
    /\ mCache \in {Nothing} \cup CachedItems /\ reading \in {Nothing} \cup Replies
    /\ asking \in ForwardedPids /\ resource \in Samples[asking]
    /\ heldAgo \in [Samples[asking] -> 0 .. cCacheLifetime + MaxTransit]

DoipTypeOK ==
    /\ ManagerTypeOK /\ BridgesTypeOK /\ ResourceTypeOK
    /\ vehicle \in BOOLEAN /\ asked \in Nat /\ answered \in Nat /\ stale \in Nat

ManagerInit ==
    /\ main = "new" /\ mSdClient = "ServiceNotSeen" /\ endpoint = FALSE
    \* mIsPassing is not initialized
    /\ mDebouncer \in [passing : BOOLEAN, thread : {"none"}, verdict : {"Pending"}]
    /\ fault = "none"

ServerInit ==
    /\ vehicle = TRUE /\ connection = NoBridge /\ serverBuffer = Nothing /\ mSendQueue = << >>
    /\ mCache = Nothing /\ reading = Nothing

DoipInit ==
    /\ ManagerInit /\ ServerInit
    /\ bridges = << >> /\ mObdToDoipConverter = NoBridge /\ clientBuffer = Nothing
    /\ asking \in ForwardedPids /\ resource \in Samples[asking]
    /\ heldAgo = [v \in Samples[asking] |-> IF v = resource THEN 0 ELSE cCacheLifetime + MaxTransit]
    /\ asked = 0 /\ answered = 0 /\ stale = 0

Running == fault = "none"

-----------------------------------------------------------------------------
(* DiagnosticManager: the thread of Main *)

\* The event, the monitor with its debouncer, and the network are configured from
\* the manifest, any of which may throw.
Configure == main' \in {"looping", "returned"}

\* Main configures the parts and starts the client.
MainStarts ==
    /\ Running /\ main = "new"
    /\ Configure
    /\ UNCHANGED <<mSdClient, endpoint, mDebouncer, fault, bridgeVars, serverVars, resourceVars, testerVars>>

\* checkServiceDiscovery reports to the monitor: a thread of the other direction
\* is frozen and joined; no thread is started when one waits or the time is over.
checkServiceDiscovery ==
    /\ Running /\ main = "looping"
    /\ \E passing \in BOOLEAN :
          /\ passing <=> mSdClient \in {"ServiceReady", "ServiceSeen"}
          /\ IF passing = mDebouncer.passing
             THEN mDebouncer' = IF mDebouncer.thread = "none"
                                THEN [mDebouncer EXCEPT !.thread = "waiting"] ELSE mDebouncer
             ELSE /\ mDebouncer.thread # "deciding"
                  /\ mDebouncer' = [mDebouncer EXCEPT !.passing = passing, !.thread = "waiting"]
    /\ UNCHANGED <<main, mSdClient, endpoint, fault, bridgeVars, serverVars, resourceVars, testerVars>>

\* The token is set: the loop ends and the client is deleted.
MainReturns ==
    /\ Running /\ main = "looping"
    /\ main' = "returned"
    /\ mSdClient' = "none" /\ endpoint' = FALSE
    /\ UNCHANGED <<mDebouncer, fault, bridgeVars, serverVars, resourceVars, testerVars>>

Forget(b) == [bridges EXCEPT ![b] = [@ EXCEPT !.alive = FALSE, !.queue = << >>, !.down = << >>]]

\* The destructor deletes the emulator and the converter it knows,
DestroyBridge ==
    /\ Running /\ main = "returned"
    /\ main' = "destroying"
    /\ bridges' = IF mObdToDoipConverter = NoBridge THEN bridges ELSE Forget(mObdToDoipConverter)
    /\ UNCHANGED <<mSdClient, endpoint, mDebouncer, fault, mObdToDoipConverter, clientBuffer,
                   serverVars, resourceVars, testerVars>>

\* and then the monitor, whose thread is joined.
DestroyMonitor ==
    /\ Running /\ main = "destroying" /\ mDebouncer.thread # "deciding"
    /\ main' = "gone"
    /\ mDebouncer' = [mDebouncer EXCEPT !.thread = "over"]
    /\ UNCHANGED <<mSdClient, endpoint, fault, bridgeVars, serverVars, resourceVars, testerVars>>

-----------------------------------------------------------------------------
(* The service-discovery client *)

\* An offer is noticed, its endpoint is stored, and the service is lost again.
SdClientStep ==
    /\ Running /\ mSdClient # "none"
    /\ \/ mSdClient = "ServiceNotSeen" /\ mSdClient' = "ServiceReady" /\ UNCHANGED endpoint
       \/ mSdClient = "ServiceReady" /\ endpoint' = TRUE /\ UNCHANGED mSdClient
       \/ mSdClient = "ServiceReady" /\ mSdClient' = "ServiceNotSeen" /\ endpoint' = FALSE
    /\ UNCHANGED <<main, mDebouncer, fault, bridgeVars, serverVars, resourceVars, testerVars>>

-----------------------------------------------------------------------------
(* The thread of the debouncer: onEventStatusChanged *)

\* The time is over.  A verdict that is not new tells nobody; the loss of the
\* service is logged, with its DTC.
TimerExpires ==
    /\ Running /\ mDebouncer.thread = "waiting"
    /\ LET verdict == IF mDebouncer.passing THEN "Passed" ELSE "Failed"
       IN  mDebouncer' = [mDebouncer EXCEPT
                !.thread = IF verdict = "Passed" /\ mDebouncer.verdict # verdict
                           THEN "deciding" ELSE "expired",
                !.verdict = verdict]
    /\ UNCHANGED <<main, mSdClient, endpoint, fault, bridgeVars, serverVars, resourceVars, testerVars>>

\* The endpoint is asked of a client that may be deleted, or that has lost it.
EndpointFails ==
    /\ Running /\ mDebouncer.thread = "deciding" /\ ~endpoint
    /\ fault' = IF mSdClient = "none" THEN "null client" ELSE "no endpoint"
    /\ UNCHANGED <<main, mSdClient, endpoint, mDebouncer, bridgeVars, serverVars, resourceVars, testerVars>>

NewBridge(hardware) ==
    [alive |-> hardware, mLogicalAddress |-> FALSE,
     queue |-> IF hardware THEN <<[is |-> "idRequest"]>> ELSE << >>, up |-> << >>, down |-> << >>]

\* The converter's DoIP client connects, and asks for the vehicle's address; then
\* the emulator starts, or both are deleted.  What was there before is forgotten.
\* The poller of the vehicle accepts when it does not wait for the web service.
ConnectBridge(hardware) ==
    /\ Running /\ mDebouncer.thread = "deciding" /\ endpoint /\ Len(bridges) < MaxBridges
    /\ vehicle /\ reading = Nothing
    /\ bridges' = Append(bridges, NewBridge(hardware))
    /\ mObdToDoipConverter' = IF hardware THEN Len(bridges') ELSE NoBridge
    /\ connection' = Len(bridges')     \* DoipServer::onAccept
    /\ mDebouncer' = [mDebouncer EXCEPT !.thread = "expired"]
    /\ UNCHANGED <<main, mSdClient, endpoint, fault, clientBuffer, vehicle, serverBuffer, mSendQueue,
                   mCache, reading, resourceVars, testerVars>>

\* The constructor of the DoIP client throws, in a thread where nobody catches.
ConnectFails ==
    /\ Running /\ mDebouncer.thread = "deciding" /\ endpoint
    /\ fault' = "no connection"
    /\ UNCHANGED <<main, mSdClient, endpoint, mDebouncer, bridgeVars, serverVars, resourceVars, testerVars>>

-----------------------------------------------------------------------------
(* The emulator, and DoipClient in the manager's poller *)

\* TrySendDiagMessage refuses without an address, and when the queue is locked.
Ask(b) ==
    /\ Running /\ bridges[b].alive /\ asked < MaxAsked
    /\ TryGetResponseAsync(asking) = "forwarded"
    /\ bridges[b].mLogicalAddress
    /\ bridges' = [bridges EXCEPT ![b].queue = Append(@, [is |-> "ask"])]
    /\ asked' = asked + 1
    /\ UNCHANGED <<managerVars, mObdToDoipConverter, clientBuffer, serverVars, resourceVars, answered,
                   stale>>

ClientSends(b) ==
    /\ Running /\ bridges[b].alive /\ bridges[b].queue # << >>
    /\ bridges' = [bridges EXCEPT ![b].queue = << >>, ![b].up = @ \o bridges[b].queue]
    /\ UNCHANGED <<managerVars, mObdToDoipConverter, clientBuffer, serverVars, resourceVars, testerVars>>

\* Receive's result is ignored.  When it fails, at the end of the connection or
\* because of an error, onReceive handles what is in its buffer, which nothing has
\* initialized: it may be no packet, and nothing happens, or the previous one.
MayRepeat(buffer) == buffer # Nothing /\ stale < MaxStale

\* A response to the first request gives the address, an acknowledgement data.
ClientHandles(b, packet) ==
    /\ clientBuffer' = packet
    /\ answered' = IF tryParseUdsData(packet) THEN answered + 1 ELSE answered
    /\ UNCHANGED <<managerVars, mObdToDoipConverter, serverVars, resourceVars, asked>>

ClientReceives(b) ==
    /\ Running /\ bridges[b].alive /\ bridges[b].down # << >>
    /\ bridges' = [bridges EXCEPT ![b].down = Tail(@),
                                  ![b].mLogicalAddress = @ \/ Head(bridges[b].down).is = "idResponse"]
    /\ ClientHandles(b, Head(bridges[b].down)) /\ UNCHANGED stale

ClientRepeats(b) ==
    /\ Running /\ bridges[b].alive /\ MayRepeat(clientBuffer)
    /\ bridges' = [bridges EXCEPT ![b].mLogicalAddress = @ \/ clientBuffer.is = "idResponse"]
    /\ ClientHandles(b, clientBuffer) /\ stale' = stale + 1

-----------------------------------------------------------------------------
(* DoipServer in the vehicle's poller *)

\* What onReceive handles: the packet that has arrived, or the previous one again.
Receives(packet, again) ==
    /\ vehicle /\ connection # NoBridge
    /\ IF again THEN MayRepeat(serverBuffer) /\ packet = serverBuffer
       ELSE bridges[connection].up # << >> /\ packet = Head(bridges[connection].up)
    /\ reading # Nothing => reading.again = again

\* Nothing is cached, or too old: the web service is asked, which takes time.
AskService(packet, again) ==
    /\ Receives(packet, again) /\ reading = Nothing
    /\ packet.is = "ask" /\ ~CacheTryGet(mCache)
    /\ mCache' = Nothing
    /\ reading' = [is |-> "reply", bytes |-> Encode(asking, resource), age |-> 0, again |-> again]
    /\ UNCHANGED <<managerVars, bridgeVars, vehicle, connection, serverBuffer, mSendQueue, resourceVars,
                   testerVars>>

ServerReceives(outcome, packet, again) ==
    /\ Receives(packet, again)
    /\ IF packet.is = "idRequest" THEN outcome = "value" /\ HandleVehicleIdRequest
       ELSE HandleDiagMessage(outcome)
    /\ serverBuffer' = packet /\ reading' = Nothing
    /\ IF again THEN stale' = stale + 1 /\ UNCHANGED bridges
       ELSE bridges' = [bridges EXCEPT ![connection].up = Tail(@)] /\ UNCHANGED stale
    /\ UNCHANGED <<managerVars, mObdToDoipConverter, clientBuffer, vehicle, connection, resourceVars,
                   asked, answered>>

\* A number that is too large, or a value of another type: nobody catches what
\* std::stoul and JsonCpp throw then.
VehicleAborts(packet, again) ==
    /\ Receives(packet, again) /\ packet.is = "ask" /\ ~CacheTryGet(mCache)
    /\ vehicle' = FALSE /\ serverBuffer' = Nothing /\ mSendQueue' = << >>
    /\ mCache' = Nothing /\ reading' = Nothing
    /\ UNCHANGED <<managerVars, bridgeVars, connection, resourceVars, testerVars>>

\* Mutant: what was sent stays in the queue.
ServerSendsKeeps ==
    /\ vehicle /\ connection # NoBridge /\ mSendQueue # << >> /\ reading = Nothing
    /\ bridges' = IF bridges[connection].alive
                  THEN [bridges EXCEPT ![connection].down = @ \o mSendQueue] ELSE bridges
    /\ UNCHANGED <<managerVars, mObdToDoipConverter, clientBuffer, serverVars, resourceVars, testerVars>>

\* Whatever is queued goes to the connection that was accepted last.
ServerSends ==
    /\ vehicle /\ connection # NoBridge /\ mSendQueue # << >> /\ reading = Nothing
    /\ bridges' = IF bridges[connection].alive
                  THEN [bridges EXCEPT ![connection].down = @ \o mSendQueue] ELSE bridges
    /\ mSendQueue' = << >>
    /\ UNCHANGED <<managerVars, mObdToDoipConverter, clientBuffer, vehicle, connection, serverBuffer,
                   mCache, reading, resourceVars, testerVars>>

-----------------------------------------------------------------------------
(* The vehicle *)

\* (As long as there is a process that reads it.)
ResourceChanges(value) ==
    /\ vehicle /\ value # resource
    /\ resource' = value
    /\ heldAgo' = [heldAgo EXCEPT ![value] = 0]
    /\ UNCHANGED <<managerVars, bridgeVars, serverVars, asking, testerVars>>

Aged(age, limit) == IF age < limit THEN age + 1 ELSE age

Tick ==
    /\ vehicle
    /\ reading # Nothing => reading.age < MaxTransit
    /\ heldAgo' = [v \in DOMAIN heldAgo |->
                      IF v = resource THEN 0 ELSE Aged(heldAgo[v], cCacheLifetime + MaxTransit)]
    /\ mCache' = IF mCache = Nothing THEN mCache
                 ELSE [mCache EXCEPT !.age = Aged(@, cCacheLifetime)]
    /\ reading' = IF reading = Nothing THEN reading ELSE [reading EXCEPT !.age = @ + 1]
    /\ UNCHANGED <<managerVars, bridgeVars, vehicle, connection, serverBuffer, mSendQueue, asking,
                   resource, testerVars>>

DoipNext ==
    \/ MainStarts \/ checkServiceDiscovery \/ MainReturns \/ DestroyBridge \/ DestroyMonitor
    \/ SdClientStep \/ TimerExpires \/ EndpointFails \/ ConnectFails
    \/ \E hardware \in BOOLEAN : ConnectBridge(hardware)
    \/ \E b \in DOMAIN bridges : Ask(b) \/ ClientSends(b) \/ ClientReceives(b) \/ ClientRepeats(b)
    \/ \E packet \in Requests, again \in BOOLEAN :
          \/ AskService(packet, again) \/ VehicleAborts(packet, again)
          \/ \E outcome \in tryGetResourceValue : ServerReceives(outcome, packet, again)
    \/ ServerSends \/ Tick
    \/ \E value \in Samples[asking] : ResourceChanges(value)

DoipSpec == DoipInit /\ [][DoipNext]_doipVars

-----------------------------------------------------------------------------
(* Properties *)

\* What OBD-II lets a tester read in the bytes.
Reads(pid, bytes, value) ==
    CASE pid = 13 -> bytes[1] = value
      [] pid = 47 -> 100 * bytes[1] <= 255 * value /\ 255 * value < 100 * (bytes[1] + 2)
      [] pid \in {70, 5} -> bytes[1] - 40 = value
      [] pid = 94 -> 256 * bytes[1] + bytes[2] = 2 * value
      [] pid = 166 -> ((bytes[1] * 256 + bytes[2]) * 256 + bytes[3]) * 256 + bytes[4] = value

\* The server never answers with a value that the vehicle has not had within the
\* lifetime of the cache and the time that the web service took to deliver it,
\* whichever connection asked for it, and also when a request is handled again.
AnswerIsRecent ==
    [][Len(mSendQueue') > Len(mSendQueue) /\ Last(mSendQueue').is = "answer" =>
          \E v \in DOMAIN heldAgo : /\ heldAgo[v] < cCacheLifetime + MaxTransit
                                    /\ Reads(asking, Last(mSendQueue').bytes, v)]_doipVars

\* The packets on their way that may yet lead to an answer for the emulator's
\* callback: requests that were not handled, and answers that did not arrive.
Places == ((DOMAIN bridges) \X {"queue", "up", "down"}) \cup {<<NoBridge, "mSendQueue">>}
PacketsAt(place) ==
    CASE place[2] = "queue" -> bridges[place[1]].queue
      [] place[2] = "up" -> bridges[place[1]].up
      [] place[2] = "down" -> bridges[place[1]].down
      [] place[2] = "mSendQueue" -> mSendQueue
Awaited(place) == IF place[2] \in {"queue", "up"} THEN "ask" ELSE "answer"
Outstanding ==
    UNION {{<<place, i>> : i \in {j \in DOMAIN PacketsAt(place) : PacketsAt(place)[j].is = Awaited(place)}} :
              place \in Places}

\* No request is answered twice but by a Receive that failed: a bridge that was
\* replaced stays alive, and answers to its requests are sent to the new one; yet
\* each answer is due to a request of its own, or to a packet handled again at the
\* end of a connection, and each of those leads to one answer more at the most.
AnsweredOnce == answered + Cardinality(Outstanding) <= asked + stale

=============================================================================
