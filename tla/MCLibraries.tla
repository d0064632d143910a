----------------------------- MODULE MCLibraries ----------------------------
(* Parts of the libraries that do not meet, one of them in each behaviour: the  *)
(* messages that an agent of service discovery sends, a stream of requests,     *)
(* checkpoints in a FIFO, the Result that carries what was read; the server of  *)
(* service discovery, with two rounds of repetition and three Finds, enough for *)
(* a Find in every phase and one that arrives while another is answered; and    *)
(* health management, where one or two indications per cycle are expected and   *)
(* a second failed cycle exceeds the tolerance.                                 *)
EXTENDS CheckpointChannel, CoreTypes, SdServer, HealthManagement

VARIABLE subject

dataVars == <<wireVars, channelVars, coreVars>>
mcVars == <<subject, dataVars, serverVars, vars>>

SomeServices ==
    {[serviceId |-> 258, instanceId |-> 65535, majorVersion |-> 255, ttl |-> 16711937,
      last |-> <<65535, 1>>]}
SomeEventgroups ==
    {[serviceId |-> 258, instanceId |-> 1, majorVersion |-> 1, ttl |-> 1, last |-> <<15, 257>>]}

NewEndpoint(type, ip, protocol) ==
    [type |-> type, discardable |-> FALSE, ip |-> ip, protocol |-> protocol, port |-> 8090]

SomeOptions ==
    {NewEndpoint("IPv4Endpoint", <<127, 0, 0, 1>>, 6), NewEndpoint("IPv4Multicast", <<239, 0, 0, 1>>, Udp),
     NewEndpoint("IPv4SdEndpoint", <<127, 0, 0, 1>>, Udp),
     [type |-> "LoadBalancing", discardable |-> TRUE, priority |-> 1, weight |-> 256]}

Request(sessionId, payload) ==
    [header |-> [messageId |-> <<1, 32769>>, clientId |-> 2, sessionId |-> sessionId,
                 protocolVersion |-> 1, interfaceVersion |-> 1, messageType |-> 0, returnCode |-> 0],
     rpcPayload |-> payload]

SomeRequests == {Request(1, << >>), Request(2, <<0, 0, 0, 9>>)}

MCInit ==
    /\ subject \in {"messages", "stream", "checkpoint", "result", "server", "health"}
    /\ WireInit /\ ChannelInit /\ CoreInit /\ ServerInit /\ Init
    /\ subject # "health" => ~mTargetIsReached

Serving == subject = "server" /\ UNCHANGED <<subject, dataVars, vars>>
Supervising == subject = "health" /\ UNCHANGED <<subject, dataVars, serverVars>>

MCNext ==
    \/ subject = "messages" /\ SdNext /\ UNCHANGED <<subject, channelVars, coreVars, serverVars, vars>>
    \/ subject = "stream" /\ StreamNext /\ UNCHANGED <<subject, channelVars, coreVars, serverVars, vars>>
    \/ subject = "checkpoint" /\ ChannelNext /\ UNCHANGED <<subject, wireVars, coreVars, serverVars, vars>>
    \/ subject = "result" /\ CoreNext /\ UNCHANGED <<subject, wireVars, channelVars, serverVars, vars>>
    \/ ServerNext /\ Serving
    \/ Next /\ Supervising

\* The fairness of the server and of the platform; the data are passive.
MCSpec ==
    /\ MCInit /\ [][MCNext]_mcVars
    /\ WF_serverVars(Serving /\ Agent) /\ WF_serverVars(Serving /\ StopStates)
    /\ WF_serverVars(Serving /\ Join)
    /\ WF_vars(Supervising /\ Main) /\ WF_vars(Supervising /\ AliveWorker)
    /\ WF_vars(Supervising /\ DeadlineWorker) /\ WF_vars(Supervising /\ Tick)
    /\ \A s \in Supervisions : WF_vars(Supervising /\ (ComputeUpdate(s) \/ ApplyUpdate(s)))

=============================================================================
