--------------------------- MODULE UpdateCampaign ---------------------------
(***************************************************************************)
(* A vehicle update campaign: the VUCM process drives the package manager  *)
(* of a UCM process through the generated proxy and skeleton, over one TCP *)
(* connection.  VUCM runs one campaign and exits; campaigns follow each    *)
(* other, and one may start while UCM is still busy with the last request  *)
(* of a client that gave up.                                               *)
(*                                                                         *)
(* A request frame is a sequence of units.  The first holds the SOME/IP    *)
(* header (and with it the frame's length) and the transfer id; only       *)
(* TransferData, whose frame exceeds one recv() buffer, has more.          *)
(***************************************************************************)
EXTENDS PackageManager

CONSTANTS
    Bulk,            \* further units of a TransferData frame
    MaxCampaigns     \* bound on the campaigns started

ASSUME CampaignAssumption == Bulk \in Nat /\ MaxCampaigns \in Nat

VARIABLES
    vucm,            \* the VUCM process: [pc, package, id, sent]
    campaigns,       \* campaigns started so far
    toVucm,          \* replies on their way to the running VUCM
    backlog,         \* connection not yet accepted: its unread units, or None
    backlogEof,      \* its client is gone
    accepted,        \* connection mServer.Connection(): unread units, or None
    acceptedEof,     \* its client is gone
    staleReceiver,   \* an earlier connection is still registered in the poller
    mReceiveBuffer,  \* units received that make no complete frame yet
    mSendingQueue    \* replies not yet sent

network == <<toVucm, backlog, backlogEof, accepted, acceptedEof>>
server == <<staleReceiver, mReceiveBuffer, mSendingQueue>>
campaignVars == <<vars, vucm, campaigns, network, server>>

-----------------------------------------------------------------------------
(* Requests, frames and replies *)

Request(method, id, data) == [method |-> method, id |-> id, data |-> data]

\* The requests a VUCM makes; only TransferStart has no id yet.
ClientRequests ==
    {Request("TransferStart", None, [name |-> p, size |-> Len(Archive[p])]) : p \in Packages}
    \cup [method : {"TransferData"}, id : Nat, data : Packages \X Nat]
    \cup [method : {"TransferExit", "ProcessSwPackage", "Activate"}, id : Nat, data : {None}]

\* What stands for no id, no connection and no request is none of them.
ASSUME NoneAssumption ==
    None \notin Nat /\ None \notin Seq([of : ClientRequests, unit : Nat])

Units(request) == IF request.method = "TransferData" THEN 1 + Bulk ELSE 1

Frame(request) == [i \in 1..Units(request) |-> [of |-> request, unit |-> i]]

\* What is left in the buffer when a frame was cut off at the wrong byte: its
\* length field is arbitrary, and no number of later requests completes it.
Junk == [of |-> None, unit |-> 0]

FrameComplete(buffer) ==
    /\ buffer # << >>
    /\ buffer[1] # Junk
    /\ Len(buffer) >= Units(buffer[1].of)

FrameIntact(buffer) == buffer = Frame(buffer[1].of)

Reply(request, r, id) == [method |-> request.method, r |-> r, id |-> id]

-----------------------------------------------------------------------------
(* VUCM: Run() is the sequence of calls below.  Each call sends its request *)
(* and waits for any reply, at most five seconds; the first call that fails *)
(* ends the process.                                                        *)

Idle == [pc |-> "off", package |-> None, id |-> None, sent |-> 0]

Running == vucm.pc \notin {"off", "succeeded", "failed"}

\* The call after the current one, given how much of the file was read.
NextCall(pc, package, sent) ==
    CASE pc \in {"TransferStart", "TransferData"} ->
            IF sent < Len(Archive[package]) THEN "TransferData" ELSE "TransferExit"
      [] pc = "TransferExit" -> "ProcessSwPackage"
      [] pc = "ProcessSwPackage" -> "Activate"
      [] pc = "Activate" -> "succeeded"

RequestOf(pc, package, id, sent) ==
    CASE pc = "TransferStart" ->
            Request(pc, None, [name |-> package, size |-> Len(Archive[package])])
      [] pc = "TransferData" -> Request(pc, id, <<package, sent + 1>>)
      [] OTHER -> Request(pc, id, None)

\* The units of one request go out on the connection of the running VUCM.
Transmit(frame) ==
    IF backlog # None
    THEN backlog' = backlog \o frame /\ UNCHANGED accepted
    ELSE accepted' = accepted \o frame /\ UNCHANGED backlog

\* What VUCM sent and UCM has not read.
Unread == IF backlog # None THEN backlog ELSE accepted

\* The connection of the process that ends is closed.  Of what it sent, the
\* first n units arrive.
HangUp(n) ==
    IF backlog # None
    THEN /\ backlog' = SubSeq(backlog, 1, n) /\ backlogEof' = TRUE
         /\ UNCHANGED <<accepted, acceptedEof>>
    ELSE /\ accepted' = SubSeq(accepted, 1, n) /\ acceptedEof' = TRUE
         /\ UNCHANGED <<backlog, backlogEof>>

\* main(): connect and start a campaign.
Start(package) ==
    /\ vucm.pc = "off"
    /\ backlog = None
    /\ campaigns < MaxCampaigns
    /\ campaigns' = campaigns + 1
    /\ vucm' = [pc |-> "TransferStart", package |-> package, id |-> None, sent |-> 0]
    /\ backlog' = Frame(RequestOf("TransferStart", package, None, 0))
    /\ backlogEof' = FALSE
    /\ toVucm' = << >>
    /\ UNCHANGED <<vars, accepted, acceptedEof, server>>

\* Mutant: the calls after a failed one are made all the same.
CallSucceedsAlways(reply) == reply.id # None \/ vucm.pc # "TransferStart"

\* voidResult and the proxy's TransferStart: the status byte is ok, and where
\* an id is expected the reply is long enough to hold one.
CallSucceeds(reply) ==
    reply.r = "ok" /\ (vucm.pc = "TransferStart" => reply.id # None)

\* A reply is taken for the answer to the outstanding call, whatever it is
\* the answer to.  Of several that arrive together the last one counts.
OnReply ==
    \E n \in 1..Len(toVucm) :
        LET reply == toVucm[n]
            id == IF vucm.pc = "TransferStart" THEN reply.id ELSE vucm.id
            sent == IF vucm.pc = "TransferData" THEN vucm.sent + 1 ELSE vucm.sent
            next == NextCall(vucm.pc, vucm.package, sent)
        IN
        /\ Running
        /\ \/ /\ CallSucceeds(reply) /\ next # "succeeded"
              /\ vucm' = [vucm EXCEPT !.pc = next, !.id = id, !.sent = sent]
              /\ toVucm' = SubSeq(toVucm, n + 1, Len(toVucm))
              /\ Transmit(Frame(RequestOf(next, vucm.package, id, sent)))
              /\ UNCHANGED <<backlogEof, acceptedEof>>
           \/ /\ CallSucceeds(reply) /\ next = "succeeded"
              /\ vucm' = [vucm EXCEPT !.pc = "succeeded"]
              /\ toVucm' = << >>
              /\ HangUp(Len(Unread))
           \/ /\ ~CallSucceeds(reply)
              /\ vucm' = [vucm EXCEPT !.pc = "failed"]
              /\ toVucm' = << >>
              /\ HangUp(Len(Unread))
        /\ UNCHANGED <<vars, campaigns, server>>

\* sendAndWait's deadline passes, or the process is killed: the connection is
\* closed with the request sent in full, in part or not at all.
GiveUp ==
    /\ Running
    /\ vucm' = [vucm EXCEPT !.pc = "failed"]
    /\ toVucm' = << >>
    /\ \E n \in 0..Len(Unread) : HangUp(n)
    /\ UNCHANGED <<vars, campaigns, server>>

\* The process is gone; the exit status was its last act.
Exit ==
    /\ vucm.pc \in {"succeeded", "failed"}
    /\ vucm' = Idle
    /\ UNCHANGED <<vars, campaigns, network, server>>

-----------------------------------------------------------------------------
(* UCM: the callbacks of SocketRpcServer, each run by the poll loop.  The   *)
(* descriptor of a connection stays registered until the server object is   *)
(* destroyed, while Receive and send always use the newest connection.  Of  *)
(* a descriptor the poller runs the sender before the receiver, and one     *)
(* that few short replies went to is writable: onReceive finds the queue    *)
(* empty.                                                                   *)

onAccept ==
    /\ backlog # None
    /\ staleReceiver' = (staleReceiver \/ accepted # None)
    /\ accepted' = backlog /\ acceptedEof' = backlogEof
    /\ backlog' = None /\ backlogEof' = FALSE
    /\ UNCHANGED <<vars, vucm, campaigns, toVucm, mReceiveBuffer, mSendingQueue>>

\* The skeleton's handlers: one method of the package manager each.
handleTransferStart(request, r) ==
    request.method = "TransferStart" /\ TransferStart(request.data, r)

handleTransferData(request, r) ==
    request.method = "TransferData" /\ TransferData(request.id, request.data, r)

handleTransferExit(request, r) ==
    request.method = "TransferExit" /\ TransferExit(request.id, r)

handleProcessSwPackage(request, r) ==
    request.method = "ProcessSwPackage" /\ ProcessSwPackage(request.id, r)

handleActivate(request, r) ==
    request.method = "Activate" /\ Activate(r)

\* registerHandlers: the method id chooses the handler.
Handle(request, r) ==
    \/ handleTransferStart(request, r)
    \/ handleTransferData(request, r)
    \/ handleTransferExit(request, r)
    \/ handleProcessSwPackage(request, r)
    \/ handleActivate(request, r)

\* A complete frame that is not intact is TransferData with a foreign block.
Decoded(buffer) ==
    IF FrameIntact(buffer) THEN buffer[1].of
    ELSE [buffer[1].of EXCEPT !.data = <<None, 0>>]

\* recv() returned a unit: complete frames are handled, and their replies
\* queued.
onReceive ==
    /\ accepted # None /\ accepted # << >>
    /\ mSendingQueue = << >>
    /\ accepted' = Tail(accepted)
    /\ LET buffer == Append(mReceiveBuffer, Head(accepted)) IN
       IF ~FrameComplete(buffer)
       THEN mReceiveBuffer' = buffer /\ UNCHANGED <<vars, mSendingQueue>>
       ELSE \E r \in Results :
              /\ Handle(Decoded(buffer), r)
              /\ mSendingQueue' = Append(mSendingQueue,
                     Reply(buffer[1].of, r,
                           IF buffer[1].of.method = "TransferStart" /\ r = "ok"
                           THEN mNextId ELSE None))
              /\ mReceiveBuffer' \in IF FrameIntact(buffer) THEN {<< >>} ELSE {<< >>, <<Junk>>}
    /\ UNCHANGED <<vucm, campaigns, toVucm, backlog, backlogEof, acceptedEof, staleReceiver>>

\* recv() returned 0 or less: the client is gone, or the poller reported the
\* end of an earlier connection and the newest one has nothing to read.
onReceiveNothing ==
    /\ accepted = << >>
    /\ mSendingQueue = << >>
    /\ acceptedEof \/ staleReceiver
    /\ onClientDisconnected
    /\ UNCHANGED <<vucm, campaigns, network, server>>

\* Queued replies go to the newest connection, whoever they are for.
onSend ==
    /\ accepted # None
    /\ mSendingQueue # << >>
    /\ mSendingQueue' = << >>
    /\ toVucm' = IF acceptedEof THEN toVucm ELSE toVucm \o mSendingQueue
    /\ UNCHANGED <<vars, vucm, campaigns, backlog, backlogEof, accepted, acceptedEof,
                   staleReceiver, mReceiveBuffer>>

\* The UCM process dies and is restarted; every connection breaks.
RestartUcm ==
    /\ Restart
    /\ vucm' = IF Running THEN [vucm EXCEPT !.pc = "failed"] ELSE vucm
    /\ toVucm' = << >>
    /\ backlog' = None /\ backlogEof' = FALSE
    /\ accepted' = None /\ acceptedEof' = FALSE
    /\ staleReceiver' = FALSE
    /\ mReceiveBuffer' = << >>
    /\ mSendingQueue' = << >>
    /\ UNCHANGED campaigns

-----------------------------------------------------------------------------

CampaignInit ==
    /\ Init
    /\ vucm = Idle
    /\ campaigns = 0
    /\ toVucm = << >>
    /\ backlog = None /\ backlogEof = FALSE
    /\ accepted = None /\ acceptedEof = FALSE
    /\ staleReceiver = FALSE
    /\ mReceiveBuffer = << >>
    /\ mSendingQueue = << >>

UcmStep == onAccept \/ onReceive \/ onReceiveNothing \/ onSend

CampaignNext ==
    \/ \E p \in Packages : Start(p)
    \/ OnReply
    \/ GiveUp
    \/ Exit
    \/ UcmStep
    \/ RestartUcm

CampaignSpec == CampaignInit /\ [][CampaignNext]_campaignVars

\* The poll loop of UCM runs every callback whose descriptor stays ready, and
\* VUCM's wait ends with a reply or at its deadline.
Fairness ==
    /\ WF_campaignVars(onAccept)
    /\ WF_campaignVars(onReceive)
    /\ WF_campaignVars(onReceiveNothing)
    /\ WF_campaignVars(onSend)
    /\ WF_campaignVars(OnReply \/ GiveUp)

FairCampaignSpec == CampaignSpec /\ Fairness

-----------------------------------------------------------------------------
(* Properties *)

\* The archive of p has all a package needs.
WellFormed(p) ==
    /\ BinaryName[p] # None
    /\ \A x \in {"metadata.json", "process_entry.xml", BinaryName[p]} :
          \E i \in DOMAIN Archive[p] : x \in Archive[p][i]

\* The target machine has package p: its own binary and its process, and a
\* manifest that can be read.
Installed(p) ==
    /\ installed[BinaryName[p]] = p
    /\ manifest.readable
    /\ \E i \in DOMAIN manifest.processes : manifest.processes[i] = ProcessName[p]

\* When VUCM reports success for a well-formed package, the target machine has
\* that package.  Holds although a reply is never matched with its request, a
\* late reply may reach the wrong client, which then drives the session of
\* another package, and files of earlier packages linger in the staging
\* directory.  It needs the file storage: a UCM that could not open it takes
\* the upload for stored and unpacks what an earlier life left under the name.
SuccessMeansInstalled ==
    [][vucm.pc # "succeeded" /\ vucm'.pc = "succeeded" /\ mStorage /\ WellFormed(vucm.package) =>
          Installed(vucm.package)]_campaignVars

\* Self-healing: when a campaign fails, at whatever point and with whatever
\* part of a request on its way, the manager does not stay in an update that
\* nobody drives.
FailedCampaignIsCleared ==
    vucm.pc = "failed" ~> mState \in {"kIdle", "kActivated"}

=============================================================================
