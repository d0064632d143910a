------------------------------- MODULE PubSub -------------------------------
(***************************************************************************)
(* SOME/IP publish/subscribe: the server of one event group, its clients   *)
(* and the UDP network between them.  In the server's process two threads  *)
(* meet: the owner, who starts, stops and publishes, and the poller, which *)
(* receives the requests and sends what is queued.  Both read the state of *)
(* the FSM first and act on what they read later.                          *)
(***************************************************************************)
EXTENDS Integers, FiniteSets, Sequences

CONSTANTS
    Clients,           \* users of SomeIpPubSubClient
    Waiters,           \* those of them that wait for an acknowledgement
    SessionMax,        \* the largest session id, 2^16 - 1 in the code
    MaxSubscriptions,  \* bound: nobody subscribes beyond this count
    MaxBuffer,         \* bound: acknowledgements a client holds
    MaxNet             \* bound: datagrams under way

ASSUME ClientsAssumption == IsFiniteSet(Clients) /\ Waiters \subseteq Clients
ASSUME SessionAssumption == SessionMax \in Nat \ {0}
ASSUME BoundsAssumption == {MaxSubscriptions, MaxBuffer, MaxNet} \subseteq Nat

VARIABLES
    mCurrentState,         \* PubSubState of the server
    mSubscriptionCounter,  \* SubscribedState::mSubscriptionCounter
    mSessionId,            \* of the next notification
    stopping,              \* the state Stop has read, or "no"
    request,               \* the request that the poller is handling
    mSendingQueue,         \* acknowledgements waiting for the poller
    mEventQueue,           \* whether notifications wait for the poller
    net,                   \* datagrams under way
    mMessageBuffer,        \* acknowledgements each client has received
    waiting,               \* each client in TryGetProcessedSubscription
    subscribers,           \* history: clients counted since the service is up
    stray                  \* history: someone not counted has unsubscribed

fsmVars == <<mCurrentState, mSubscriptionCounter>>
queueVars == <<mSendingQueue, mEventQueue>>
serverVars == <<fsmVars, mSessionId, stopping, request, queueVars>>
clientVars == <<mMessageBuffer, waiting>>
historyVars == <<subscribers, stray>>
psVars == <<serverVars, net, clientVars, historyVars>>

PubSubState == {"ServiceDown", "NotSubscribed", "Subscribed"}

NoRequest == [type |-> "none"]
Requests == [type : {"Subscribe", "Unsubscribe"}, client : Clients]
Acknowledgements == {"Ack", "Nack"}
Deliveries == [type : Acknowledgements, to : Waiters]
Events == [type : {"Event"}, to : Clients]
Handled == [type : {"Subscribe", "Unsubscribe"}, client : Clients, seen : PubSubState]

PubSubTypeOK ==
    /\ mCurrentState \in PubSubState
    /\ mSubscriptionCounter \in Int
    /\ mSessionId \in 1 .. SessionMax
    /\ stopping \in PubSubState \cup {"no"}
    /\ request \in Handled \cup {NoRequest}
    /\ mSendingQueue \subseteq Acknowledgements
    /\ mEventQueue \in BOOLEAN
    /\ net \subseteq Requests \cup Deliveries \cup Events
    /\ mMessageBuffer \in [Waiters -> Seq(Acknowledgements)]
    /\ waiting \in [Waiters -> {"no", "empty", "blocked", "found", "woken", "undefined"}]
    /\ subscribers \subseteq Clients
    /\ stray \in BOOLEAN

PubSubInit ==
    /\ mCurrentState = "ServiceDown"
    /\ mSubscriptionCounter = 0
    /\ mSessionId = 1
    /\ stopping = "no"
    /\ request = NoRequest
    /\ mSendingQueue = {}
    /\ mEventQueue = FALSE
    /\ net = {}
    /\ mMessageBuffer = [c \in Waiters |-> << >>]
    /\ waiting = [c \in Waiters |-> "no"]
    /\ subscribers = {}
    /\ stray = FALSE

-----------------------------------------------------------------------------
\* UDP: any of the datagrams may be lost, and those that are not arrive in any
\* order.
Transmit(datagrams) ==
    \E kept \in SUBSET datagrams :
        /\ Cardinality(net \cup kept) <= MaxNet
        /\ net' = net \cup kept

-----------------------------------------------------------------------------
(* The state machine of the server *)

\* FiniteStateMachine::Transit: only the current state may transit.
Transit(from, to) ==
    mCurrentState' = IF mCurrentState = from THEN to ELSE mCurrentState

\* Mutant: a new subscriber resets the counter of those before.
SubscribedResets(seen) ==
    /\ Transit(seen, "Subscribed")
    /\ mSubscriptionCounter' = 1

\* NotSubscribedState::Subscribed and SubscribedState::Subscribed, called on the
\* state that was seen; Activate of Subscribed starts to count at one.
Subscribed(seen) ==
    \/ /\ seen = "NotSubscribed"
       /\ Transit("NotSubscribed", "Subscribed")
       /\ mSubscriptionCounter' = IF mCurrentState = seen THEN 1 ELSE mSubscriptionCounter
    \/ /\ seen = "Subscribed"
       /\ mSubscriptionCounter' = mSubscriptionCounter + 1
       /\ UNCHANGED mCurrentState

\* SubscribedState::Unsubscribed: the last one leaves.
Unsubscribed ==
    /\ mSubscriptionCounter' = mSubscriptionCounter - 1
    /\ IF mSubscriptionCounter' <= 0
       THEN Transit("Subscribed", "NotSubscribed")
       ELSE UNCHANGED mCurrentState

-----------------------------------------------------------------------------
(* The poller of the server *)

\* A request for this event group arrives and the state is read.
onMessageReceived(m) ==
    /\ request = NoRequest
    /\ m \in net \cap Requests
    /\ request' = [type |-> m.type, client |-> m.client, seen |-> mCurrentState]
    /\ net' = net \ {m}
    /\ UNCHANGED <<fsmVars, mSessionId, stopping, queueVars, clientVars, historyVars>>

\* The answer is decided by what was seen; the queue refuses it when another
\* thread holds its lock.  (Without a waiter nobody looks at an answer, and it
\* is not followed.)
Acknowledge ==
    LET answer == IF request.seen = "ServiceDown" THEN "Nack" ELSE "Ack"
    IN  \/ Waiters # {} /\ mSendingQueue' = mSendingQueue \cup {answer}
        \/ UNCHANGED mSendingQueue

\* processEntry: a subscription is counted and acknowledged.
processEntry ==
    /\ request # NoRequest /\ request.type = "Subscribe"
    /\ IF request.seen = "ServiceDown" THEN UNCHANGED fsmVars ELSE Subscribed(request.seen)
    /\ Acknowledge
    /\ request' = NoRequest
    /\ subscribers' = IF request.seen # "ServiceDown" /\ mCurrentState' = "Subscribed"
                      THEN subscribers \cup {request.client} ELSE subscribers
    /\ UNCHANGED <<mSessionId, stopping, mEventQueue, net, clientVars, stray>>

\* The end of a subscription is not acknowledged.
processUnsubscription ==
    /\ request # NoRequest /\ request.type = "Unsubscribe"
    /\ IF request.seen = "Subscribed" THEN Unsubscribed ELSE UNCHANGED fsmVars
    /\ request' = NoRequest
    /\ subscribers' = subscribers \ {request.client}
    /\ stray' = (stray \/ (request.seen = "Subscribed" /\ request.client \notin subscribers))
    /\ UNCHANGED <<mSessionId, stopping, queueVars, net, clientVars>>

\* SdNetworkLayer::onSend: the queue is emptied; everyone in the group hears it.
onSend ==
    /\ request = NoRequest /\ mSendingQueue # {}
    /\ mSendingQueue' = {}
    /\ Transmit([type : mSendingQueue, to : Waiters])
    /\ UNCHANGED <<fsmVars, mSessionId, stopping, request, mEventQueue, clientVars, historyVars>>

\* PubSubEventNetworkLayer::onSend.
onSendEvents ==
    /\ request = NoRequest /\ mEventQueue
    /\ mEventQueue' = FALSE
    /\ Transmit(Events)
    /\ UNCHANGED <<fsmVars, mSessionId, stopping, request, mSendingQueue, clientVars, historyVars>>

ServerPoller ==
    \/ \E m \in net : onMessageReceived(m)
    \/ processEntry \/ processUnsubscription \/ onSend \/ onSendEvents

-----------------------------------------------------------------------------
(* The owner of the server *)

Start ==
    /\ mCurrentState = "ServiceDown" /\ stopping = "no"
    /\ mCurrentState' = "NotSubscribed"
    /\ UNCHANGED <<mSubscriptionCounter, mSessionId, stopping, request, queueVars, net,
                   clientVars, historyVars>>

\* Stop reads the state ...
StopReads ==
    /\ stopping = "no" /\ mCurrentState # "ServiceDown"
    /\ stopping' = mCurrentState
    /\ UNCHANGED <<fsmVars, mSessionId, request, queueVars, net, clientVars, historyVars>>

\* ... and tells that state, whatever is current by now.
StopActs ==
    /\ stopping # "no"
    /\ Transit(stopping, "ServiceDown")
    /\ stopping' = "no"
    /\ subscribers' = IF mCurrentState' = "ServiceDown" THEN {} ELSE subscribers
    /\ stray' = (stray /\ mCurrentState' # "ServiceDown")
    /\ UNCHANGED <<mSubscriptionCounter, mSessionId, request, queueVars, net, clientVars>>

\* Publish sends only while someone is subscribed; zero is no session id.  The
\* notification is dropped when the poller holds the lock of the queue.
Publish ==
    /\ mCurrentState = "Subscribed" /\ stopping = "no"
    /\ mSessionId' = IF mSessionId = SessionMax THEN 1 ELSE mSessionId + 1
    /\ mEventQueue' \in {TRUE, mEventQueue}
    /\ UNCHANGED <<fsmVars, stopping, request, mSendingQueue, net, clientVars, historyVars>>

Owner == Start \/ StopReads \/ StopActs \/ Publish

-----------------------------------------------------------------------------
(* The clients *)

Subscribe(c) ==
    /\ mSubscriptionCounter < MaxSubscriptions
    /\ Transmit({[type |-> "Subscribe", client |-> c]})
    /\ UNCHANGED <<serverVars, clientVars, historyVars>>

Unsubscribe(c) ==
    /\ Transmit({[type |-> "Unsubscribe", client |-> c]})
    /\ UNCHANGED <<serverVars, clientVars, historyVars>>

\* Mutant: the waiting thread is told before the message is queued.
receiveAcknowledgementEarly(c) ==
    \E m \in net \cap Deliveries :
        /\ m.to = c /\ waiting[c] = "blocked"
        /\ waiting' = [waiting EXCEPT ![c] = "found"]
        /\ UNCHANGED <<mMessageBuffer, serverVars, net, historyVars>>

\* Every acknowledgement that is heard, whoever it is for, is buffered, and a
\* thread that waits is told.  The buffer refuses one while it is read.
receiveAcknowledgement(c) ==
    \E m \in net \cap Deliveries :
        /\ m.to = c /\ Len(mMessageBuffer[c]) < MaxBuffer
        /\ net' = net \ {m}
        /\ \/ /\ mMessageBuffer' = [mMessageBuffer EXCEPT ![c] = Append(@, m.type)]
              /\ waiting' = [waiting EXCEPT ![c] = IF @ = "blocked" THEN "found" ELSE @]
           \/ /\ waiting[c] \in {"found", "woken"}
              /\ UNCHANGED clientVars
        /\ UNCHANGED <<serverVars, historyVars>>

\* TryGetProcessedSubscription looks at the buffer ...
TryGetProcessedSubscription(c) ==
    /\ waiting[c] = "no"
    /\ waiting' = [waiting EXCEPT ![c] = IF mMessageBuffer[c] = << >> THEN "empty" ELSE "found"]
    /\ UNCHANGED <<mMessageBuffer, serverVars, net, historyVars>>

\* ... waits, without looking again, when it was empty ...
WaitFor(c) ==
    /\ waiting[c] = "empty"
    /\ waiting' = [waiting EXCEPT ![c] = "blocked"]
    /\ UNCHANGED <<mMessageBuffer, serverVars, net, historyVars>>

\* (wait_for has a time limit)
WaitTimeout(c) ==
    /\ waiting[c] = "blocked"
    /\ waiting' = [waiting EXCEPT ![c] = "no"]
    /\ UNCHANGED <<mMessageBuffer, serverVars, net, historyVars>>

\* (and may return although nobody has notified)
SpuriousWakeup(c) ==
    /\ waiting[c] = "blocked"
    /\ waiting' = [waiting EXCEPT ![c] = "woken"]
    /\ UNCHANGED <<mMessageBuffer, serverVars, net, historyVars>>

\* ... and takes the first message, unless the buffer is being written.  What
\* the front of an empty buffer is, is undefined.
Dequeue(c) ==
    /\ waiting[c] \in {"found", "woken"}
    /\ IF mMessageBuffer[c] = << >>
       THEN /\ waiting' = [waiting EXCEPT ![c] = "undefined"]
            /\ UNCHANGED mMessageBuffer
       ELSE /\ waiting' = [waiting EXCEPT ![c] = "no"]
            /\ \/ mMessageBuffer' = [mMessageBuffer EXCEPT ![c] = Tail(@)]
               \/ UNCHANGED mMessageBuffer
    /\ UNCHANGED <<serverVars, net, historyVars>>

\* A notification reaches a client of the library, which hands it on.
receiveEvent(c) ==
    /\ [type |-> "Event", to |-> c] \in net
    /\ net' = net \ {[type |-> "Event", to |-> c]}
    /\ UNCHANGED <<serverVars, clientVars, historyVars>>

Waiting(c) == WaitFor(c) \/ WaitTimeout(c) \/ SpuriousWakeup(c) \/ Dequeue(c)

Client(c) == Subscribe(c) \/ Unsubscribe(c) \/ receiveEvent(c)

Waiter(c) == receiveAcknowledgement(c) \/ TryGetProcessedSubscription(c) \/ Waiting(c)

-----------------------------------------------------------------------------
PubSubNext ==
    \/ ServerPoller \/ Owner
    \/ \E c \in Clients : Client(c)
    \/ \E c \in Waiters : Waiter(c)

PubSubSpec == PubSubInit /\ [][PubSubNext]_psVars

-----------------------------------------------------------------------------
(* Properties *)

\* A client that the server has counted is served: as long as nobody
\* unsubscribes without having been counted, the server stays Subscribed while
\* a counted client is left.
AcceptedIsServed == subscribers # {} /\ ~stray => mCurrentState = "Subscribed"

\* A thread that was notified, or that saw a message, finds one: front() of an
\* empty queue is undefined and TryDequeue does not look.  (Only a thread that
\* wakes without a notification reads an empty buffer.)
DequeueFindsMessage == \A c \in Waiters : waiting[c] = "found" => mMessageBuffer[c] # << >>

=============================================================================
