------------------------- MODULE VehicleStatusProofs -------------------------
(***************************************************************************)
(* Proofs about VehicleStatus and the publish/subscribe server it is built *)
(* on, for every finite set of clients, every set of watchdogs and every   *)
(* number of log entries: who is counted is served, who is woken finds a   *)
(* message, the storages of the applications implement AtomicStorage, and  *)
(* the event group is down after StopOfferService.                         *)
(***************************************************************************)
EXTENDS VehicleStatus, FiniteSetTheorems, TLAPS

(* PubSub *)

\* What the counting needs of the types.
CountTypes ==
    /\ mCurrentState \in PubSubState
    /\ mSubscriptionCounter \in Int
    /\ stopping \in PubSubState \cup {"no"}
    /\ subscribers \in SUBSET Clients
    /\ request = NoRequest \/ request \in Handled

\* Only the poller lets anyone in: while it handles a request that came before
\* the first subscriber, there is none.
SeenBefore ==
    request # NoRequest /\ request.seen # "Subscribed" => mCurrentState # "Subscribed"

\* The counter may be too high, when one client subscribes twice, and is never
\* too low unless someone stray has unsubscribed.
CounterCovers ==
    /\ mCurrentState = "Subscribed" /\ ~stray => Cardinality(subscribers) <= mSubscriptionCounter
    /\ mCurrentState # "Subscribed" /\ ~stray => subscribers = {}

CountInv == CountTypes /\ SeenBefore /\ CounterCovers

-----------------------------------------------------------------------------
\* Cardinalities of the counted clients, before and after one comes or goes.
LEMMA SubscriberCount ==
    ASSUME NEW S \in SUBSET Clients, NEW c \in Clients
    PROVE  /\ Cardinality(S) \in Nat
           /\ Cardinality(S) = 0 <=> S = {}
           /\ Cardinality(S \cup {c}) <= Cardinality(S) + 1
           /\ c \in S => Cardinality(S \ {c}) = Cardinality(S) - 1
           /\ (c \notin S => S \ {c} = S)
           /\ Cardinality(S \cup {c}) \in Nat /\ Cardinality(S \ {c}) \in Nat
           /\ Cardinality(S \ {c}) = 0 <=> S \ {c} = {}
  <1>1. IsFiniteSet(S)
    BY ClientsAssumption, FS_Subset
  <1>2. Cardinality(S) \in Nat /\ (Cardinality(S) = 0 <=> S = {})
    BY <1>1, FS_CardinalityType, FS_EmptySet
  <1>3. /\ IsFiniteSet(S \cup {c})
        /\ Cardinality(S \cup {c}) = IF c \in S THEN Cardinality(S) ELSE Cardinality(S) + 1
    BY <1>1, FS_AddElement
  <1>4. /\ IsFiniteSet(S \ {c})
        /\ Cardinality(S \ {c}) = IF c \in S THEN Cardinality(S) - 1 ELSE Cardinality(S)
    BY <1>1, FS_RemoveElement
  <1>5. Cardinality(S \cup {c}) \in Nat /\ Cardinality(S \ {c}) \in Nat
    BY <1>3, <1>4, FS_CardinalityType
  <1>6. Cardinality(S \ {c}) = 0 <=> S \ {c} = {}
    BY <1>4, FS_EmptySet
  <1>7. c \notin S => S \ {c} = S
    OBVIOUS
  <1> QED
    BY <1>2, <1>3, <1>4, <1>5, <1>6, <1>7

\* The cardinality of nobody is zero.
LEMMA NobodyCounts == Cardinality({}) = 0
  BY FS_EmptySet

LEMMA InitCount == PubSubInit => CountInv
  BY NobodyCounts
  DEF PubSubInit, CountInv, CountTypes, SeenBefore, CounterCovers, PubSubState

\* No request is the value that stands for none.
LEMMA HandledIsRequest == NoRequest \notin Handled
  BY DEF NoRequest, Handled

\* A subscription is processed.
LEMMA EntryCounts == CountInv /\ processEntry => CountInv'
  <1> SUFFICES ASSUME CountInv, processEntry PROVE CountInv'
    OBVIOUS
  <1>1. request \in Handled /\ request.client \in Clients /\ request.seen \in PubSubState
    BY DEF processEntry, CountInv, CountTypes, Handled
  <1>2. request' = NoRequest /\ UNCHANGED <<stopping, stray>>
    BY DEF processEntry
  <1>3. SeenBefore'
    BY <1>2 DEF SeenBefore
  <1> DEFINE c == request.client
  <1>4. /\ Cardinality(subscribers) \in Nat /\ Cardinality(subscribers \cup {c}) \in Nat
        /\ Cardinality(subscribers \cup {c}) <= Cardinality(subscribers) + 1
        /\ Cardinality(subscribers) = 0 <=> subscribers = {}
    BY <1>1, SubscriberCount DEF CountInv, CountTypes
  <1>5. CASE request.seen = "ServiceDown"
    <2>1. UNCHANGED <<mCurrentState, mSubscriptionCounter, subscribers>>
      BY <1>5 DEF processEntry, fsmVars
    <2> QED
      BY <2>1, <1>2, <1>3 DEF CountInv, CountTypes, CounterCovers
  <1>6. CASE request.seen = "NotSubscribed"
    <2>1. mCurrentState # "Subscribed"
      BY <1>6, HandledIsRequest, <1>1 DEF CountInv, SeenBefore
    <2>2. /\ mCurrentState' = IF mCurrentState = "NotSubscribed" THEN "Subscribed" ELSE mCurrentState
          /\ mSubscriptionCounter' =
                 IF mCurrentState = "NotSubscribed" THEN 1 ELSE mSubscriptionCounter
          /\ subscribers' = IF mCurrentState' = "Subscribed" THEN subscribers \cup {c} ELSE subscribers
      BY <1>6 DEF processEntry, Subscribed, Transit
    <2>3. CountTypes'
      BY <2>2, <1>1, <1>2 DEF CountInv, CountTypes, PubSubState
    <2>4. CASE stray
      BY <2>3, <2>4, <1>2, <1>3 DEF CountInv, CounterCovers
    <2>5. CASE ~stray
      <3>1. Cardinality(subscribers \cup {c}) <= 1
        BY <2>1, <2>5, <1>4 DEF CountInv, CounterCovers
      <3> QED
        BY <3>1, <2>1, <2>2, <2>3, <2>5, <1>2, <1>3 DEF CountInv, CounterCovers
    <2> QED
      BY <2>4, <2>5
  <1>7. CASE request.seen = "Subscribed"
    <2>1. /\ mSubscriptionCounter' = mSubscriptionCounter + 1
          /\ UNCHANGED mCurrentState
          /\ subscribers' = IF mCurrentState = "Subscribed" THEN subscribers \cup {c} ELSE subscribers
      BY <1>7 DEF processEntry, Subscribed
    <2>2. CountTypes'
      BY <2>1, <1>1, <1>2 DEF CountInv, CountTypes
    <2>3. CounterCovers'
      BY <2>1, <1>2, <1>4 DEF CountInv, CountTypes, CounterCovers
    <2> QED
      BY <2>2, <2>3, <1>3 DEF CountInv
  <1> QED
    BY <1>1, <1>5, <1>6, <1>7 DEF PubSubState

\* The end of a subscription is processed.
LEMMA UnsubscriptionCounts == CountInv /\ processUnsubscription => CountInv'
  <1> SUFFICES ASSUME CountInv, processUnsubscription PROVE CountInv'
    OBVIOUS
  <1>1. request \in Handled /\ request.client \in Clients /\ request.seen \in PubSubState
    BY DEF processUnsubscription, CountInv, CountTypes, Handled
  <1> DEFINE c == request.client
  <1>2. /\ request' = NoRequest /\ UNCHANGED stopping
        /\ subscribers' = subscribers \ {c}
        /\ stray' = (stray \/ (request.seen = "Subscribed" /\ c \notin subscribers))
    BY Zenon DEF processUnsubscription
  <1>3. SeenBefore'
    BY <1>2 DEF SeenBefore
  <1>4. /\ Cardinality(subscribers) \in Nat /\ Cardinality(subscribers \ {c}) \in Nat
        /\ c \in subscribers => Cardinality(subscribers \ {c}) = Cardinality(subscribers) - 1
        /\ Cardinality(subscribers \ {c}) = 0 <=> subscribers \ {c} = {}
    <2>1. c \in Clients /\ subscribers \in SUBSET Clients
      BY <1>1 DEF CountInv, CountTypes
    <2> HIDE DEF c
    <2> QED
      BY <2>1, SubscriberCount, Zenon
  <1>5. CASE request.seen # "Subscribed"
    <2>1. UNCHANGED <<mCurrentState, mSubscriptionCounter>>
      BY <1>5 DEF processUnsubscription, fsmVars
    <2>2. mCurrentState # "Subscribed"
      BY <1>5, <1>1, HandledIsRequest DEF CountInv, SeenBefore
    <2>3. stray' => stray
      BY <1>5, <1>2
    <2>4. CountTypes'
      BY <2>1, <1>2 DEF CountInv, CountTypes
    <2>5. ~stray' => subscribers' = {}
      BY <1>2, <2>2 DEF CountInv, CounterCovers
    <2> QED
      BY <2>1, <2>2, <2>4, <2>5, <1>3 DEF CountInv, CounterCovers
  <1>6. CASE request.seen = "Subscribed"
    <2>1. /\ mSubscriptionCounter' = mSubscriptionCounter - 1
          /\ mCurrentState' = IF mSubscriptionCounter - 1 <= 0 /\ mCurrentState = "Subscribed"
                              THEN "NotSubscribed" ELSE mCurrentState
      BY <1>6 DEF processUnsubscription, Unsubscribed, Transit
    <2>2. CountTypes'
      BY <2>1, <1>2 DEF CountInv, CountTypes, PubSubState
    <2>3. ~stray' => ~stray /\ c \in subscribers
      BY <1>2, <1>6
    <2>4. CounterCovers'
      BY <2>1, <2>3, <1>2, <1>4 DEF CountInv, CountTypes, CounterCovers
    <2> QED
      BY <2>2, <2>4, <1>3 DEF CountInv
  <1> QED
    BY <1>5, <1>6

\* The owner starts, stops and publishes.
LEMMA OwnerCounts == CountInv /\ Owner => CountInv'
  <1> SUFFICES ASSUME CountInv, Owner PROVE CountInv'
    OBVIOUS
  <1>1. CASE Start
    <2>1. /\ mCurrentState = "ServiceDown" /\ mCurrentState' = "NotSubscribed"
          /\ UNCHANGED <<mSubscriptionCounter, stopping, request, subscribers, stray>>
      BY <1>1 DEF Start, historyVars
    <2> QED
      BY <2>1 DEF CountInv, CountTypes, SeenBefore, CounterCovers, PubSubState
  <1>2. CASE StopReads
    <2>1. /\ stopping' = mCurrentState
          /\ UNCHANGED <<mCurrentState, mSubscriptionCounter, request, subscribers, stray>>
      BY <1>2 DEF StopReads, fsmVars, historyVars
    <2> QED
      BY <2>1 DEF CountInv, CountTypes, SeenBefore, CounterCovers
  <1>3. CASE StopActs
    <2>1. /\ mCurrentState' = IF mCurrentState = stopping THEN "ServiceDown" ELSE mCurrentState
          /\ stopping' = "no"
          /\ subscribers' = IF mCurrentState' = "ServiceDown" THEN {} ELSE subscribers
          /\ stray' = (stray /\ mCurrentState' # "ServiceDown")
          /\ UNCHANGED <<mSubscriptionCounter, request>>
      BY <1>3 DEF StopActs, Transit
    <2>2. CASE mCurrentState' = "ServiceDown"
      BY <2>1, <2>2 DEF CountInv, CountTypes, SeenBefore, CounterCovers, PubSubState
    <2>3. CASE mCurrentState' # "ServiceDown"
      <3>1. UNCHANGED <<mCurrentState, subscribers>> /\ (stray' <=> stray)
        BY <2>1, <2>3
      <3> QED
        BY <2>1, <3>1 DEF CountInv, CountTypes, SeenBefore, CounterCovers
    <2> QED
      BY <2>2, <2>3
  <1>4. CASE Publish
    BY <1>4 DEF Publish, fsmVars, historyVars, CountInv, CountTypes, SeenBefore, CounterCovers
  <1> QED
    BY <1>1, <1>2, <1>3, <1>4 DEF Owner

\* A request is read from the network, together with the state.
LEMMA RequestCounts ==
    ASSUME NEW m, CountInv, onMessageReceived(m)
    PROVE  CountInv'
  <1>1. m.type \in {"Subscribe", "Unsubscribe"} /\ m.client \in Clients
    BY DEF onMessageReceived, Requests
  <1>2. request' \in Handled /\ request'.seen = mCurrentState
    BY <1>1 DEF onMessageReceived, CountInv, CountTypes, Handled
  <1>3. UNCHANGED <<mCurrentState, mSubscriptionCounter, stopping, subscribers, stray>>
    BY DEF onMessageReceived, fsmVars, historyVars
  <1> QED
    BY <1>2, <1>3 DEF CountInv, CountTypes, SeenBefore, CounterCovers

\* Everything else leaves the counting alone.
LEMMA OthersKeepCount ==
    ASSUME PubSubNext, ~Owner, ~processEntry, ~processUnsubscription,
           ~ \E m \in net : onMessageReceived(m)
    PROVE  UNCHANGED <<mCurrentState, mSubscriptionCounter, stopping, request, subscribers, stray>>
  <1>1. CASE onSend \/ onSendEvents
    BY <1>1 DEF onSend, onSendEvents, fsmVars, historyVars
  <1>2. CASE \E c \in Clients : Client(c)
    BY <1>2 DEF Client, Subscribe, Unsubscribe, receiveEvent, serverVars, fsmVars, historyVars
  <1>3. CASE \E c \in Waiters : Waiter(c)
    BY <1>3 DEF Waiter, Waiting, receiveAcknowledgement, TryGetProcessedSubscription, WaitFor,
                WaitTimeout, SpuriousWakeup, Dequeue, serverVars, fsmVars, historyVars
  <1> QED
    BY <1>1, <1>2, <1>3 DEF PubSubNext, ServerPoller

LEMMA NextCounts == CountInv /\ [PubSubNext]_psVars => CountInv'
  <1> SUFFICES ASSUME CountInv, [PubSubNext]_psVars PROVE CountInv'
    OBVIOUS
  <1>1. CASE Owner
    BY <1>1, OwnerCounts
  <1>2. CASE processEntry
    BY <1>2, EntryCounts
  <1>3. CASE processUnsubscription
    BY <1>3, UnsubscriptionCounts
  <1>4. CASE \E m \in net : onMessageReceived(m)
    BY <1>4, RequestCounts
  <1>5. CASE UNCHANGED <<mCurrentState, mSubscriptionCounter, stopping, request, subscribers, stray>>
    BY <1>5 DEF CountInv, CountTypes, SeenBefore, CounterCovers
  <1>6. CASE UNCHANGED psVars
    BY <1>5, <1>6 DEF psVars, serverVars, fsmVars, historyVars
  <1> QED
    BY <1>1, <1>2, <1>3, <1>4, <1>5, <1>6, OthersKeepCount

\* As long as nobody unsubscribes who was not counted, the server is Subscribed
\* while a client that it counted is left, although Stop, Start and the poller
\* act on states they have read before.
THEOREM CountedIsServed == PubSubSpec => []AcceptedIsServed
  <1>1. CountInv => AcceptedIsServed
    BY DEF CountInv, CounterCovers, AcceptedIsServed
  <1> QED
    BY <1>1, InitCount, NextCounts, PTL DEF PubSubSpec

-----------------------------------------------------------------------------
(* The buffer of a waiting client *)

BufferInv ==
    /\ mMessageBuffer \in [Waiters -> Seq(Acknowledgements)]
    /\ DOMAIN waiting = Waiters /\ waiting = [c \in Waiters |-> waiting[c]]
    /\ DequeueFindsMessage

LEMMA InitBuffer == PubSubInit => BufferInv
  BY DEF PubSubInit, BufferInv, DequeueFindsMessage

LEMMA WaiterKeepsBuffer ==
    ASSUME BufferInv, NEW c \in Waiters, Waiter(c)
    PROVE  BufferInv'
  <1>1. CASE receiveAcknowledgement(c)
    <2>1. PICK m \in net \cap Deliveries :
              \/ /\ mMessageBuffer' = [mMessageBuffer EXCEPT ![c] = Append(@, m.type)]
                 /\ waiting' = [waiting EXCEPT ![c] = IF @ = "blocked" THEN "found" ELSE @]
              \/ UNCHANGED <<mMessageBuffer, waiting>>
      BY <1>1 DEF receiveAcknowledgement, clientVars
    <2>2. m.type \in Acknowledgements
      BY <2>1 DEF Deliveries
    <2>3. Append(mMessageBuffer[c], m.type) \in Seq(Acknowledgements)
          /\ Append(mMessageBuffer[c], m.type) # << >>
      <3> DEFINE s == mMessageBuffer[c]
      <3>1. s \in Seq(Acknowledgements)
        BY DEF BufferInv
      <3> HIDE DEF s
      <3>2. Append(s, m.type) \in Seq(Acknowledgements) /\ Len(Append(s, m.type)) = Len(s) + 1
        BY <2>2, <3>1
      <3>3. Len(s) \in Nat /\ Len(<< >>) = 0
        BY <3>1
      <3>4. ASSUME Append(s, m.type) = << >> PROVE FALSE
        <4>1. Len(Append(s, m.type)) = Len(<< >>)
          BY <3>4, Zenon
        <4> QED
          BY <4>1, <3>2, <3>3
      <3> QED
        BY <3>2, <3>4 DEF s
    <2> QED
      BY <2>1, <2>3 DEF BufferInv, DequeueFindsMessage
  <1>2. CASE TryGetProcessedSubscription(c)
    BY <1>2 DEF TryGetProcessedSubscription, BufferInv, DequeueFindsMessage
  <1>3. CASE WaitFor(c) \/ WaitTimeout(c) \/ SpuriousWakeup(c)
    BY <1>3 DEF WaitFor, WaitTimeout, SpuriousWakeup, BufferInv, DequeueFindsMessage
  <1>4. CASE Dequeue(c)
    <2>1. mMessageBuffer[c] # << >> => Tail(mMessageBuffer[c]) \in Seq(Acknowledgements)
      BY DEF BufferInv
    <2> QED
      BY <1>4, <2>1 DEF Dequeue, BufferInv, DequeueFindsMessage
  <1> QED
    BY <1>1, <1>2, <1>3, <1>4 DEF Waiter, Waiting

LEMMA NextBuffer == BufferInv /\ [PubSubNext]_psVars => BufferInv'
  <1> SUFFICES ASSUME BufferInv, [PubSubNext]_psVars PROVE BufferInv'
    OBVIOUS
  <1>1. CASE \E c \in Waiters : Waiter(c)
    BY <1>1, WaiterKeepsBuffer
  <1>2. CASE ServerPoller \/ Owner \/ (\E c \in Clients : Client(c)) \/ UNCHANGED psVars
    <2>1. UNCHANGED <<mMessageBuffer, waiting>>
      BY <1>2 DEF ServerPoller, Owner, Client, onMessageReceived, processEntry,
                  processUnsubscription, onSend, onSendEvents, Start, StopReads, StopActs, Publish,
                  Subscribe, Unsubscribe, receiveEvent, psVars, clientVars
    <2> QED
      BY <2>1 DEF BufferInv, DequeueFindsMessage
  <1> QED
    BY <1>1, <1>2 DEF PubSubNext

\* A thread of SomeIpPubSubClient that was notified, or saw a message, finds one
\* in its buffer when it dequeues.
THEOREM NotifiedFindsMessage == PubSubSpec => []DequeueFindsMessage
  <1>1. BufferInv => DequeueFindsMessage
    BY DEF BufferInv
  <1> QED
    BY <1>1, InitBuffer, NextBuffer, PTL DEF PubSubSpec

-----------------------------------------------------------------------------
(* VehicleStatus *)

\* No map is one of the marks: a map with any keys has the key 0.
LEMMA MarksAreNoContents ==
    /\ Closed \notin Contents /\ Torn \notin Contents /\ Missing \notin Contents
    /\ Closed # Torn /\ Torn # Missing
    /\ Blank \in Contents
  <1>1. ASSUME 1 \in Keys PROVE 0 \in Keys
    <2>1. PICK o \in Owners : 1 \in 0 .. MaxLog[o] - 1
      BY <1>1 DEF Keys
    <2>2. MaxLog[o] \in Nat
      BY LogAssumption
    <2>3. 0 \in 0 .. MaxLog[o] - 1
      BY <2>1, <2>2
    <2> QED
      BY <2>3 DEF Keys
  <1>2. Keys # {1}
    BY <1>1
  <1>3. \A f \in Contents : DOMAIN f = Keys
    BY DEF Contents
  <1>4. DOMAIN Closed = {1} /\ DOMAIN Torn = {1} /\ DOMAIN Missing = {1}
    BY DEF Closed, Torn, Missing
  <1>5. Closed # Torn /\ Torn # Missing
    BY DEF Closed, Torn, Missing
  <1>6. Blank \in Contents
    BY DEF Blank, Contents
  <1> QED
    BY <1>2, <1>3, <1>4, <1>5, <1>6

-----------------------------------------------------------------------------
(* The storages *)

\* A file is always a finished map, and a process that saves has a storage, knows
\* the map it has begun to walk and, before it renames, has a finished file.
StoreType ==
    /\ store \in [Owners -> [root : Contents \cup {Closed}, file : Contents,
                             tmp : Contents \cup {Torn, Missing},
                             walk : Contents \cup {Missing}]]
    /\ mLogCounter \in [Owners -> Nat]

VehicleSaves ==
    /\ evPc \in {"syncing", "renaming"} => IsOpen(Vehicle)
    /\ evPc = "syncing" => store[Vehicle].walk \in Contents
    /\ evPc = "renaming" => store[Vehicle].tmp \in Contents

WatchdogSaves(w) ==
    /\ waPc[w] \in {"handling", "write", "count", "sync", "writing", "renaming"} => IsOpen(w)
    /\ waPc[w] = "writing" => store[w].walk \in Contents
    /\ waPc[w] = "renaming" => store[w].tmp \in Contents

StorageInv ==
    /\ StoreType
    /\ DOMAIN waPc = Clients /\ waPc = [w \in Clients |-> waPc[w]]
    /\ VehicleSaves
    /\ \A w \in Clients : WatchdogSaves(w)

\* What a step may do to the storage of o.
StoreStep(o) ==
    \/ Open(o)
    \/ \E k \in Nat, v \in Values : SetValue(o, k, v)
    \/ IsOpen(o) /\ SyncBegins(o)
    \/ IsOpen(o) /\ store[o].walk \in Contents /\ SyncWritten(o)
    \/ IsOpen(o) /\ store[o].tmp \in Contents /\ SyncRenamed(o)
    \/ SyncFails(o)
    \/ CloseStorage(o)

\* The entries that are logged.
LEMMA EntriesAreValues ==
    "log" \in Values /\ "event" \in Values
  BY EntriesAssumption

\* An entry that is set leaves a whole map.
LEMMA SetKeepsContents ==
    ASSUME StoreType, NEW o \in Owners, NEW k \in Nat, NEW v \in Values, k < MaxLog[o], IsOpen(o)
    PROVE  [store[o].root EXCEPT ![k] = v] \in Contents
  <1>1. MaxLog[o] \in Nat
    BY LogAssumption
  <1>2. k \in 0 .. MaxLog[o] - 1
    BY <1>1
  <1>3. k \in Keys
    BY <1>2 DEF Keys
  <1>4. store[o].root \in Contents
    BY DEF StoreType, IsOpen
  <1> QED
    BY <1>3, <1>4 DEF Contents

\* A step on one storage keeps the types, the other storages and, unless the
\* process ends or its file is written, what its saving rests on.
LEMMA StoreStepType ==
    ASSUME StoreType, NEW o \in Owners, StoreStep(o)
    PROVE  /\ store' \in [Owners -> [root : Contents \cup {Closed}, file : Contents,
                                     tmp : Contents \cup {Torn, Missing},
                                     walk : Contents \cup {Missing}]]
           /\ \A x \in Owners : x # o => store'[x] = store[x]
  <1> USE DEF StoreType
  <1>1. CASE Open(o)
    BY <1>1, MarksAreNoContents DEF Open
  <1>2. CASE \E k \in Nat, v \in Values : SetValue(o, k, v)
    <2>1. PICK k \in Nat, v \in Values : SetValue(o, k, v)
      BY <1>2
    <2>2. CASE k < MaxLog[o] /\ IsOpen(o)
      <3>1. store' = [store EXCEPT ![o].root = [store[o].root EXCEPT ![k] = v]]
        BY <2>1, <2>2 DEF SetValue
      <3>2. [store[o].root EXCEPT ![k] = v] \in Contents
        BY <2>2, SetKeepsContents
      <3> QED
        BY <3>1, <3>2
    <2>3. CASE ~(k < MaxLog[o] /\ IsOpen(o))
      BY <2>1, <2>3 DEF SetValue
    <2> QED
      BY <2>2, <2>3
  <1>3. CASE IsOpen(o) /\ SyncBegins(o)
    BY <1>3 DEF SyncBegins, IsOpen
  <1>4. CASE IsOpen(o) /\ store[o].walk \in Contents /\ SyncWritten(o)
    <2>1. PICK c \in Contents : store' = [store EXCEPT ![o].tmp = c, ![o].walk = Missing]
      BY <1>4 DEF SyncWritten
    <2> QED
      BY <2>1
  <1>5. CASE IsOpen(o) /\ store[o].tmp \in Contents /\ SyncRenamed(o)
    BY <1>5 DEF SyncRenamed
  <1>6. CASE SyncFails(o)
    BY <1>6 DEF SyncFails
  <1>7. CASE CloseStorage(o)
    BY <1>7 DEF CloseStorage
  <1> QED
    BY <1>1, <1>2, <1>3, <1>4, <1>5, <1>6, <1>7 DEF StoreStep

\* Setting an entry closes no storage, and touches neither a temporary file nor
\* what a save has begun with.
LEMMA SetKeepsSaving ==
    ASSUME StoreType, NEW o \in Owners, NEW k \in Nat, NEW v \in Values, SetValue(o, k, v)
    PROVE  /\ IsOpen(o) => IsOpen(o)'
           /\ store'[o].tmp = store[o].tmp /\ store'[o].walk = store[o].walk
  <1>1. CASE k < MaxLog[o] /\ IsOpen(o)
    <2>1. store' = [store EXCEPT ![o].root = [store[o].root EXCEPT ![k] = v]]
      BY <1>1 DEF SetValue
    <2>2. [store[o].root EXCEPT ![k] = v] \in Contents
      BY <1>1, SetKeepsContents
    <2> QED
      BY <2>1, <2>2, MarksAreNoContents DEF StoreType, IsOpen
  <1>2. CASE ~(k < MaxLog[o] /\ IsOpen(o))
    BY <1>2 DEF SetValue, IsOpen
  <1> QED
    BY <1>1, <1>2

-----------------------------------------------------------------------------
(* The steps of the applications as steps on a storage *)

\* persistLog is an entry, or nothing.
LEMMA LogIsEntry ==
    ASSUME StoreType, NEW o \in Owners, NEW v \in Values, persistLog(o, v)
    PROVE  /\ UNCHANGED store \/ \E k \in Nat : SetValue(o, k, v)
           /\ mLogCounter' \in [Owners -> Nat]
  BY DEF persistLog, Advance, StoreType

\* The steps of the vehicle: what they do to its storage, and where they lead.
VehicleStep ==
    \/ EvInitialize \/ EvMain \/ EvHeartbeat \/ EvPoll \/ Terminate \/ EvKilled
    \/ \E o \in Owners : onSignal(o)

LEMMA VehicleStores ==
    ASSUME StorageInv, VehicleStep
    PROVE  /\ UNCHANGED store \/ StoreStep(Vehicle)
           /\ mLogCounter' \in [Owners -> Nat]
           /\ UNCHANGED waPc
           /\ VehicleSaves'
  <1> USE DEF StorageInv
  <1>0. Vehicle \in Owners
    BY OwnersAssumption
  <1>log. ASSUME NEW v \in Values, persistLog(Vehicle, v)
          PROVE  /\ UNCHANGED store \/ StoreStep(Vehicle)
                 /\ mLogCounter' \in [Owners -> Nat]
    BY <1>0, <1>log, LogIsEntry DEF StoreStep
  <1>1. CASE EvInitialize
    BY <1>1 DEF EvInitialize, StoreStep, StoreType, VehicleSaves, waVars
  <1>2. CASE EvConstruct
    BY <1>2, <1>log, EntriesAreValues DEF EvConstruct, VehicleSaves, waVars
  <1>3. CASE EvConstructFails \/ EvOffer
    BY <1>3 DEF EvConstructFails, EvOffer, StoreType, VehicleSaves, waVars
  <1>4. CASE EvLeavesLoop
    BY <1>4, <1>log, EntriesAreValues DEF EvLeavesLoop, VehicleSaves, waVars
  <1>5. CASE EvStopReads
    BY <1>5 DEF EvStopReads, StoreType, VehicleSaves, waVars
  <1>6. CASE EvStopActs
    BY <1>6, <1>log, EntriesAreValues DEF EvStopActs, VehicleSaves, waVars
  <1>7. CASE EvSync
    <2>1. UNCHANGED <<mLogCounter, waPc>> /\ mLogCounter' \in [Owners -> Nat]
      BY <1>7 DEF EvSync, waVars, StoreType
    <2>2. CASE evPc = "stopped" /\ IsOpen(Vehicle) /\ SyncBegins(Vehicle) /\ evPc' = "syncing"
      BY <2>1, <2>2, <1>0 DEF StoreStep, SyncBegins, StoreType, VehicleSaves, IsOpen
    <2>3. CASE UNCHANGED store /\ evPc' = "done"
      BY <2>1, <2>3 DEF VehicleSaves
    <2>4. CASE evPc = "syncing" /\ SyncWritten(Vehicle) /\ evPc' = "renaming"
      BY <2>1, <2>4, <1>0 DEF StoreStep, SyncWritten, StoreType, VehicleSaves, IsOpen
    <2>5. CASE evPc = "renaming" /\ SyncRenamed(Vehicle) /\ evPc' = "done"
      BY <2>1, <2>5 DEF StoreStep, VehicleSaves
    <2>6. CASE SyncFails(Vehicle) /\ evPc' = "done"
      BY <2>1, <2>6 DEF StoreStep, VehicleSaves
    <2> QED
      BY <1>7, <2>2, <2>3, <2>4, <2>5, <2>6 DEF EvSync
  <1>8. CASE EvExit \/ EvKilled
    <2>1. EvGone
      BY <1>8 DEF EvExit, EvKilled
    <2> QED
      BY <2>1 DEF EvGone, StoreStep, StoreType, VehicleSaves, waVars
  <1>9. CASE EvHeartbeat
    BY <1>9, <1>log, EntriesAreValues DEF EvHeartbeat, VehicleSaves, evVars, waVars
  <1>10. CASE EvPoll \/ \E o \in Owners : onSignal(o)
    BY <1>10 DEF EvPoll, onSignal, StoreType, VehicleSaves, IsOpen, evVars, waVars
  <1>11. CASE Terminate
    BY <1>11 DEF Terminate, StoreType, VehicleSaves, IsOpen, waVars
  <1> QED
    BY <1>1, <1>2, <1>3, <1>4, <1>5, <1>6, <1>7, <1>8, <1>9, <1>10, <1>11
    DEF VehicleStep, EvMain

\* The steps of a watchdog, likewise.
WatchdogStep(w) == WaConnect(w) \/ WaMain(w) \/ WaPoller(w) \/ WaKilled(w)

LEMMA WatchdogStores ==
    ASSUME StorageInv, NEW w \in Clients, WatchdogStep(w)
    PROVE  /\ UNCHANGED store \/ StoreStep(w)
           /\ mLogCounter' \in [Owners -> Nat]
           /\ UNCHANGED evPc
           /\ waPc' = [waPc EXCEPT ![w] = waPc'[w]]
           /\ WatchdogSaves(w)'
  <1> USE DEF StorageInv
  <1>0. w \in Owners
    BY OwnersAssumption
  <1>1. CASE WaConnect(w)
    BY <1>1 DEF WaConnect, StoreType, WatchdogSaves, evVars
  <1>2. CASE WaOpen(w)
    BY <1>2 DEF WaOpen, StoreStep, StoreType, WatchdogSaves, evVars
  <1>3. CASE WaStart(w)
    <2>0. UNCHANGED evPc /\ waPc' = [waPc EXCEPT ![w] = waPc'[w]]
      BY <1>3 DEF WaStart, evVars
    <2>1. CASE waPc' = [waPc EXCEPT ![w] = IF IsOpen(w) THEN "handling" ELSE "loop"]
               /\ UNCHANGED <<store, mLogCounter>>
      BY <2>0, <2>1 DEF StoreType, WatchdogSaves, IsOpen
    <2>2. CASE waPc[w] = "handling" /\ SetValue(w, mLogCounter[w], "log")
               /\ waPc' = [waPc EXCEPT ![w] = "started"] /\ UNCHANGED mLogCounter
      <3>1. mLogCounter[w] \in Nat
        BY <1>0 DEF StoreType
      <3>2. StoreStep(w)
        BY <2>2, <3>1, EntriesAreValues DEF StoreStep
      <3> QED
        BY <2>0, <2>2, <3>2 DEF StoreType, WatchdogSaves
    <2>3. CASE waPc[w] = "started" /\ Count(w, waCallback[w] = "count")
               /\ waPc' = [waPc EXCEPT ![w] = "loop"] /\ UNCHANGED store
      BY <2>0, <2>3, <1>0 DEF Count, Advance, StoreType, WatchdogSaves
    <2> QED
      BY <1>3, <2>1, <2>2, <2>3 DEF WaStart
  <1>4. CASE WaExpired(w)
    BY <1>4 DEF WaExpired, StoreType, WatchdogSaves, evVars
  <1>5. CASE WaNoted(w)
    BY <1>5 DEF WaNoted, StoreType, WatchdogSaves, IsOpen, evVars
  <1>6. CASE WaSave(w)
    <2>0. UNCHANGED evPc /\ waPc' = [waPc EXCEPT ![w] = waPc'[w]]
      BY <1>6 DEF WaSave, evVars
    <2>1. CASE waPc[w] = "write" /\ SetValue(w, mLogCounter[w], "log")
               /\ waPc' = [waPc EXCEPT ![w] = "count"] /\ UNCHANGED mLogCounter
      <3>1. mLogCounter[w] \in Nat
        BY <1>0 DEF StoreType
      <3>2. IsOpen(w)'
        BY <2>1, <3>1, <1>0, SetKeepsSaving, EntriesAreValues DEF WatchdogSaves
      <3>3. StoreStep(w)
        BY <2>1, <3>1, EntriesAreValues DEF StoreStep
      <3> QED
        BY <2>0, <2>1, <3>2, <3>3 DEF StoreType, WatchdogSaves
    <2>2. CASE waPc[w] = "count" /\ Count(w, waCallback[w] = "count")
               /\ waPc' = [waPc EXCEPT ![w] = "sync"] /\ UNCHANGED store
      BY <2>0, <2>2, <1>0 DEF Count, Advance, StoreType, WatchdogSaves, IsOpen
    <2>3. CASE waPc[w] = "sync" /\ SyncBegins(w)
               /\ waPc' = [waPc EXCEPT ![w] = "writing"] /\ UNCHANGED mLogCounter
      BY <2>0, <2>3, <1>0 DEF SyncBegins, StoreStep, StoreType, WatchdogSaves, IsOpen
    <2>4. CASE waPc[w] = "writing" /\ SyncWritten(w)
               /\ waPc' = [waPc EXCEPT ![w] = "renaming"] /\ UNCHANGED mLogCounter
      <3>1. PICK c \in Contents : store' = [store EXCEPT ![w].tmp = c, ![w].walk = Missing]
        BY <2>4 DEF SyncWritten
      <3>2. IsOpen(w)' /\ store'[w].tmp \in Contents /\ waPc'[w] = "renaming"
        BY <2>0, <2>4, <3>1, <1>0 DEF StoreType, WatchdogSaves, IsOpen
      <3>3. StoreStep(w)
        BY <2>4 DEF StoreStep, WatchdogSaves
      <3> QED
        BY <2>0, <2>4, <3>2, <3>3 DEF StoreType, WatchdogSaves
    <2>5. CASE waPc[w] = "renaming" /\ SyncRenamed(w)
               /\ waPc' = [waPc EXCEPT ![w] = "loop"] /\ UNCHANGED mLogCounter
      BY <2>0, <2>5 DEF StoreStep, StoreType, WatchdogSaves
    <2>6. CASE UNCHANGED <<store, mLogCounter>> /\ waPc' = [waPc EXCEPT ![w] = "loop"]
      BY <2>0, <2>6 DEF StoreType, WatchdogSaves
    <2>7. CASE SyncFails(w) /\ UNCHANGED mLogCounter /\ waPc' = [waPc EXCEPT ![w] = "loop"]
      BY <2>0, <2>7 DEF StoreStep, StoreType, WatchdogSaves
    <2> QED
      BY <1>6, <2>1, <2>2, <2>3, <2>4, <2>5, <2>6, <2>7 DEF WaSave
  <1>7. CASE onEventReceived(w)
    BY <1>7 DEF onEventReceived, StoreType, WatchdogSaves, IsOpen, evVars
  <1>8. CASE WaEventWrite(w)
    <2>1. mLogCounter[w] \in Nat
      BY <1>0 DEF StoreType
    <2>2. /\ IsOpen(w) => IsOpen(w)'
          /\ store'[w].tmp = store[w].tmp /\ store'[w].walk = store[w].walk
      BY <2>1, <1>8, <1>0, SetKeepsSaving, EntriesAreValues DEF WaEventWrite
    <2>3. StoreStep(w)
      BY <2>1, <1>8, EntriesAreValues DEF WaEventWrite, StoreStep
    <2> QED
      BY <1>8, <2>2, <2>3 DEF WaEventWrite, StoreType, WatchdogSaves, evVars
  <1>9. CASE WaEventCount(w)
    BY <1>9, <1>0 DEF WaEventCount, Count, Advance, StoreType, WatchdogSaves, IsOpen, evVars
  <1>10. CASE WaKilled(w)
    BY <1>10 DEF WaKilled, StoreStep, StoreType, WatchdogSaves, evVars
  <1> QED
    BY <1>1, <1>2, <1>3, <1>4, <1>5, <1>6, <1>7, <1>8, <1>9, <1>10
    DEF WatchdogStep, WaMain, WaPoller

\* Every step is a step on one storage, or on none.
LEMMA StepStores ==
    StorageInv /\ [Next]_vars => UNCHANGED store \/ \E o \in Owners : StoreStep(o)
  <1>1. Vehicle \in Owners /\ Clients \subseteq Owners
    BY OwnersAssumption
  <1>2. UNCHANGED vars => UNCHANGED store
    BY DEF vars
  <1> QED
    BY <1>1, <1>2, VehicleStores, WatchdogStores DEF Next, VehicleStep, WatchdogStep

LEMMA InitStorage == Init => StorageInv
  BY MarksAreNoContents
  DEF Init, StoreInit, StorageInv, StoreType, VehicleSaves, WatchdogSaves

LEMMA NextStorage == StorageInv /\ [Next]_vars => StorageInv'
  <1> SUFFICES ASSUME StorageInv, [Next]_vars PROVE StorageInv'
    OBVIOUS
  <1>0. Vehicle \in Owners /\ Clients \subseteq Owners /\ Vehicle \notin Clients
    BY OwnersAssumption
  <1>1. CASE VehicleStep
    <2>1. /\ UNCHANGED store \/ StoreStep(Vehicle)
          /\ mLogCounter' \in [Owners -> Nat] /\ UNCHANGED waPc /\ VehicleSaves'
      BY <1>1, VehicleStores
    <2>2. \A w \in Clients : store'[w] = store[w]
      BY <2>1, <1>0, StoreStepType DEF StorageInv
    <2>3. \A w \in Clients : WatchdogSaves(w)'
      BY <2>1, <2>2 DEF StorageInv, WatchdogSaves, IsOpen
    <2>4. StoreType'
      BY <2>1, <1>0, StoreStepType DEF StorageInv, StoreType
    <2> QED
      BY <2>1, <2>3, <2>4 DEF StorageInv
  <1>2. ASSUME NEW w \in Clients, WatchdogStep(w) PROVE StorageInv'
    <2>1. /\ UNCHANGED store \/ StoreStep(w)
          /\ mLogCounter' \in [Owners -> Nat] /\ UNCHANGED evPc
          /\ waPc' = [waPc EXCEPT ![w] = waPc'[w]] /\ WatchdogSaves(w)'
      BY <1>2, WatchdogStores
    <2>2. \A x \in Owners : x # w => store'[x] = store[x]
      BY <2>1, <1>0, StoreStepType DEF StorageInv
    <2>3. VehicleSaves'
      BY <2>1, <2>2, <1>0 DEF StorageInv, VehicleSaves, IsOpen
    <2>4. ASSUME NEW x \in Clients, x # w PROVE WatchdogSaves(x)'
      BY <2>1, <2>2, <2>4, <1>0 DEF StorageInv, WatchdogSaves, IsOpen
    <2>5. StoreType'
      BY <2>1, <1>0, StoreStepType DEF StorageInv, StoreType
    <2>6. DOMAIN waPc' = Clients /\ waPc' = [x \in Clients |-> waPc'[x]]
      BY <2>1 DEF StorageInv
    <2> QED
      BY <2>1, <2>3, <2>4, <2>5, <2>6 DEF StorageInv
  <1>3. CASE UNCHANGED vars
    BY <1>3 DEF vars, evVars, waVars, StorageInv, StoreType, VehicleSaves, WatchdogSaves, IsOpen
  <1> QED
    BY <1>1, <1>2, <1>3 DEF Next, VehicleStep, WatchdogStep

-----------------------------------------------------------------------------
(* The refinement *)

Memory == [o \in Owners |-> store[o].root]
Durable == [o \in Owners |-> store[o].file]
Walking == [o \in Owners |-> store[o].walk]
WholeCopy == [o \in Owners |-> IF store[o].tmp = Torn THEN Missing ELSE store[o].tmp]

LEMMA InitRefines == Init => Atomic!Init
  BY MarksAreNoContents DEF Init, StoreInit, Atomic!Init

\* A step on a storage is a step of the atomic one, or invisible.
LEMMA StoreStepRefines ==
    ASSUME StoreType, NEW o \in Owners, StoreStep(o)
    PROVE  [Atomic!Next]_<<Memory, Walking, WholeCopy, Durable>>
  <1> USE DEF StoreType, Memory, Walking, WholeCopy, Durable
  <1>1. CASE Open(o)
    <2>1. Atomic!Open(o)
      BY <1>1, MarksAreNoContents DEF Open, Atomic!Open
    <2> QED
      BY <2>1 DEF Atomic!Next
  <1>2. CASE \E k \in Nat, v \in Values : SetValue(o, k, v)
    <2>1. PICK k \in Nat, v \in Values : SetValue(o, k, v)
      BY <1>2
    <2>2. CASE k < MaxLog[o] /\ IsOpen(o)
      <3> DEFINE c == [store[o].root EXCEPT ![k] = v]
      <3>1. store' = [store EXCEPT ![o].root = c]
        BY <2>1, <2>2 DEF SetValue
      <3>2. c \in Contents
        BY <2>2, SetKeepsContents
      <3> HIDE DEF c
      <3>3. Atomic!Change(o)
        BY <3>1, <3>2, <2>2 DEF IsOpen, Atomic!Change
      <3> QED
        BY <3>3 DEF Atomic!Next
    <2>3. CASE ~(k < MaxLog[o] /\ IsOpen(o))
      BY <2>1, <2>3 DEF SetValue
    <2> QED
      BY <2>2, <2>3
  <1>3. CASE IsOpen(o) /\ SyncBegins(o)
    <2>1. Atomic!Begin(o)
      BY <1>3 DEF IsOpen, SyncBegins, Atomic!Begin
    <2> QED
      BY <2>1 DEF Atomic!Next
  <1>4. CASE IsOpen(o) /\ store[o].walk \in Contents /\ SyncWritten(o)
    <2>1. PICK c \in Contents :
            /\ \A k \in Keys : c[k] \in Walked(o, k)
            /\ store' = [store EXCEPT ![o].tmp = c, ![o].walk = Missing]
      BY <1>4 DEF SyncWritten
    <2>2. store[o].root \in Contents
      BY <1>4 DEF IsOpen
    <2>3. IF store[o].walk = store[o].root
          THEN c = store[o].root
          ELSE \A k \in Keys : c[k] \in {store[o].walk[k], store[o].root[k], Blank[k]}
      <3>1. CASE store[o].walk = store[o].root
        <4>1. \A k \in Keys : c[k] = store[o].root[k]
          BY <2>1, <3>1 DEF Walked
        <4> QED
          BY <4>1, <2>2, <3>1 DEF Contents
      <3>2. CASE store[o].walk # store[o].root
        BY <2>1, <3>2 DEF Walked, Blank
      <3> QED
        BY <3>1, <3>2
    <2>4. /\ Memory' = Memory /\ Durable' = Durable
          /\ Walking' = [Walking EXCEPT ![o] = Missing]
      BY <2>1
    <2>5. WholeCopy' = [WholeCopy EXCEPT ![o] = c]
      BY <2>1, MarksAreNoContents
    <2>6. Atomic!Copy(o)
      BY <1>4, <2>3, <2>4, <2>5, MarksAreNoContents DEF IsOpen, Atomic!Copy
    <2> QED
      BY <2>6 DEF Atomic!Next
  <1>5. CASE IsOpen(o) /\ store[o].tmp \in Contents /\ SyncRenamed(o)
    <2>1. Atomic!Commit(o)
      BY <1>5, MarksAreNoContents DEF IsOpen, SyncRenamed, Atomic!Commit
    <2> QED
      BY <2>1 DEF Atomic!Next
  <1>6. CASE SyncFails(o)
    <2>1. Atomic!Abandon(o)
      BY <1>6, MarksAreNoContents DEF SyncFails, Atomic!Abandon
    <2> QED
      BY <2>1 DEF Atomic!Next
  <1>7. CASE CloseStorage(o)
    <2>1. Atomic!Close(o)
      BY <1>7 DEF CloseStorage, Atomic!Close
    <2> QED
      BY <2>1 DEF Atomic!Next
  <1> QED
    BY <1>1, <1>2, <1>3, <1>4, <1>5, <1>6, <1>7 DEF StoreStep

LEMMA NextRefines == StorageInv /\ [Next]_vars => [Atomic!Next]_(Atomic!vars)
  <1> SUFFICES ASSUME StorageInv, [Next]_vars PROVE [Atomic!Next]_(Atomic!vars)
    OBVIOUS
  <1>1. CASE UNCHANGED store
    BY <1>1 DEF Atomic!vars
  <1>2. CASE \E o \in Owners : StoreStep(o)
    BY <1>2, StoreStepRefines DEF StorageInv, Atomic!vars, Memory, Walking, WholeCopy, Durable
  <1> QED
    BY <1>1, <1>2, StepStores

\* The storages of the vehicle and of all watchdogs implement AtomicStorage,
\* although two threads write to one map, also while one of them saves it, and the
\* process may be killed at any step: SyncToStorage never touches the file but by
\* renaming a finished one to it, which holds all of the map unless the map was
\* changed on the way.
THEOREM StorageRefinesAtomic == Spec => StorageIsAtomic
  BY InitStorage, NextStorage, InitRefines, NextRefines, PTL
  DEF Spec, StorageIsAtomic, Atomic!Spec

-----------------------------------------------------------------------------
(* StopOfferService *)

\* Once Main may leave its loop, the poller is at rest for good, and the state
\* that Stop has read is the current one.
StopInv ==
    /\ Vehicle \in DOMAIN polling
    /\ evToken \in BOOLEAN
    /\ evPc = "off" => ~evToken
    /\ evPc \in {"leaving", "stopping"} \cup EvStopped => evToken
    /\ evToken => ~polling[Vehicle] /\ request = NoRequest
    /\ evPc = "stopping" => stopping = mCurrentState
    /\ StoppedIsDown

LEMMA InitStop == Init => StopInv
  BY OwnersAssumption DEF Init, PubSubInit, StopInv, StoppedIsDown, EvStopped

LEMMA NextStop == StopInv /\ [Next]_vars => StopInv'
  <1> SUFFICES ASSUME StopInv, [Next]_vars PROVE StopInv'
    OBVIOUS
  <1> USE DEF StopInv, StoppedIsDown, EvStopped
  <1>0. Vehicle \in Owners /\ Vehicle \notin Clients
    BY OwnersAssumption
  <1>1. CASE EvInitialize
    BY <1>1 DEF EvInitialize, psVars, serverVars, fsmVars
  <1>2. CASE EvConstruct \/ EvConstructFails \/ EvLeavesLoop
    BY <1>2 DEF EvConstruct, EvConstructFails, EvLeavesLoop, psVars, serverVars, fsmVars
  <1>3. CASE EvOffer
    BY <1>3 DEF EvOffer, Start
  <1>4. CASE EvStopReads
    BY <1>4 DEF EvStopReads, StopReads, fsmVars
  <1>5. CASE EvStopActs
    BY <1>5 DEF EvStopActs, StopActs, Transit
  <1>6. CASE EvSync
    BY <1>6 DEF EvSync, psVars, serverVars, fsmVars
  <1>7. CASE EvExit \/ EvKilled
    BY <1>7 DEF EvExit, EvKilled, EvGone
  <1>8. CASE EvHeartbeat
    BY <1>8 DEF EvHeartbeat, Publish, evVars, psVars, serverVars, fsmVars
  <1>9. CASE EvPoll
    <2>1. ~evToken
      BY <1>9 DEF EvPoll
    <2> QED
      BY <1>9, <2>1 DEF EvPoll, evVars
  <1>10. CASE \E o \in Owners : onSignal(o)
    BY <1>10 DEF onSignal, evVars, psVars, serverVars, fsmVars
  <1>11. CASE Terminate
    BY <1>11 DEF Terminate, psVars, serverVars, fsmVars
  <1>12. ASSUME NEW w \in Clients, WatchdogStep(w) PROVE StopInv'
    <2>1. UNCHANGED <<evPc, evToken, mCurrentState, stopping, request>>
      BY <1>12 DEF WatchdogStep, WaMain, WaPoller, WaConnect, WaOpen, WaStart, WaExpired, WaNoted,
                   WaSave, WaKilled, onEventReceived, WaEventWrite, WaEventCount, Subscribe,
                   receiveEvent, evVars, psVars, serverVars, fsmVars
    <2>2. DOMAIN polling' = DOMAIN polling /\ polling'[Vehicle] = polling[Vehicle]
      BY <1>12, <1>0 DEF WatchdogStep, WaMain, WaPoller, WaConnect, WaOpen, WaStart, WaExpired,
                         WaNoted, WaSave, WaKilled, onEventReceived, WaEventWrite, WaEventCount
    <2> QED
      BY <2>1, <2>2
  <1>13. CASE UNCHANGED vars
    BY <1>13 DEF vars, evVars, psVars, serverVars, fsmVars
  <1> QED
    BY <1>1, <1>2, <1>3, <1>4, <1>5, <1>6, <1>7, <1>8, <1>9, <1>10, <1>11, <1>12, <1>13
    DEF Next, EvMain, WatchdogStep

\* After StopOfferService of the generated skeleton the event group is down,
\* although Stop reads the state and acts on it in two steps: Terminate, which
\* lets Main go there, comes after the last callback of the poller.
THEOREM StopTakesDown == Spec => []StoppedIsDown
  <1>1. StopInv => StoppedIsDown
    BY DEF StopInv
  <1> QED
    BY <1>1, InitStop, NextStop, PTL DEF Spec

=============================================================================
