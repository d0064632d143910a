--------------------------- MODULE LibraryProofs ---------------------------
(***************************************************************************)
(* Proofs about parts of the libraries: SdServer, for every number of      *)
(* repetitions and of Finds; OfferedEndpoint, for every number of readers  *)
(* and of endpoints; and the Results and Optionals of CoreTypes, for every *)
(* number of variables, of values and of cells of the heap.                *)
(***************************************************************************)
EXTENDS SdServer, OfferedEndpoint, CoreTypes, TLAPS

-----------------------------------------------------------------------------
(* SdServer *)

\* The agent runs a timer state; only a thread that has just been started is
\* still in NotReady, and one that goes to announce it is there again.
AgentInTimerState ==
    /\ pc \in {"activate", "timer", "offer", "leave", "transit"} =>
           mCurrentState \in TimerStates
    /\ pc \in {"started", "announce"} => mCurrentState = "NotReady"

\* Offers are sent in a round that is left.
OfferInRound == pc = "offer" => RoundsLeft

\* What is queued was received.
QueuedWasReceived == mMessageBuffer <= received

\* A machine in NotReady has sent its StopOffer unless it is about to; an agent
\* that has ended in a timer state was stopped there.
Ended ==
    /\ mCurrentState = "NotReady" /\ pc # "announce" => announced # "Offer" \/ rejected
    /\ pc \in {"none", "done"} /\ mCurrentState \in TimerStates => mStopped[mCurrentState]

IInv ==
    /\ ServerTypeOK
    /\ AgentInTimerState
    /\ OfferInRound
    /\ QueuedWasReceived
    /\ Ended

-----------------------------------------------------------------------------
\* The invariant holds of a server that was never started.
LEMMA InitIInv == ServerInit => IInv
  <1> SUFFICES ASSUME ServerInit PROVE IInv
    OBVIOUS
  <1> USE RepetitionsAssumption, FindsAssumption
  <1>1. ServerTypeOK
    <2>1. mStopped \in [TimerStates -> BOOLEAN]
      BY Zenon DEF ServerInit
    <2>2. /\ mCurrentState \in SdServerState /\ target \in SdServerState
          /\ i \in 0 .. RepetitionsMax /\ mMessageBuffer \in 0 .. MaxFinds
          /\ received \in 0 .. MaxFinds
      BY DEF ServerInit, SdServerState
    <2> QED
      BY <2>1, <2>2, Zenon DEF ServerInit, ServerTypeOK
  <1>2. Ended
    BY DEF ServerInit, Ended, TimerStates
  <1>3. AgentInTimerState /\ OfferInRound /\ QueuedWasReceived
    BY DEF ServerInit, AgentInTimerState, OfferInRound, RoundsLeft, QueuedWasReceived
  <1> QED
    BY <1>1, <1>2, <1>3 DEF IInv

\* The steps of the agent thread.
LEMMA AgentKeeps == IInv /\ Agent => IInv'
  <1> SUFFICES ASSUME IInv, Agent PROVE IInv'
    OBVIOUS
  <1> USE RepetitionsAssumption, FindsAssumption
  <1> USE DEF IInv
  <1>1. mStopped' \in [TimerStates -> BOOLEAN]
    <2>1. CASE Transit
      BY <2>1, Zenon DEF Transit, ServerTypeOK
    <2>2. CASE ~Transit
      BY <2>2 DEF Agent, ServiceActivated, Activate, TimerExpires, RepetitionsDone, AnswerFind,
                  OffersDone, Leave, onServiceStopped, ServerTypeOK
    <2> QED
      BY <2>1, <2>2
  <1>2. CASE ServiceActivated
    BY <1>1, <1>2 DEF ServiceActivated, messageVars, ServerTypeOK, AgentInTimerState, OfferInRound,
                      QueuedWasReceived, Ended, SdServerState, TimerStates
  <1>3. CASE Activate
    BY <1>1, <1>3
       DEF Activate, messageVars, ServerTypeOK, AgentInTimerState, OfferInRound,
           QueuedWasReceived, Ended
  <1>4. CASE TimerExpires
    BY <1>1, <1>4
       DEF TimerExpires, messageVars, ServerTypeOK, AgentInTimerState, OfferInRound, RoundsLeft,
           QueuedWasReceived, Ended
  <1>5. CASE RepetitionsDone
    BY <1>1, <1>5 DEF RepetitionsDone, messageVars, ServerTypeOK, AgentInTimerState, OfferInRound,
                      QueuedWasReceived, Ended
  <1>6. CASE AnswerFind
    <2>1. /\ announced' \in {"none", "Offer", "StopOffer"} /\ rejected' \in BOOLEAN
          /\ pc' = "offer" /\ pc = "offer"
      BY <1>6 DEF AnswerFind, Send, agentVars, ServerTypeOK
    <2>2. Ended'
      BY <1>6, <2>1 DEF AnswerFind, agentVars, AgentInTimerState, Ended, TimerStates
    <2> QED
      BY <1>1, <1>6, <2>1, <2>2
      DEF AnswerFind, agentVars, ServerTypeOK, AgentInTimerState, OfferInRound, RoundsLeft,
          QueuedWasReceived
  <1>7. CASE OffersDone
    BY <1>1, <1>7
       DEF OffersDone, messageVars, ServerTypeOK, AgentInTimerState, OfferInRound, RoundsLeft,
           QueuedWasReceived, Ended
  <1>8. CASE Leave
    <2>1. target' \in SdServerState
      BY <1>8 DEF Leave, NextPhase, AgentInTimerState, SdServerState, TimerStates
    <2> QED
      BY <1>1, <1>8, <2>1
         DEF Leave, messageVars, ServerTypeOK, AgentInTimerState, OfferInRound, QueuedWasReceived,
             Ended
  <1>9. CASE Transit
    BY <1>1, <1>9
       DEF Transit, messageVars, ServerTypeOK, AgentInTimerState, OfferInRound, QueuedWasReceived,
           Ended, SdServerState
  <1>10. CASE onServiceStopped
    BY <1>1, <1>10 DEF onServiceStopped, Send, ServerTypeOK, AgentInTimerState, OfferInRound,
                       QueuedWasReceived, Ended, TimerStates
  <1> QED
    BY <1>2, <1>3, <1>4, <1>5, <1>6, <1>7, <1>8, <1>9, <1>10 DEF Agent

\* The steps of the owner and of the network thread, which never touch the
\* state or the last message.
LEMMA OthersKeep == IInv /\ (Start \/ Stop \/ StopStates \/ Join \/ receiveFind) => IInv'
  <1> SUFFICES ASSUME IInv, Start \/ Stop \/ StopStates \/ Join \/ receiveFind PROVE IInv'
    OBVIOUS
  <1> USE RepetitionsAssumption, FindsAssumption
  <1> USE DEF IInv
  <1>1. mStopped' \in [TimerStates -> BOOLEAN]
    <2>1. CASE StopStates
      BY <2>1, Zenon DEF StopStates, ServiceStopped, ServerTypeOK
    <2>2. CASE ~StopStates
      BY <2>2 DEF Start, Stop, Join, receiveFind, ServerTypeOK
    <2> QED
      BY <2>1, <2>2
  <1>2. CASE Start
    BY <1>1, <1>2
       DEF Start, messageVars, ServerTypeOK, AgentInTimerState, OfferInRound, QueuedWasReceived,
           Ended
  <1>3. CASE Stop
    BY <1>1, <1>3
       DEF Stop, messageVars, agentVars, ServerTypeOK, AgentInTimerState, OfferInRound,
           RoundsLeft, QueuedWasReceived, Ended
  <1>4. CASE StopStates
    BY <1>1, <1>4
       DEF StopStates, messageVars, ServiceStopped, agentVars, ServerTypeOK, AgentInTimerState,
           OfferInRound, RoundsLeft, QueuedWasReceived, Ended
  <1>5. CASE Join
    BY <1>1, <1>5
       DEF Join, messageVars, ServerTypeOK, AgentInTimerState, OfferInRound, QueuedWasReceived,
           Ended
  <1>6. CASE receiveFind
    BY <1>1, <1>6
       DEF receiveFind, messageVars, agentVars, ServerTypeOK, AgentInTimerState, OfferInRound,
           RoundsLeft, QueuedWasReceived, Ended
  <1> QED
    BY <1>2, <1>3, <1>4, <1>5, <1>6

\* Where the agent is in each phase, with the two properties, is inductive.
THEOREM Inductive == ServerSpec => []IInv
  <1>1. IInv /\ [ServerNext]_serverVars => IInv'
    <2>1. CASE ServerNext
      BY <2>1, AgentKeeps, OthersKeep DEF ServerNext
    <2>2. CASE UNCHANGED serverVars
      BY <2>2
         DEF serverVars, agentVars, messageVars, IInv, ServerTypeOK, AgentInTimerState,
             OfferInRound, RoundsLeft, QueuedWasReceived, Ended
    <2> QED
      BY <2>1, <2>2
  <1> QED
    BY <1>1, InitIInv, PTL DEF ServerSpec

\* The repetition counter stays within the configured rounds, and every other
\* variable within its type.
THEOREM TypeCorrect == ServerSpec => []ServerTypeOK
  <1>1. IInv => ServerTypeOK
    BY DEF IInv
  <1> QED
    BY <1>1, Inductive, PTL

\* However Stop, Find and the agent interleave, and over any number of restarts,
\* a service whose agent has ended is left announced only by a queue that refused
\* its StopOffer or by an agent that was stopped before its phase began.
THEOREM OfferAlwaysWithdrawn == ServerSpec => []OfferIsWithdrawn
  <1>1. IInv => OfferIsWithdrawn
    BY DEF IInv, OfferIsWithdrawn, Stranded, Ended, ServerTypeOK, SdServerState
  <1> QED
    BY <1>1, Inductive, PTL

-----------------------------------------------------------------------------
(* OfferedEndpoint *)

\* A thread between lock and unlock is the one that has the mutex.
InsideHolds ==
    \A t \in Threads :
        at[t] \in {"own", "first", "second", "unlock", "release"} => mEndpointMutex = t

\* The halves that are stored differ only while the network thread stores them.
StoredWhole ==
    IF at[NetworkThread] = "second" THEN mOfferedIpAddress = offer.endpoint
                                    ELSE mOfferedIpAddress = mOfferedPort

\* A reader half-way has the address that is still stored, and no port yet.
HalfRead ==
    \A r \in Readers :
        /\ at[r] = "second" => got[r].ip = mOfferedIpAddress
        /\ at[r] \in {"lock", "acquire", "own", "first", "second"} => got[r].port = Nothing

EndpointInv ==
    EndpointTypeOK /\ InsideHolds /\ StoredWhole /\ HalfRead /\ EndpointIsWhole

\* Nothing is locked, stored or read at first.
LEMMA EndpointStarts == EndpointInit => EndpointInv
  <1> SUFFICES ASSUME EndpointInit PROVE EndpointInv
    OBVIOUS
  <1> USE ThreadsAssumption DEF EndpointInit, Threads
  <1>1. at \in [Threads -> {"ready", "lock", "acquire", "own", "first", "second", "unlock",
                            "release", "disown", "threw"}]
    OBVIOUS
  <1>2. got \in [Readers -> [ip : Endpoints \cup {Nothing}, port : Endpoints \cup {Nothing}]]
    BY DEF NothingRead
  <1>3. EndpointTypeOK
    BY <1>1, <1>2 DEF EndpointTypeOK, Offers
  <1>4. \A t \in Threads : at[t] = "ready"
    OBVIOUS
  <1>5. InsideHolds /\ StoredWhole
    BY <1>4 DEF InsideHolds, StoredWhole
  <1>6. HalfRead /\ EndpointIsWhole
    BY <1>4 DEF HalfRead, EndpointIsWhole, NothingRead
  <1> QED
    BY <1>3, <1>5, <1>6 DEF EndpointInv

\* The steps of the lock leave what is stored and what was read alone.
LEMMA LockKeeps ==
  ASSUME EndpointInv, NEW t \in Threads, EndpointLock(t)
  PROVE  EndpointInv'
  <1> USE ThreadsAssumption, EndpointsAssumption DEF EndpointInv, Threads
  <1>1. /\ UNCHANGED <<offer, mOfferedIpAddress, mOfferedPort, got>>
        /\ \E to : Goes(t, to)
    BY DEF EndpointLock, TestOwns, Acquire, Own, TestUnlock, Release, Disown
  <1>2. \A s \in Threads : s # t => at'[s] = at[s]
    BY <1>1 DEF Goes, EndpointTypeOK
  <1>3. at[t] \notin {"first", "second", "ready"} /\ at'[t] # "second"
    BY DEF EndpointLock, TestOwns, Acquire, Own, TestUnlock, Release, Disown, Goes, EndpointTypeOK
  <1>4. EndpointTypeOK'
    <2>1. at' \in [Threads -> {"ready", "lock", "acquire", "own", "first", "second", "unlock",
                               "release", "disown", "threw"}]
      BY DEF EndpointLock, TestOwns, Acquire, Own, TestUnlock, Release, Disown, Goes,
             EndpointTypeOK
    <2>2. mEndpointMutex' \in Threads \cup {Nothing} /\ mOwns' \in BOOLEAN
      BY DEF EndpointLock, TestOwns, Acquire, Own, TestUnlock, Release, Disown, EndpointTypeOK
    <2> QED
      BY <1>1, <2>1, <2>2 DEF EndpointTypeOK
  <1>5. InsideHolds'
    <2>1. CASE Acquire(t)
      BY <1>2, <2>1 DEF Acquire, InsideHolds
    <2>2. CASE Release(t)
      BY <1>2, <2>2 DEF Release, Goes, InsideHolds, EndpointTypeOK
    <2>3. CASE TestOwns(t) \/ Own(t) \/ TestUnlock(t) \/ Disown(t)
      BY <1>2, <2>3 DEF TestOwns, Own, TestUnlock, Disown, Goes, InsideHolds, EndpointTypeOK
    <2> QED
      BY <2>1, <2>2, <2>3 DEF EndpointLock
  <1>6. StoredWhole'
    BY <1>1, <1>2, <1>3 DEF StoredWhole
  <1>7. at'[t] \in {"lock", "acquire", "own", "first"} => at[t] \in {"lock", "acquire", "own"}
    BY DEF EndpointLock, TestOwns, Acquire, Own, TestUnlock, Release, Disown, Goes, EndpointTypeOK
  <1>8. HalfRead' /\ EndpointIsWhole'
    BY <1>1, <1>2, <1>3, <1>7 DEF HalfRead, EndpointIsWhole
  <1> QED
    BY <1>4, <1>5, <1>6, <1>8

\* The network thread writes only while it has the mutex, so no reader is
\* half-way.
LEMMA StoringKeeps ==
  ASSUME EndpointInv,
         \/ \E message \in Offers : receiveSdMessage(message)
         \/ tryExtractOfferedEndpoint
         \/ StorePort
  PROVE  EndpointInv'
  <1> USE ThreadsAssumption, EndpointsAssumption DEF EndpointInv, Threads
  <1>1. UNCHANGED <<mEndpointMutex, mOwns, got>> /\ \E to : Goes(NetworkThread, to)
    BY DEF receiveSdMessage, tryExtractOfferedEndpoint, StorePort
  <1>2. \A r \in Readers : at'[r] = at[r]
    BY <1>1 DEF Goes, EndpointTypeOK
  <1>3. EndpointTypeOK'
    <2>1. at' \in [Threads -> {"ready", "lock", "acquire", "own", "first", "second", "unlock",
                               "release", "disown", "threw"}]
      BY DEF receiveSdMessage, tryExtractOfferedEndpoint, StorePort, Goes, EndpointTypeOK, Offers
    <2>2. /\ offer' \in Offers
          /\ mOfferedIpAddress' \in Endpoints \cup {Nothing}
          /\ mOfferedPort' \in Endpoints \cup {Nothing}
      BY DEF receiveSdMessage, tryExtractOfferedEndpoint, StorePort, EndpointTypeOK, Offers
    <2> QED
      BY <1>1, <2>1, <2>2 DEF EndpointTypeOK
  <1>4. InsideHolds'
    BY <1>1, <1>2 DEF receiveSdMessage, tryExtractOfferedEndpoint, StorePort, Goes, InsideHolds,
                      EndpointTypeOK, Offers
  <1>5. StoredWhole'
    BY DEF receiveSdMessage, tryExtractOfferedEndpoint, StorePort, Goes, StoredWhole,
           EndpointTypeOK, Offers
  <1>6. \A r \in Readers : at[r] = "second" => mOfferedIpAddress' = mOfferedIpAddress
    BY DEF receiveSdMessage, tryExtractOfferedEndpoint, StorePort, InsideHolds
  <1>7. HalfRead' /\ EndpointIsWhole'
    BY <1>1, <1>2, <1>6 DEF HalfRead, EndpointIsWhole
  <1> QED
    BY <1>3, <1>4, <1>5, <1>7

\* A reader copies while it has the mutex, so what is stored is whole.
LEMMA ReadingKeeps ==
  ASSUME EndpointInv, NEW r \in Readers, TryGet(r) \/ CopyAddress(r) \/ CopyPort(r)
  PROVE  EndpointInv'
  <1> USE ThreadsAssumption, EndpointsAssumption DEF EndpointInv, Threads
  <1>1. /\ UNCHANGED <<mEndpointMutex, mOwns, offer, mOfferedIpAddress, mOfferedPort>>
        /\ \E to : Goes(r, to)
    BY DEF TryGet, CopyAddress, CopyPort
  <1>2. \A t \in Threads : t # r => at'[t] = at[t]
    BY <1>1 DEF Goes, EndpointTypeOK
  <1>3. \A q \in Readers : q # r => got'[q] = got[q]
    BY DEF TryGet, CopyAddress, CopyPort, EndpointTypeOK
  <1>4. EndpointTypeOK'
    <2>1. at' \in [Threads -> {"ready", "lock", "acquire", "own", "first", "second", "unlock",
                               "release", "disown", "threw"}]
      BY DEF TryGet, CopyAddress, CopyPort, Goes, EndpointTypeOK
    <2>2. got' \in [Readers -> [ip : Endpoints \cup {Nothing}, port : Endpoints \cup {Nothing}]]
      BY DEF TryGet, CopyAddress, CopyPort, EndpointTypeOK, NothingRead
    <2> QED
      BY <1>1, <2>1, <2>2 DEF EndpointTypeOK
  <1>5. InsideHolds'
    BY <1>1, <1>2 DEF TryGet, CopyAddress, CopyPort, Goes, InsideHolds, EndpointTypeOK
  <1>6. StoredWhole'
    BY <1>1, <1>2 DEF StoredWhole
  <1>7. CASE TryGet(r)
    <2>1. at'[r] = "lock" /\ got'[r] = NothingRead
      BY <1>7 DEF TryGet, Goes, EndpointTypeOK
    <2> QED
      BY <1>1, <1>2, <1>3, <1>4, <1>5, <1>6, <2>1 DEF HalfRead, EndpointIsWhole, NothingRead
  <1>8. CASE CopyAddress(r)
    <2>1. /\ got'[r].port = Nothing
          /\ (at'[r] = "second" /\ got'[r].ip = mOfferedIpAddress) \/ at'[r] = "unlock"
      BY <1>8 DEF CopyAddress, Goes, HalfRead, EndpointTypeOK
    <2> QED
      BY <1>1, <1>2, <1>3, <1>4, <1>5, <1>6, <2>1 DEF HalfRead, EndpointIsWhole
  <1>9. CASE CopyPort(r)
    <2>1. mOfferedIpAddress = mOfferedPort
      BY <1>9 DEF CopyPort, InsideHolds, StoredWhole
    <2>2. at'[r] = "unlock" /\ got'[r].port = mOfferedPort /\ got'[r].ip = got[r].ip
      BY <1>9 DEF CopyPort, Goes, EndpointTypeOK
    <2>3. got[r].ip = mOfferedIpAddress
      BY <1>9 DEF CopyPort, HalfRead
    <2> QED
      BY <1>1, <1>2, <1>3, <1>4, <1>5, <1>6, <2>1, <2>2, <2>3 DEF HalfRead, EndpointIsWhole
  <1> QED
    BY <1>7, <1>8, <1>9

\* However many threads share the unique_lock, and whichever of them threw with
\* the mutex locked or found its flag overwritten, no query returns halves of two
\* offers.
THEOREM EndpointAlwaysWhole == EndpointSpec => []EndpointIsWhole
  <1>1. EndpointInv /\ [EndpointNext]_endpointVars => EndpointInv'
    <2> SUFFICES ASSUME EndpointInv, [EndpointNext]_endpointVars PROVE EndpointInv'
      OBVIOUS
    <2>1. CASE UNCHANGED endpointVars
      BY <2>1 DEF endpointVars, EndpointInv, EndpointTypeOK, InsideHolds, StoredWhole, HalfRead,
                  EndpointIsWhole
    <2> QED
      BY <2>1, LockKeeps, StoringKeeps, ReadingKeeps DEF EndpointNext
  <1>2. EndpointInv => EndpointIsWhole
    BY DEF EndpointInv
  <1> QED
    BY <1>1, <1>2, EndpointStarts, PTL DEF EndpointSpec

-----------------------------------------------------------------------------
(* CoreTypes *)

Memories == [heap : Heaps, slots : SlotMaps]

\* A memory in which every object is owned once: every pointer is to an object
\* that exists and was not given away, no two are equal, and every object that
\* was not given away is pointed to.
Tidy(m, g) ==
    /\ m \in Memories
    /\ g \subseteq DOMAIN m.heap
    /\ \A s \in DOMAIN m.slots : m.slots[s] # Null => m.slots[s] \in DOMAIN m.heap \ g
    /\ \A s, t \in DOMAIN m.slots : s # t /\ m.slots[s] # Null => m.slots[s] # m.slots[t]
    /\ \A c \in DOMAIN m.heap \ g : \E s \in DOMAIN m.slots : m.slots[s] = c

\* Heaps and slots are functions on parts of the cells and of the Optionals.
LEMMA HeapsAre == \A h : h \in Heaps <=> DOMAIN h \subseteq Cells /\ h \in [DOMAIN h -> Contents]
  BY DEF Heaps
LEMMA SlotMapsAre ==
    \A f : f \in SlotMaps <=> DOMAIN f \subseteq Slots /\ f \in [DOMAIN f -> Cells \cup {Null}]
  BY DEF SlotMaps

LEMMA MemoryParts ==
    ASSUME NEW m \in Memories
    PROVE  /\ m.heap \in Heaps /\ m.slots \in SlotMaps
           /\ DOMAIN m.heap \subseteq Cells /\ DOMAIN m.slots \subseteq Slots
           /\ m.heap \in [DOMAIN m.heap -> Contents]
           /\ m.slots \in [DOMAIN m.slots -> Cells \cup {Null}]
  BY HeapsAre, SlotMapsAre DEF Memories

\* A pointer is set.
Pointed(p, m, s, c) ==
    /\ p \in Memories
    /\ p.heap = m.heap
    /\ DOMAIN p.slots = DOMAIN m.slots
    /\ p.slots[s] = c
    /\ \A t \in DOMAIN m.slots : t # s => p.slots[t] = m.slots[t]

LEMMA PointIs ==
    ASSUME NEW m \in Memories, NEW s \in DOMAIN m.slots, NEW c \in Cells \cup {Null}
    PROVE  Pointed(Point(m, s, c), m, s, c)
  <1> DEFINE f == [m.slots EXCEPT ![s] = c]
             p == Point(m, s, c)
  <1>1. p = [m EXCEPT !.slots = f]
    BY DEF Point, Memories
  <1>2. f \in SlotMaps /\ DOMAIN f = DOMAIN m.slots /\ f[s] = c
        /\ \A t \in DOMAIN m.slots : t # s => f[t] = m.slots[t]
    BY MemoryParts, SlotMapsAre
  <1> HIDE DEF f, p
  <1>3. p \in Memories /\ p.heap = m.heap /\ p.slots = f
    BY <1>1, <1>2 DEF Memories
  <1>4. Pointed(p, m, s, c)
    BY <1>2, <1>3 DEF Pointed
  <1> QED
    BY <1>4 DEF p

\* An object is deleted.
LEMMA DeleteIs ==
    ASSUME NEW m \in Memories, NEW c
    PROVE  /\ Delete(m, c) \in Memories
           /\ Delete(m, c).slots = m.slots
           /\ DOMAIN Delete(m, c).heap = DOMAIN m.heap \ {c}
           /\ \A d \in DOMAIN m.heap \ {c} : Delete(m, c).heap[d] = m.heap[d]
  <1> DEFINE h == [d \in DOMAIN m.heap \ {c} |-> m.heap[d]]
  <1>1. Delete(m, c) = [m EXCEPT !.heap = h]
    BY DEF Delete, Restrict
  <1>2. h \in Heaps
    BY MemoryParts, HeapsAre
  <1>3. Delete(m, c).slots = m.slots /\ Delete(m, c).heap = h /\ Delete(m, c) \in Memories
    <2> HIDE DEF h
    <2> QED
      BY <1>1, <1>2 DEF Memories
  <1> QED
    BY <1>3

\* Optional::Reset deletes the object, if there is one, and nothing else.
LEMMA ResetTidy ==
    ASSUME NEW m, NEW g, Tidy(m, g), NEW s \in DOMAIN m.slots
    PROVE  /\ Tidy(Reset(m, s), g)
           /\ DOMAIN Reset(m, s).heap \subseteq DOMAIN m.heap
           /\ DOMAIN Reset(m, s).slots = DOMAIN m.slots
           /\ Reset(m, s).slots[s] = Null
           /\ \A t \in DOMAIN m.slots : t # s => Reset(m, s).slots[t] = m.slots[t]
  <1> DEFINE c == m.slots[s]
             d == Delete(m, c)
             r == Point(d, s, Null)
  <1>0. m \in Memories
    BY DEF Tidy
  <1>1. CASE c = Null
    BY <1>1 DEF Reset, HasValue
  <1>2. CASE c # Null
    <2>1. Reset(m, s) = r
      BY <1>2 DEF Reset, HasValue
    <2>2. /\ d \in Memories /\ d.slots = m.slots /\ DOMAIN d.heap = DOMAIN m.heap \ {c}
      BY <1>0, DeleteIs
    <2> HIDE DEF d
    <2>3. /\ r \in Memories /\ DOMAIN r.heap = DOMAIN m.heap \ {c}
          /\ DOMAIN r.slots = DOMAIN m.slots /\ r.slots[s] = Null
          /\ \A t \in DOMAIN m.slots : t # s => r.slots[t] = m.slots[t]
      <3>1. s \in DOMAIN d.slots /\ Null \in Cells \cup {Null}
        BY <2>2
      <3>2. Pointed(r, d, s, Null)
        BY <2>2, <3>1, PointIs
      <3> HIDE DEF r, c
      <3> QED
        BY <2>2, <3>2 DEF Pointed
    <2> HIDE DEF r
    <2>4. Tidy(r, g)
      <3>1. g \subseteq DOMAIN r.heap
        BY <1>2, <2>3 DEF Tidy
      <3>2. ASSUME NEW t \in DOMAIN r.slots, r.slots[t] # Null PROVE r.slots[t] \in DOMAIN r.heap \ g
        BY <1>2, <2>3, <3>2 DEF Tidy
      <3>3. ASSUME NEW t \in DOMAIN r.slots, NEW u \in DOMAIN r.slots, t # u, r.slots[t] # Null
            PROVE  r.slots[t] # r.slots[u]
        BY <1>2, <2>3, <3>3 DEF Tidy
      <3>4. ASSUME NEW a \in DOMAIN r.heap \ g PROVE \E t \in DOMAIN r.slots : r.slots[t] = a
        <4>1. PICK t \in DOMAIN m.slots : m.slots[t] = a
          BY <2>3 DEF Tidy
        <4> QED
          BY <2>3, <4>1
      <3> QED
        BY <2>3, <3>1, <3>2, <3>3, <3>4 DEF Tidy
    <2> QED
      BY <2>1, <2>3, <2>4
  <1> QED
    BY <1>1, <1>2

\* Optional(value): an empty Optional gets a new object.
LEMMA NewTidy ==
    ASSUME NEW m, NEW g, Tidy(m, g), NEW s \in DOMAIN m.slots, m.slots[s] = Null, NEW x \in Contents,
           Cells \ DOMAIN m.heap # {}
    PROVE  /\ Tidy(New(m, s, x), g)
           /\ DOMAIN New(m, s, x).slots = DOMAIN m.slots
           /\ New(m, s, x).slots[s] # Null
           /\ \A t \in DOMAIN m.slots : t # s => New(m, s, x).slots[t] = m.slots[t]
  <1> DEFINE c == CHOOSE c \in Cells : c \notin DOMAIN m.heap
             h == [d \in DOMAIN m.heap \cup {c} |-> IF d = c THEN x ELSE m.heap[d]]
             n == [m EXCEPT !.heap = h]
             r == Point(n, s, c)
  <1>0. m \in Memories
    BY DEF Tidy
  <1>1. c \in Cells /\ c \notin DOMAIN m.heap
    OBVIOUS
  <1>2. New(m, s, x) = r
    BY DEF New
  <1> HIDE DEF c
  <1>3. h \in Heaps /\ DOMAIN h = DOMAIN m.heap \cup {c}
    BY <1>0, <1>1, MemoryParts, HeapsAre
  <1> HIDE DEF h
  <1>4. n \in Memories /\ n.slots = m.slots /\ n.heap = h
    BY <1>0, <1>3 DEF Memories
  <1> HIDE DEF n
  <1>5. Pointed(r, n, s, c)
    BY <1>1, <1>4, PointIs
  <1> HIDE DEF r
  <1> USE DEF Pointed
  <1>6. /\ DOMAIN r.heap = DOMAIN m.heap \cup {c} /\ DOMAIN r.slots = DOMAIN m.slots
        /\ \A t \in DOMAIN m.slots : t # s => r.slots[t] = m.slots[t]
    BY <1>3, <1>4, <1>5
  <1>7. c # Null
    BY <1>1, NullAssumption
  <1>8. Tidy(r, g)
    <2>1. g \subseteq DOMAIN r.heap /\ c \notin g
      BY <1>1, <1>6 DEF Tidy
    <2>2. ASSUME NEW t \in DOMAIN r.slots, r.slots[t] # Null PROVE r.slots[t] \in DOMAIN r.heap \ g
      BY <1>5, <1>6, <2>1, <2>2 DEF Tidy
    <2>3. ASSUME NEW t \in DOMAIN r.slots, NEW u \in DOMAIN r.slots, t # u, r.slots[t] # Null
          PROVE  r.slots[t] # r.slots[u]
      <3>1. \A v \in DOMAIN m.slots : m.slots[v] # c
        BY <1>1, <1>7 DEF Tidy
      <3> QED
        BY <1>5, <1>6, <1>7, <2>3, <3>1 DEF Tidy
    <2>4. ASSUME NEW a \in DOMAIN r.heap \ g PROVE \E t \in DOMAIN r.slots : r.slots[t] = a
      <3>1. CASE a = c
        BY <1>5, <1>6, <3>1
      <3>2. CASE a # c
        <4>1. PICK t \in DOMAIN m.slots : m.slots[t] = a
          BY <1>6, <3>2 DEF Tidy
        <4>2. t # s
          BY <1>0, <1>6, <3>2, <4>1, MemoryParts, NullAssumption
        <4> QED
          BY <1>6, <4>1, <4>2
      <3> QED
        BY <3>1, <3>2
    <2> QED
      BY <1>5, <2>1, <2>2, <2>3, <2>4 DEF Tidy
  <1> QED
    BY <1>2, <1>5, <1>6, <1>7, <1>8

\* operator=(const Optional &): afterwards the Optional has an object exactly if
\* the other one has, unless it is the same one, which is empty.
LEMMA CopyTidy ==
    ASSUME NEW m, NEW g, Tidy(m, g), NEW s \in DOMAIN m.slots, NEW t \in DOMAIN m.slots,
           Cells \ DOMAIN m.heap # {}
    PROVE  /\ Tidy(CopyOptional(m, s, t), g)
           /\ DOMAIN CopyOptional(m, s, t).slots = DOMAIN m.slots
           /\ \A u \in DOMAIN m.slots : u # s => CopyOptional(m, s, t).slots[u] = m.slots[u]
           /\ m.slots[t] = Null => CopyOptional(m, s, t).slots[s] = Null
  <1> DEFINE r == Reset(m, s)
  <1>1. /\ Tidy(r, g) /\ DOMAIN r.heap \subseteq DOMAIN m.heap /\ DOMAIN r.slots = DOMAIN m.slots
        /\ r.slots[s] = Null /\ \A u \in DOMAIN m.slots : u # s => r.slots[u] = m.slots[u]
    BY ResetTidy
  <1>2. CopyOptional(m, s, t) = IF r.slots[t] # Null THEN New(r, s, r.heap[r.slots[t]]) ELSE r
    BY DEF CopyOptional, HasValue, ObjectAt
  <1> HIDE DEF r
  <1>3. CASE r.slots[t] = Null
    BY <1>1, <1>2, <1>3
  <1>4. CASE r.slots[t] # Null
    <2>1. r.heap[r.slots[t]] \in Contents
      BY <1>1, <1>4, MemoryParts DEF Tidy
    <2>2. Cells \ DOMAIN r.heap # {}
      BY <1>1
    <2>3. m.slots[t] # Null
      BY <1>1, <1>4
    <2>4. /\ Tidy(New(r, s, r.heap[r.slots[t]]), g)
          /\ DOMAIN New(r, s, r.heap[r.slots[t]]).slots = DOMAIN r.slots
          /\ \A u \in DOMAIN r.slots : u # s => New(r, s, r.heap[r.slots[t]]).slots[u] = r.slots[u]
      BY <1>1, <2>1, <2>2, NewTidy
    <2> QED
      BY <1>1, <1>2, <1>4, <2>3, <2>4
  <1> QED
    BY <1>3, <1>4

\* operator=(Optional &&): the object changes hands.
LEMMA MoveTidy ==
    ASSUME NEW m, NEW g, Tidy(m, g), NEW s \in DOMAIN m.slots, NEW t \in DOMAIN m.slots
    PROVE  /\ Tidy(MoveOptional(m, s, t), g)
           /\ DOMAIN MoveOptional(m, s, t).slots = DOMAIN m.slots
           /\ MoveOptional(m, s, t).slots[s] = IF s = t THEN Null ELSE m.slots[t]
           /\ MoveOptional(m, s, t).slots[t] = Null
           /\ \A u \in DOMAIN m.slots : u # s /\ u # t => MoveOptional(m, s, t).slots[u] = m.slots[u]
  <1> DEFINE r == Reset(m, s)
             p == Point(r, s, r.slots[t])
             q == Point(p, t, Null)
  <1>1. /\ Tidy(r, g) /\ DOMAIN r.slots = DOMAIN m.slots
        /\ r.slots[s] = Null /\ \A u \in DOMAIN m.slots : u # s => r.slots[u] = m.slots[u]
    BY ResetTidy
  <1>2. MoveOptional(m, s, t) = IF r.slots[t] # Null THEN q ELSE r
    BY DEF MoveOptional, HasValue
  <1> HIDE DEF r
  <1>3. CASE r.slots[t] = Null
    BY <1>1, <1>2, <1>3
  <1>4. CASE r.slots[t] # Null
    <2>0. s # t /\ r \in Memories /\ r.slots[t] \in Cells \cup {Null}
      BY <1>1, <1>4, MemoryParts DEF Tidy
    <2>1. Pointed(p, r, s, r.slots[t])
      BY <1>1, <2>0, PointIs
    <2> HIDE DEF p
    <2>2. Pointed(q, p, t, Null)
      <3>1. p \in Memories /\ t \in DOMAIN p.slots /\ Null \in Cells \cup {Null}
        BY <1>1, <2>1 DEF Pointed
      <3> QED
        BY <3>1, PointIs
    <2> HIDE DEF q
    <2> USE DEF Pointed
    <2>3. /\ q.heap = r.heap /\ DOMAIN q.slots = DOMAIN r.slots /\ q.slots[s] = r.slots[t]
          /\ q.slots[t] = Null /\ \A u \in DOMAIN r.slots : u # s /\ u # t => q.slots[u] = r.slots[u]
      BY <1>1, <2>0, <2>1, <2>2
    <2>4. Tidy(q, g)
      <3>1. ASSUME NEW u \in DOMAIN q.slots, q.slots[u] # Null PROVE q.slots[u] \in DOMAIN q.heap \ g
        BY <1>1, <2>3, <3>1 DEF Tidy
      <3>2. ASSUME NEW u \in DOMAIN q.slots, NEW v \in DOMAIN q.slots, u # v, q.slots[u] # Null
            PROVE  q.slots[u] # q.slots[v]
        BY <1>1, <2>3, <3>2 DEF Tidy
      <3>3. ASSUME NEW a \in DOMAIN q.heap \ g PROVE \E u \in DOMAIN q.slots : q.slots[u] = a
        <4>1. PICK u \in DOMAIN r.slots : r.slots[u] = a
          BY <1>1, <2>3 DEF Tidy
        <4>2. u # s
          BY <1>1, <2>0, <2>3, <4>1, MemoryParts, NullAssumption
        <4>3. CASE u = t
          BY <1>1, <2>3, <4>1, <4>3
        <4>4. CASE u # t
          BY <2>3, <4>1, <4>2, <4>4
        <4> QED
          BY <4>3, <4>4
      <3> QED
        BY <1>1, <2>2, <2>3, <3>1, <3>2, <3>3 DEF Tidy
    <2> QED
      BY <1>1, <1>2, <1>4, <2>0, <2>3, <2>4
  <1> QED
    BY <1>3, <1>4

\* Swap: two Optionals exchange their objects.
LEMMA SwapTidy ==
    ASSUME NEW m, NEW g, Tidy(m, g), NEW s \in DOMAIN m.slots, NEW t \in DOMAIN m.slots
    PROVE  /\ Tidy(SwapOptional(m, s, t), g)
           /\ DOMAIN SwapOptional(m, s, t).slots = DOMAIN m.slots
           /\ SwapOptional(m, s, t).slots[s] = m.slots[t] /\ SwapOptional(m, s, t).slots[t] = m.slots[s]
           /\ \A u \in DOMAIN m.slots : u # s /\ u # t => SwapOptional(m, s, t).slots[u] = m.slots[u]
  <1> DEFINE f == [m.slots EXCEPT ![s] = m.slots[t], ![t] = m.slots[s]]
             q == SwapOptional(m, s, t)
  <1>0. m \in Memories
    BY DEF Tidy
  <1>1. /\ f \in SlotMaps /\ DOMAIN f = DOMAIN m.slots /\ f[s] = m.slots[t] /\ f[t] = m.slots[s]
        /\ \A u \in DOMAIN m.slots : u # s /\ u # t => f[u] = m.slots[u]
    BY <1>0, MemoryParts, SlotMapsAre
  <1>2. q = [m EXCEPT !.slots = f]
    BY <1>0 DEF SwapOptional, Memories
  <1> HIDE DEF f
  <1>3. q \in Memories /\ q.heap = m.heap /\ q.slots = f
    BY <1>0, <1>1, <1>2 DEF Memories
  <1> HIDE DEF q
  <1>4. Tidy(q, g)
    <2>1. ASSUME NEW u \in DOMAIN q.slots, q.slots[u] # Null PROVE q.slots[u] \in DOMAIN q.heap \ g
      BY <1>1, <1>3, <2>1 DEF Tidy
    <2>2. ASSUME NEW u \in DOMAIN q.slots, NEW v \in DOMAIN q.slots, u # v, q.slots[u] # Null
          PROVE  q.slots[u] # q.slots[v]
      BY <1>1, <1>3, <2>2 DEF Tidy
    <2>3. ASSUME NEW a \in DOMAIN q.heap \ g PROVE \E u \in DOMAIN q.slots : q.slots[u] = a
      <3>1. PICK u \in DOMAIN m.slots : m.slots[u] = a
        BY <1>3 DEF Tidy
      <3> QED
        BY <1>1, <1>3, <3>1
    <2> QED
      BY <1>3, <2>1, <2>2, <2>3 DEF Tidy
  <1> QED
    BY <1>1, <1>3, <1>4 DEF q

\* A Result exists with all its Optionals or with none, and does not have both a
\* value and an error.
Whole(f) ==
    \A r \in Results \cup Voids : OptionalsOf(r) \subseteq DOMAIN f \/ OptionalsOf(r) \cap DOMAIN f = {}
NotBoth(f) ==
    \A r \in Results : OptionalsOf(r) \subseteq DOMAIN f => f[V(r)] = Null \/ f[E(r)] = Null

CoreInv == Tidy(Memory, given) /\ Whole(slots) /\ NotBoth(slots)

\* The Optionals of different Results are different.
LEMMA SlotNames ==
    ASSUME NEW r, NEW q
    PROVE  /\ V(r) # E(q)
           /\ r # q => V(r) # V(q) /\ E(r) # E(q) /\ OptionalsOf(r) \cap OptionalsOf(q) = {}
           /\ r \in Results => OptionalsOf(r) = {V(r), E(r)}
           /\ r \in Voids => OptionalsOf(r) = {E(r)}
           /\ r \in Results \cup Voids => OptionalsOf(r) \subseteq Slots
  BY VariablesAssumption DEF V, E, OptionalsOf, Kinds, Slots

LEMMA MemoryIs == Memory.heap = heap /\ Memory.slots = slots
  BY DEF Memory

\* What an operation made of the memory becomes the memory.
LEMMA BecomeKeeps ==
    ASSUME NEW m, Become(m), Tidy(m, given'), Whole(m.slots), NotBoth(m.slots)
    PROVE  CoreInv'
  <1>1. m \in Memories
    BY DEF Tidy
  <1>2. Memory' = m
    BY <1>1 DEF Become, Memory, Memories
  <1>3. slots' = m.slots
    BY DEF Become
  <1>4. Tidy(Memory, given)'
    <2>1. Tidy(Memory', given')
      BY <1>2
    <2> QED
      BY <2>1 DEF Tidy
  <1>5. Whole(slots)' /\ NotBoth(slots)'
    BY <1>3 DEF Whole, NotBoth
  <1> QED
    BY <1>4, <1>5 DEF CoreInv

\* Which Optionals there are says which Results there are.
LEMMA WholeKept ==
    ASSUME NEW f, NEW h, Whole(f), DOMAIN h = DOMAIN f
    PROVE  Whole(h)
  BY DEF Whole
LEMMA WholeWithOne ==
    ASSUME NEW f, NEW h, Whole(f), NEW r \in Results \cup Voids, DOMAIN h = DOMAIN f \cup OptionalsOf(r)
    PROVE  Whole(h)
  <1> SUFFICES ASSUME NEW q \in Results \cup Voids
               PROVE  OptionalsOf(q) \subseteq DOMAIN h \/ OptionalsOf(q) \cap DOMAIN h = {}
    BY DEF Whole
  <1>1. CASE q = r
    BY <1>1
  <1>2. CASE q # r
    BY <1>2, SlotNames DEF Whole
  <1> QED
    BY <1>1, <1>2

\* The Results that an operation does not touch are as they were, and neither r
\* nor q, which it may touch, ends with a value and an error.
OneOf(f, r) == r \in Results => f[V(r)] = Null \/ f[E(r)] = Null
Changed(f, h, r, q) ==
    /\ \A s \in DOMAIN f \ {V(r), E(r), V(q), E(q)} : h[s] = f[s]
    /\ OneOf(h, r) /\ OneOf(h, q)

LEMMA NotBothKept ==
    ASSUME NEW f, NEW h, NEW r, NEW q, NotBoth(f), Changed(f, h, r, q),
           DOMAIN h = DOMAIN f \/ DOMAIN h = DOMAIN f \cup OptionalsOf(r)
    PROVE  NotBoth(h)
  <1> SUFFICES ASSUME NEW p \in Results, OptionalsOf(p) \subseteq DOMAIN h
               PROVE  h[V(p)] = Null \/ h[E(p)] = Null
    BY DEF NotBoth
  <1>1. CASE p = r \/ p = q
    BY <1>1 DEF Changed, OneOf
  <1>2. CASE p # r /\ p # q
    <2>1. OptionalsOf(p) = {V(p), E(p)} /\ OptionalsOf(p) \cap OptionalsOf(r) = {}
      BY <1>2, SlotNames
    <2>2. OptionalsOf(p) \subseteq DOMAIN f
      BY <2>1
    <2>3. V(p) \notin {V(r), E(r), V(q), E(q)} /\ E(p) \notin {V(r), E(r), V(q), E(q)}
      BY <1>2, SlotNames
    <2>4. h[V(p)] = f[V(p)] /\ h[E(p)] = f[E(p)]
      BY <2>1, <2>2, <2>3 DEF Changed
    <2> QED
      BY <2>2, <2>4 DEF NotBoth
  <1> QED
    BY <1>1, <1>2

\* The Optionals of a new Result are empty.
LEMMA BlankTidy ==
    ASSUME CoreInv, NEW r \in Results \cup Voids, ~Exists(r)
    PROVE  /\ Tidy(Blank(r), given)
           /\ Blank(r).heap = heap
           /\ OptionalsOf(r) \cap DOMAIN slots = {}
           /\ DOMAIN Blank(r).slots = DOMAIN slots \cup OptionalsOf(r)
           /\ \A s \in OptionalsOf(r) : Blank(r).slots[s] = Null
           /\ \A s \in DOMAIN slots : Blank(r).slots[s] = slots[s]
  <1> DEFINE f == [s \in DOMAIN slots \cup OptionalsOf(r) |-> IF s \in OptionalsOf(r) THEN Null ELSE slots[s]]
             b == Blank(r)
  <1>0. Memory \in Memories /\ OptionalsOf(r) \cap DOMAIN slots = {}
    BY DEF CoreInv, Tidy, Whole, Exists
  <1>1. b = [Memory EXCEPT !.slots = f]
    BY DEF Blank
  <1>2. /\ f \in SlotMaps /\ DOMAIN f = DOMAIN slots \cup OptionalsOf(r)
        /\ \A s \in OptionalsOf(r) : f[s] = Null
        /\ \A s \in DOMAIN slots : f[s] = slots[s]
    <2>1. DOMAIN slots \subseteq Slots /\ slots \in [DOMAIN slots -> Cells \cup {Null}]
      BY <1>0, MemoryParts, MemoryIs
    <2>2. OptionalsOf(r) \subseteq Slots
      BY SlotNames
    <2> QED
      BY <1>0, <2>1, <2>2, SlotMapsAre
  <1> HIDE DEF f, b
  <1>3. b \in Memories /\ b.heap = heap /\ b.slots = f
    BY <1>0, <1>1, <1>2, MemoryIs DEF Memories
  <1>4. Tidy(b, given)
    <2>1. /\ given \subseteq DOMAIN heap
          /\ \A s \in DOMAIN slots : slots[s] # Null => slots[s] \in DOMAIN heap \ given
          /\ \A s, t \in DOMAIN slots : s # t /\ slots[s] # Null => slots[s] # slots[t]
          /\ \A c \in DOMAIN heap \ given : \E s \in DOMAIN slots : slots[s] = c
      BY MemoryIs DEF CoreInv, Tidy
    <2>2. ASSUME NEW s \in DOMAIN f, f[s] # Null PROVE f[s] \in DOMAIN heap \ given
      BY <1>2, <2>1, <2>2
    <2>3. ASSUME NEW s \in DOMAIN f, NEW t \in DOMAIN f, s # t, f[s] # Null PROVE f[s] # f[t]
      BY <1>2, <2>1, <2>3
    <2>4. ASSUME NEW c \in DOMAIN heap \ given PROVE \E s \in DOMAIN f : f[s] = c
      BY <1>2, <2>1
    <2> QED
      BY <1>3, <2>1, <2>2, <2>3, <2>4 DEF Tidy
  <1> QED
    BY <1>0, <1>2, <1>3, <1>4 DEF b

\* An operation that made a new Result r or none, and that changed, besides r,
\* the Optionals of q.
LEMMA ChangeKeeps ==
    ASSUME CoreInv, NEW r \in Results \cup Voids, NEW q, NEW m, Become(m), given' = given,
           Tidy(m, given), Changed(slots, m.slots, r, q),
           DOMAIN m.slots = DOMAIN slots \/ DOMAIN m.slots = DOMAIN slots \cup OptionalsOf(r)
    PROVE  CoreInv'
  <1>1. Whole(slots) /\ NotBoth(slots)
    BY DEF CoreInv
  <1>2. Whole(m.slots)
    BY <1>1, WholeWithOne, WholeKept
  <1>3. NotBoth(m.slots)
    BY <1>1, NotBothKept
  <1> QED
    BY <1>2, <1>3, BecomeKeeps

LEMMA FromContentsKeeps ==
    ASSUME CoreInv, NEW r \in Results \cup Voids, NEW k, <<r, k>> \in OptionalsOf(r), NEW x \in Contents,
           FromContents(r, k, x)
    PROVE  CoreInv'
  <1> DEFINE s == <<r, k>>
             b == Blank(r)
             m == New(b, s, x)
  <1>1. ~Exists(r) /\ Become(m) /\ given' = given /\ Cells \ DOMAIN heap # {}
    BY DEF FromContents, Room
  <1>2. /\ Tidy(b, given) /\ b.heap = heap /\ DOMAIN b.slots = DOMAIN slots \cup OptionalsOf(r)
        /\ \A t \in OptionalsOf(r) : b.slots[t] = Null
        /\ \A t \in DOMAIN slots : b.slots[t] = slots[t]
    BY <1>1, BlankTidy
  <1>3. s = V(r) \/ s = E(r)
    BY SlotNames
  <1> HIDE DEF s, b
  <1>4. /\ Tidy(m, given) /\ DOMAIN m.slots = DOMAIN b.slots
        /\ \A t \in DOMAIN b.slots : t # s => m.slots[t] = b.slots[t]
    BY <1>1, <1>2, NewTidy DEF s
  <1> HIDE DEF m
  <1>5. OneOf(m.slots, r)
    BY <1>2, <1>3, <1>4, SlotNames DEF OneOf
  <1>6. Changed(slots, m.slots, r, r)
    BY <1>2, <1>3, <1>4, <1>5 DEF Changed
  <1> QED
    BY <1>1, <1>2, <1>4, <1>6, ChangeKeeps

\* A new Result whose one Optional is a copy of t, or is moved from t.
LEMMA CopyMadeKeeps ==
    ASSUME CoreInv, NEW r \in Results \cup Voids, ~Exists(r), Room, NEW s \in OptionalsOf(r),
           NEW t \in DOMAIN slots, Become(CopyOptional(Blank(r), s, t)), given' = given
    PROVE  CoreInv'
  <1> DEFINE b == Blank(r)
             m == CopyOptional(b, s, t)
  <1>1. /\ Tidy(b, given) /\ b.heap = heap /\ DOMAIN b.slots = DOMAIN slots \cup OptionalsOf(r)
        /\ \A u \in OptionalsOf(r) : b.slots[u] = Null
        /\ \A u \in DOMAIN slots : b.slots[u] = slots[u]
    BY BlankTidy
  <1>2. s = V(r) \/ s = E(r)
    BY SlotNames
  <1>3. Become(m)
    OBVIOUS
  <1> HIDE DEF b
  <1>4. /\ Tidy(m, given) /\ DOMAIN m.slots = DOMAIN b.slots
        /\ \A u \in DOMAIN b.slots : u # s => m.slots[u] = b.slots[u]
    BY <1>1, CopyTidy DEF Room
  <1> HIDE DEF m
  <1>5. OneOf(m.slots, r)
    BY <1>1, <1>2, <1>4, SlotNames DEF OneOf
  <1>6. Changed(slots, m.slots, r, r)
    BY <1>1, <1>2, <1>4, <1>5 DEF Changed
  <1> QED
    BY <1>1, <1>3, <1>4, <1>6, ChangeKeeps

LEMMA MoveMadeKeeps ==
    ASSUME CoreInv, NEW r \in Results \cup Voids, ~Exists(r), NEW s \in OptionalsOf(r),
           NEW q \in Results \cup Voids, NEW t \in OptionalsOf(q), Exists(q),
           Become(MoveOptional(Blank(r), s, t)), given' = given
    PROVE  CoreInv'
  <1> DEFINE b == Blank(r)
             m == MoveOptional(b, s, t)
  <1>1. /\ Tidy(b, given) /\ b.heap = heap /\ DOMAIN b.slots = DOMAIN slots \cup OptionalsOf(r)
        /\ \A u \in OptionalsOf(r) : b.slots[u] = Null
        /\ \A u \in DOMAIN slots : b.slots[u] = slots[u]
    BY BlankTidy
  <1>2. (s = V(r) \/ s = E(r)) /\ (t = V(q) \/ t = E(q)) /\ t \in DOMAIN slots /\ r # q
    BY SlotNames DEF Exists
  <1>3. Become(m)
    OBVIOUS
  <1> HIDE DEF b
  <1>4. /\ Tidy(m, given) /\ DOMAIN m.slots = DOMAIN b.slots /\ m.slots[t] = Null
        /\ \A u \in DOMAIN b.slots : u # s /\ u # t => m.slots[u] = b.slots[u]
    BY <1>1, <1>2, MoveTidy
  <1> HIDE DEF m
  <1>5. OneOf(m.slots, r)
    BY <1>1, <1>2, <1>4, SlotNames DEF OneOf
  <1>6. OneOf(m.slots, q)
    BY <1>2, <1>4 DEF OneOf
  <1>7. Changed(slots, m.slots, r, q)
    BY <1>1, <1>2, <1>4, <1>5, <1>6 DEF Changed
  <1> QED
    BY <1>1, <1>3, <1>4, <1>7, ChangeKeeps

\* An assignment: s gets what t has, and the other Optional u of r is reset.
LEMMA CopyAssignedKeeps ==
    ASSUME CoreInv, NEW r \in Results, Exists(r), Room, NEW s, NEW u,
           (s = V(r) /\ u = E(r)) \/ (s = E(r) /\ u = V(r)),
           NEW t \in DOMAIN slots, Become(Reset(CopyOptional(Memory, s, t), u)), given' = given
    PROVE  CoreInv'
  <1> DEFINE c == CopyOptional(Memory, s, t)
             m == Reset(c, u)
  <1>1. Tidy(Memory, given) /\ Memory.slots = slots /\ Memory.heap = heap
    BY MemoryIs DEF CoreInv
  <1>2. s \in DOMAIN slots /\ u \in DOMAIN slots /\ s # u
    BY SlotNames DEF Exists
  <1>3. /\ Tidy(c, given) /\ DOMAIN c.slots = DOMAIN slots
        /\ \A v \in DOMAIN slots : v # s => c.slots[v] = slots[v]
    BY <1>1, <1>2, CopyTidy DEF Room
  <1>4. Become(m)
    OBVIOUS
  <1> HIDE DEF c
  <1>5. /\ Tidy(m, given) /\ DOMAIN m.slots = DOMAIN c.slots /\ m.slots[u] = Null
        /\ \A v \in DOMAIN c.slots : v # u => m.slots[v] = c.slots[v]
    BY <1>2, <1>3, ResetTidy
  <1> HIDE DEF m
  <1>6. OneOf(m.slots, r)
    BY <1>5 DEF OneOf
  <1>7. Changed(slots, m.slots, r, r)
    BY <1>3, <1>5, <1>6 DEF Changed
  <1> QED
    BY <1>3, <1>4, <1>5, <1>7, ChangeKeeps

LEMMA MoveAssignedKeeps ==
    ASSUME CoreInv, NEW r \in Results, NEW q \in Results, Exists(r), Exists(q), NEW s, NEW t, NEW u,
           (s = V(r) /\ t = V(q) /\ u = E(r)) \/ (s = E(r) /\ t = E(q) /\ u = V(r)),
           Become(Reset(MoveOptional(Memory, s, t), u)), given' = given
    PROVE  CoreInv'
  <1> DEFINE c == MoveOptional(Memory, s, t)
             m == Reset(c, u)
  <1>1. Tidy(Memory, given) /\ Memory.slots = slots
    BY MemoryIs DEF CoreInv
  <1>2. s \in DOMAIN slots /\ t \in DOMAIN slots /\ u \in DOMAIN slots /\ s # u /\ t # u
    BY SlotNames DEF Exists
  <1>3. /\ Tidy(c, given) /\ DOMAIN c.slots = DOMAIN slots /\ c.slots[t] = Null
        /\ \A v \in DOMAIN slots : v # s /\ v # t => c.slots[v] = slots[v]
    BY <1>1, <1>2, MoveTidy
  <1>4. Become(m)
    OBVIOUS
  <1> HIDE DEF c
  <1>5. /\ Tidy(m, given) /\ DOMAIN m.slots = DOMAIN c.slots /\ m.slots[u] = Null
        /\ \A v \in DOMAIN c.slots : v # u => m.slots[v] = c.slots[v]
    BY <1>2, <1>3, ResetTidy
  <1> HIDE DEF m
  <1>6. OneOf(m.slots, r) /\ OneOf(m.slots, q)
    BY <1>2, <1>3, <1>5 DEF OneOf
  <1>7. Changed(slots, m.slots, r, q)
    BY <1>2, <1>3, <1>5, <1>6 DEF Changed
  <1> QED
    BY <1>3, <1>4, <1>5, <1>7, ChangeKeeps

\* EmplaceValue and EmplaceError of a Result.
LEMMA EmplacedKeeps ==
    ASSUME CoreInv, NEW r \in Results, NEW k \in Kinds, NEW x \in Contents, EmplaceContents(r, k, x)
    PROVE  CoreInv'
  <1> DEFINE s == <<r, k>>
             u == IF k = "mValue" THEN E(r) ELSE V(r)
             a == Reset(Memory, s)
             n == New(a, s, x)
             m == Reset(n, u)
  <1>1. Tidy(Memory, given) /\ Memory.slots = slots /\ Memory.heap = heap
    BY MemoryIs DEF CoreInv
  <1>2. Exists(r) /\ Cells \ DOMAIN heap # {} /\ Become(m) /\ given' = given
    BY DEF EmplaceContents, Emplace, Room
  <1>3. (s = V(r) /\ u = E(r)) \/ (s = E(r) /\ u = V(r))
    BY DEF V, E, Kinds
  <1> HIDE DEF s, u
  <1>4. s \in DOMAIN slots /\ u \in DOMAIN slots /\ s # u
    BY <1>2, <1>3, SlotNames DEF Exists
  <1>5. /\ Tidy(a, given) /\ DOMAIN a.slots = DOMAIN slots /\ a.slots[s] = Null
        /\ DOMAIN a.heap \subseteq DOMAIN heap
        /\ \A v \in DOMAIN slots : v # s => a.slots[v] = slots[v]
    BY <1>1, <1>4, ResetTidy
  <1> HIDE DEF a
  <1>6. Cells \ DOMAIN a.heap # {}
    BY <1>2, <1>5
  <1>7. /\ Tidy(n, given) /\ DOMAIN n.slots = DOMAIN a.slots
        /\ \A v \in DOMAIN a.slots : v # s => n.slots[v] = a.slots[v]
    BY <1>4, <1>5, <1>6, NewTidy
  <1> HIDE DEF n
  <1>8. /\ Tidy(m, given) /\ DOMAIN m.slots = DOMAIN n.slots /\ m.slots[u] = Null
        /\ \A v \in DOMAIN n.slots : v # u => m.slots[v] = n.slots[v]
    BY <1>4, <1>5, <1>7, ResetTidy
  <1> HIDE DEF m
  <1>9. OneOf(m.slots, r)
    BY <1>3, <1>8 DEF OneOf
  <1>10. Changed(slots, m.slots, r, r)
    BY <1>3, <1>5, <1>7, <1>8, <1>9 DEF Changed
  <1> QED
    BY <1>2, <1>5, <1>7, <1>8, <1>10, ChangeKeeps

\* Swap of two Results: by the value they have, and they have no error then.
LEMMA SwapKeeps ==
    ASSUME CoreInv, NEW r \in Results, NEW q \in Results, Swap(r, q)
    PROVE  CoreInv'
  <1>1. Tidy(Memory, given) /\ Memory.slots = slots /\ NotBoth(slots)
    BY MemoryIs DEF CoreInv
  <1>2. /\ V(r) \in DOMAIN slots /\ E(r) \in DOMAIN slots /\ V(q) \in DOMAIN slots /\ E(q) \in DOMAIN slots
        /\ OptionalsOf(r) \subseteq DOMAIN slots /\ OptionalsOf(q) \subseteq DOMAIN slots
    BY SlotNames DEF Exists, Swap
  <1>3. given' = given
    BY DEF Swap
  <1>4. /\ slots[V(r)] = Null \/ slots[E(r)] = Null
        /\ slots[V(q)] = Null \/ slots[E(q)] = Null
    BY <1>1, <1>2 DEF NotBoth
  <1>5. V(r) # E(r) /\ V(q) # E(q) /\ V(r) # E(q) /\ V(q) # E(r)
    BY SlotNames
  <1>6. ASSUME NEW s, NEW t, NEW u, NEW v,
               (s = V(r) /\ t = V(q) /\ u = E(r) /\ v = E(q)) \/ (s = E(r) /\ t = E(q) /\ u = V(r) /\ v = V(q)),
               slots[u] = Null, slots[v] = Null, Become(SwapOptional(Memory, s, t))
        PROVE  CoreInv'
    <2> DEFINE m == SwapOptional(Memory, s, t)
    <2>1. Become(m)
      BY <1>6
    <2>2. /\ Tidy(m, given) /\ DOMAIN m.slots = DOMAIN slots
          /\ \A w \in DOMAIN slots : w # s /\ w # t => m.slots[w] = slots[w]
      BY <1>1, <1>2, <1>6, SwapTidy
    <2> HIDE DEF m
    <2>3. OneOf(m.slots, r) /\ OneOf(m.slots, q)
      BY <1>2, <1>5, <1>6, <2>2 DEF OneOf
    <2>4. Changed(slots, m.slots, r, q)
      BY <1>6, <2>2, <2>3 DEF Changed
    <2> QED
      BY <1>3, <2>1, <2>2, <2>4, ChangeKeeps
  <1>7. ASSUME NEW s, NEW t, NEW u, NEW v,
               (s = V(r) /\ t = V(q) /\ u = E(r) /\ v = E(q)) \/ (s = E(r) /\ t = E(q) /\ u = V(r) /\ v = V(q)),
               Become(MoveOptional(MoveOptional(Memory, s, t), v, u)), r # q
        PROVE  CoreInv'
    <2> DEFINE a == MoveOptional(Memory, s, t)
               m == MoveOptional(a, v, u)
    <2>1. Become(m)
      BY <1>7
    <2>2. /\ Tidy(a, given) /\ DOMAIN a.slots = DOMAIN slots /\ a.slots[t] = Null
          /\ \A w \in DOMAIN slots : w # s /\ w # t => a.slots[w] = slots[w]
      BY <1>1, <1>2, <1>7, MoveTidy
    <2> HIDE DEF a
    <2>3. /\ Tidy(m, given) /\ DOMAIN m.slots = DOMAIN a.slots /\ m.slots[u] = Null
          /\ \A w \in DOMAIN a.slots : w # u /\ w # v => m.slots[w] = a.slots[w]
      BY <1>2, <1>7, <2>2, MoveTidy
    <2> HIDE DEF m
    <2>4. m.slots[u] = Null /\ m.slots[t] = Null
      BY <1>2, <1>5, <1>7, <2>2, <2>3
    <2>5. OneOf(m.slots, r) /\ OneOf(m.slots, q)
      BY <1>7, <2>4 DEF OneOf
    <2>6. Changed(slots, m.slots, r, q)
      BY <1>7, <2>2, <2>3, <2>5 DEF Changed
    <2> QED
      BY <1>3, <2>1, <2>2, <2>3, <2>6, ChangeKeeps
  <1>8. CASE slots[V(r)] # Null /\ slots[V(q)] # Null
    <2>1. Become(SwapOptional(Memory, V(r), V(q)))
      BY <1>1, <1>8 DEF Swap, HasValue
    <2> QED
      BY <1>4, <1>6, <1>8, <2>1
  <1>9. CASE slots[V(r)] # Null /\ slots[V(q)] = Null
    <2>1. Become(MoveOptional(MoveOptional(Memory, E(r), E(q)), V(q), V(r)))
      BY <1>1, <1>9 DEF Swap, HasValue
    <2> QED
      BY <1>7, <1>9, <2>1
  <1>10. CASE slots[V(r)] = Null /\ slots[V(q)] # Null
    <2>1. Become(MoveOptional(MoveOptional(Memory, V(r), V(q)), E(q), E(r)))
      BY <1>1, <1>10 DEF Swap, HasValue
    <2> QED
      BY <1>7, <1>10, <2>1
  <1>11. CASE slots[V(r)] = Null /\ slots[V(q)] = Null
    <2>1. Become(SwapOptional(Memory, E(r), E(q)))
      BY <1>1, <1>11 DEF Swap, HasValue
    <2> QED
      BY <1>6, <1>11, <2>1
  <1> QED
    BY <1>8, <1>9, <1>10, <1>11

\* One Optional of r is emptied, whatever becomes of its object.
LEMMA EmptiedKeeps ==
    ASSUME CoreInv, NEW s \in DOMAIN slots, NEW m, Become(m), Tidy(m, given'),
           DOMAIN m.slots = DOMAIN slots, m.slots[s] = Null,
           \A t \in DOMAIN slots : t # s => m.slots[t] = slots[t]
    PROVE  CoreInv'
  <1>1. Whole(slots) /\ NotBoth(slots)
    BY DEF CoreInv
  <1>2. Whole(m.slots)
    BY <1>1, WholeKept
  <1>3. ASSUME NEW p \in Results, OptionalsOf(p) \subseteq DOMAIN m.slots
        PROVE  m.slots[V(p)] = Null \/ m.slots[E(p)] = Null
    <2>1. V(p) \in DOMAIN slots /\ E(p) \in DOMAIN slots
      BY <1>3, SlotNames
    <2> QED
      BY <1>1, <1>3, <2>1 DEF NotBoth
  <1>4. NotBoth(m.slots)
    BY <1>3 DEF NotBoth
  <1> QED
    BY <1>2, <1>4, BecomeKeeps

LEMMA TakeOptionalKeeps ==
    ASSUME CoreInv, NEW s, TakeOptional(s)
    PROVE  CoreInv'
  <1> DEFINE m == Reset(Memory, s)
  <1>1. Tidy(Memory, given) /\ Memory.slots = slots
    BY MemoryIs DEF CoreInv
  <1>2. s \in DOMAIN slots /\ Become(m) /\ given' = given
    BY DEF TakeOptional
  <1>3. /\ Tidy(m, given) /\ DOMAIN m.slots = DOMAIN slots /\ m.slots[s] = Null
        /\ \A t \in DOMAIN slots : t # s => m.slots[t] = slots[t]
    BY <1>1, <1>2, ResetTidy
  <1> HIDE DEF m
  <1> QED
    BY <1>2, <1>3, EmptiedKeeps

LEMMA TakeValueKeeps ==
    ASSUME CoreInv, NEW s, TakeValue(s)
    PROVE  CoreInv'
  <1> DEFINE m == Point(Memory, s, Null)
             c == slots[s]
  <1>1. Tidy(Memory, given) /\ Memory.slots = slots /\ Memory.heap = heap /\ Memory \in Memories
    BY MemoryIs DEF CoreInv, Tidy
  <1>2. s \in DOMAIN slots /\ c # Null /\ Become(m) /\ given' = given \cup {c}
    BY <1>1 DEF TakeValue, HasValue
  <1>3. Pointed(m, Memory, s, Null)
    BY <1>1, <1>2, PointIs
  <1> HIDE DEF m, c
  <1>4. /\ m \in Memories /\ m.heap = heap /\ DOMAIN m.slots = DOMAIN slots /\ m.slots[s] = Null
        /\ \A t \in DOMAIN slots : t # s => m.slots[t] = slots[t]
    BY <1>1, <1>3 DEF Pointed
  <1>5. Tidy(m, given \cup {c})
    <2>1. /\ given \subseteq DOMAIN heap
          /\ \A t \in DOMAIN slots : slots[t] # Null => slots[t] \in DOMAIN heap \ given
          /\ \A t, u \in DOMAIN slots : t # u /\ slots[t] # Null => slots[t] # slots[u]
          /\ \A a \in DOMAIN heap \ given : \E t \in DOMAIN slots : slots[t] = a
      BY <1>1 DEF Tidy
    <2>2. given \cup {c} \subseteq DOMAIN heap
      BY <1>2, <2>1 DEF c
    <2>3. ASSUME NEW t \in DOMAIN m.slots, m.slots[t] # Null PROVE m.slots[t] \in DOMAIN heap \ (given \cup {c})
      BY <1>2, <1>4, <2>1, <2>3 DEF c
    <2>4. ASSUME NEW t \in DOMAIN m.slots, NEW u \in DOMAIN m.slots, t # u, m.slots[t] # Null
          PROVE  m.slots[t] # m.slots[u]
      BY <1>4, <2>1, <2>4
    <2>5. ASSUME NEW a \in DOMAIN heap \ (given \cup {c}) PROVE \E t \in DOMAIN m.slots : m.slots[t] = a
      <3>1. PICK t \in DOMAIN slots : slots[t] = a
        BY <2>1
      <3> QED
        BY <1>4, <3>1 DEF c
    <2> QED
      BY <1>4, <2>2, <2>3, <2>4, <2>5 DEF Tidy
  <1> QED
    BY <1>2, <1>4, <1>5, EmptiedKeeps

\* The destructor ends the objects of the Optionals it takes away, and no others.
LEMMA DestroyKeeps ==
    ASSUME CoreInv, NEW r \in Results \cup Voids, Destroy(r)
    PROVE  CoreInv'
  <1> DEFINE gone == Cells \cap {slots[s] : s \in OptionalsOf(r)}
             h == [c \in DOMAIN heap \ gone |-> heap[c]]
             f == [s \in DOMAIN slots \ OptionalsOf(r) |-> slots[s]]
             m == [heap |-> h, slots |-> f]
  <1>1. /\ Memory \in Memories /\ Memory.slots = slots /\ Memory.heap = heap
        /\ Whole(slots) /\ NotBoth(slots)
    BY MemoryIs DEF CoreInv, Tidy
  <1>2. /\ given \subseteq DOMAIN heap
        /\ \A t \in DOMAIN slots : slots[t] # Null => slots[t] \in DOMAIN heap \ given
        /\ \A t, u \in DOMAIN slots : t # u /\ slots[t] # Null => slots[t] # slots[u]
        /\ \A a \in DOMAIN heap \ given : \E t \in DOMAIN slots : slots[t] = a
    BY MemoryIs DEF CoreInv, Tidy
  <1>3. heap \in Heaps /\ slots \in SlotMaps /\ DOMAIN heap \subseteq Cells
    BY <1>1, MemoryParts
  <1>4. given' = given /\ Become(m) /\ OptionalsOf(r) \subseteq DOMAIN slots
    BY DEF Destroy, Become, Exists, Restrict
  <1>5. h \in Heaps /\ DOMAIN h = DOMAIN heap \ gone
    BY <1>3, HeapsAre
  <1>6. /\ f \in SlotMaps /\ DOMAIN f = DOMAIN slots \ OptionalsOf(r)
        /\ \A s \in DOMAIN f : f[s] = slots[s]
    BY <1>3, SlotMapsAre
  <1>7. \A c : c \in gone <=> c \in Cells /\ \E s \in OptionalsOf(r) : c = slots[s]
    OBVIOUS
  <1> HIDE DEF h, f, gone
  <1>8. m \in Memories /\ m.heap = h /\ m.slots = f
    BY <1>5, <1>6 DEF Memories
  <1> HIDE DEF m
  <1>9. Tidy(m, given)
    <2>1. ASSUME NEW c \in given PROVE c \notin gone
      BY <1>2, <1>3, <1>4, <1>7, NullAssumption
    <2>2. given \subseteq DOMAIN h
      BY <1>2, <1>5, <2>1
    <2>3. ASSUME NEW t \in DOMAIN f, f[t] # Null PROVE f[t] \in DOMAIN h \ given
      <3>1. slots[t] \in DOMAIN heap \ given
        BY <1>2, <1>6, <2>3
      <3>2. slots[t] \notin gone
        BY <1>2, <1>4, <1>6, <1>7, <2>3
      <3> QED
        BY <1>5, <1>6, <3>1, <3>2
    <2>4. ASSUME NEW t \in DOMAIN f, NEW u \in DOMAIN f, t # u, f[t] # Null PROVE f[t] # f[u]
      BY <1>2, <1>6, <2>4
    <2>5. ASSUME NEW a \in DOMAIN h \ given PROVE \E t \in DOMAIN f : f[t] = a
      <3>1. PICK t \in DOMAIN slots : slots[t] = a
        BY <1>2, <1>5
      <3>2. t \notin OptionalsOf(r)
        BY <1>3, <1>5, <1>7, <3>1
      <3> QED
        BY <1>6, <3>1, <3>2
    <2> QED
      BY <1>8, <2>2, <2>3, <2>4, <2>5 DEF Tidy
  <1>10. Whole(f)
    <2> SUFFICES ASSUME NEW q \in Results \cup Voids
                 PROVE  OptionalsOf(q) \subseteq DOMAIN f \/ OptionalsOf(q) \cap DOMAIN f = {}
      BY DEF Whole
    <2>1. CASE q = r
      BY <1>6, <2>1
    <2>2. CASE q # r
      BY <1>1, <1>6, <2>2, SlotNames DEF Whole
    <2> QED
      BY <2>1, <2>2
  <1>11. NotBoth(f)
    <2> SUFFICES ASSUME NEW p \in Results, OptionalsOf(p) \subseteq DOMAIN f
                 PROVE  f[V(p)] = Null \/ f[E(p)] = Null
      BY DEF NotBoth
    <2>1. V(p) \in DOMAIN f /\ E(p) \in DOMAIN f
      BY SlotNames
    <2>2. OptionalsOf(p) \subseteq DOMAIN slots
      BY <1>6
    <2> QED
      BY <1>1, <1>6, <2>1, <2>2 DEF NotBoth
  <1> QED
    BY <1>4, <1>8, <1>9, <1>10, <1>11, BecomeKeeps

\* The operations of a Result<void>: it has one Optional.
LEMMA VoidKeeps ==
    ASSUME CoreInv, NEW r \in Voids, NEW m, Become(m), given' = given, Tidy(m, given),
           DOMAIN m.slots = DOMAIN slots \/ DOMAIN m.slots = DOMAIN slots \cup OptionalsOf(r),
           NEW q \in Voids, \A s \in DOMAIN slots : s # E(r) /\ s # E(q) => m.slots[s] = slots[s]
    PROVE  CoreInv'
  <1>1. OneOf(m.slots, r) /\ OneOf(m.slots, q)
    BY VariablesAssumption DEF OneOf
  <1>2. Changed(slots, m.slots, r, q)
    BY <1>1 DEF Changed
  <1> QED
    BY <1>2, ChangeKeeps

LEMMA VoidCopyAssignKeeps ==
    ASSUME CoreInv, NEW r \in Voids, NEW q \in Voids, VoidCopyAssign(r, q)
    PROVE  CoreInv'
  <1> DEFINE c == CopyOptional(Memory, E(r), E(q))
             n == Reset(Memory, E(r))
             m == IF HasValue(Memory, E(q)) THEN c ELSE n
  <1>1. Tidy(Memory, given) /\ Memory.slots = slots /\ Memory.heap = heap
    BY MemoryIs DEF CoreInv
  <1>2. /\ E(r) \in DOMAIN slots /\ E(q) \in DOMAIN slots /\ Cells \ DOMAIN heap # {}
        /\ Become(m) /\ given' = given
    BY SlotNames DEF VoidCopyAssign, Exists, Room
  <1>3. /\ Tidy(c, given) /\ DOMAIN c.slots = DOMAIN slots
        /\ \A s \in DOMAIN slots : s # E(r) => c.slots[s] = slots[s]
    BY <1>1, <1>2, CopyTidy
  <1>4. /\ Tidy(n, given) /\ DOMAIN n.slots = DOMAIN slots
        /\ \A s \in DOMAIN slots : s # E(r) => n.slots[s] = slots[s]
    BY <1>1, <1>2, ResetTidy
  <1>5. m = c \/ m = n
    OBVIOUS
  <1> HIDE DEF c, n, m
  <1> QED
    BY <1>2, <1>3, <1>4, <1>5, VoidKeeps

LEMMA VoidEmplaceErrorKeeps ==
    ASSUME CoreInv, NEW r \in Voids, NEW x \in Contents, VoidEmplaceError(r, x)
    PROVE  CoreInv'
  <1> DEFINE s == E(r)
             a == Reset(Memory, s)
             m == New(a, s, x)
  <1>1. Tidy(Memory, given) /\ Memory.slots = slots /\ Memory.heap = heap
    BY MemoryIs DEF CoreInv
  <1>2. s \in DOMAIN slots /\ Cells \ DOMAIN heap # {} /\ Become(m) /\ given' = given
    BY SlotNames DEF VoidEmplaceError, Emplace, Exists, Room
  <1> HIDE DEF s
  <1>3. /\ Tidy(a, given) /\ DOMAIN a.slots = DOMAIN slots /\ a.slots[s] = Null
        /\ DOMAIN a.heap \subseteq DOMAIN heap
        /\ \A v \in DOMAIN slots : v # s => a.slots[v] = slots[v]
    BY <1>1, <1>2, ResetTidy
  <1> HIDE DEF a
  <1>4. Cells \ DOMAIN a.heap # {}
    BY <1>2, <1>3
  <1>5. /\ Tidy(m, given) /\ DOMAIN m.slots = DOMAIN a.slots
        /\ \A v \in DOMAIN a.slots : v # s => m.slots[v] = a.slots[v]
    BY <1>2, <1>3, <1>4, NewTidy
  <1> HIDE DEF m
  <1> QED
    BY <1>2, <1>3, <1>5, VoidKeeps DEF s

LEMMA VoidSwapKeeps ==
    ASSUME CoreInv, NEW r \in Voids, NEW q \in Voids, VoidSwap(r, q)
    PROVE  CoreInv'
  <1>1. Tidy(Memory, given) /\ Memory.slots = slots
    BY MemoryIs DEF CoreInv
  <1>2. E(r) \in DOMAIN slots /\ E(q) \in DOMAIN slots /\ given' = given
    BY SlotNames DEF VoidSwap, Exists
  <1>3. ASSUME NEW m, Become(m), Tidy(m, given), DOMAIN m.slots = DOMAIN slots,
               \A s \in DOMAIN slots : s # E(r) /\ s # E(q) => m.slots[s] = slots[s]
        PROVE  CoreInv'
    BY <1>2, <1>3, VoidKeeps
  <1>4. CASE slots[E(r)] # Null /\ slots[E(q)] # Null
    <2> DEFINE m == SwapOptional(Memory, E(r), E(q))
    <2>1. Become(m)
      BY <1>1, <1>4 DEF VoidSwap, HasValue
    <2>2. /\ Tidy(m, given) /\ DOMAIN m.slots = DOMAIN slots
          /\ \A s \in DOMAIN slots : s # E(r) /\ s # E(q) => m.slots[s] = slots[s]
      BY <1>1, <1>2, SwapTidy
    <2> QED
      BY <1>3, <2>1, <2>2
  <1>5. CASE slots[E(r)] # Null /\ slots[E(q)] = Null
    <2> DEFINE m == MoveOptional(Memory, E(q), E(r))
    <2>1. Become(m)
      BY <1>1, <1>5 DEF VoidSwap, HasValue
    <2>2. /\ Tidy(m, given) /\ DOMAIN m.slots = DOMAIN slots
          /\ \A s \in DOMAIN slots : s # E(r) /\ s # E(q) => m.slots[s] = slots[s]
      BY <1>1, <1>2, MoveTidy
    <2> QED
      BY <1>3, <2>1, <2>2
  <1>6. CASE slots[E(r)] = Null /\ slots[E(q)] # Null
    <2> DEFINE m == MoveOptional(Memory, E(r), E(q))
    <2>1. Become(m)
      BY <1>1, <1>6 DEF VoidSwap, HasValue
    <2>2. /\ Tidy(m, given) /\ DOMAIN m.slots = DOMAIN slots
          /\ \A s \in DOMAIN slots : s # E(r) /\ s # E(q) => m.slots[s] = slots[s]
      BY <1>1, <1>2, MoveTidy
    <2> QED
      BY <1>3, <2>1, <2>2
  <1>7. CASE slots[E(r)] = Null /\ slots[E(q)] = Null
    <2>1. Become(Memory)
      BY <1>1, <1>7 DEF VoidSwap, HasValue
    <2> QED
      BY <1>1, <1>3, <2>1
  <1> QED
    BY <1>4, <1>5, <1>6, <1>7

LEMMA CoreStarts == CoreInit => CoreInv
  <1> SUFFICES ASSUME CoreInit PROVE CoreInv
    OBVIOUS
  <1>1. heap = [c \in {} |-> 0] /\ slots = [s \in {} |-> Null] /\ given = {}
    BY DEF CoreInit
  <1>2. DOMAIN heap = {} /\ DOMAIN slots = {}
    BY <1>1
  <1>3. heap \in [{} -> Contents] /\ slots \in [{} -> Cells \cup {Null}]
    BY <1>1
  <1>4. heap \in Heaps /\ slots \in SlotMaps
    BY <1>2, <1>3, HeapsAre, SlotMapsAre
  <1>5. Memory \in Memories
    BY <1>4 DEF Memory, Memories
  <1>6. Tidy(Memory, given)
    BY <1>1, <1>2, <1>5, MemoryIs DEF Tidy
  <1>7. Whole(slots)
    BY <1>2 DEF Whole
  <1>8. ASSUME NEW r \in Results PROVE ~(OptionalsOf(r) \subseteq DOMAIN slots)
    BY <1>2, SlotNames
  <1>9. NotBoth(slots)
    BY <1>8 DEF NotBoth
  <1> QED
    BY <1>6, <1>7, <1>9 DEF CoreInv

LEMMA CoreSteps == CoreInv /\ [CoreNext]_coreVars => CoreInv'
  <1> SUFFICES ASSUME CoreInv, [CoreNext]_coreVars PROVE CoreInv'
    OBVIOUS
  <1>1. ASSUME NEW r \in Results, NEW k \in Kinds, NEW x \in Contents, FromContents(r, k, x)
        PROVE  CoreInv'
    <2>1. <<r, k>> \in OptionalsOf(r)
      BY DEF OptionalsOf
    <2> QED
      BY <1>1, <2>1, FromContentsKeeps
  <1>2. ASSUME NEW r \in Results, NEW k \in Kinds, NEW x \in Contents, EmplaceContents(r, k, x)
        PROVE  CoreInv'
    BY <1>2, EmplacedKeeps
  <1>3. ASSUME NEW r \in Results, NEW q \in Results, Exists(q)
        PROVE  V(q) \in DOMAIN slots /\ E(q) \in DOMAIN slots
    BY <1>3, SlotNames DEF Exists
  <1>4. ASSUME NEW r \in Results, NEW q \in Results, CopyConstruct(r, q) PROVE CoreInv'
    <2>1. /\ ~Exists(r) /\ Exists(q) /\ Room /\ given' = given
          /\ \/ Become(CopyOptional(Blank(r), V(r), V(q)))
             \/ Become(CopyOptional(Blank(r), E(r), E(q)))
      BY <1>4 DEF CopyConstruct
    <2>2. V(r) \in OptionalsOf(r) /\ E(r) \in OptionalsOf(r)
      BY SlotNames
    <2> QED
      BY <1>3, <2>1, <2>2, CopyMadeKeeps
  <1>5. ASSUME NEW r \in Results, NEW q \in Results, MoveConstruct(r, q) PROVE CoreInv'
    <2>1. /\ ~Exists(r) /\ Exists(q) /\ given' = given
          /\ \/ Become(MoveOptional(Blank(r), V(r), V(q)))
             \/ Become(MoveOptional(Blank(r), E(r), E(q)))
      BY <1>5 DEF MoveConstruct
    <2>2. V(r) \in OptionalsOf(r) /\ E(r) \in OptionalsOf(r) /\ V(q) \in OptionalsOf(q) /\ E(q) \in OptionalsOf(q)
      BY SlotNames
    <2> QED
      BY <2>1, <2>2, MoveMadeKeeps
  <1>6. ASSUME NEW r \in Results, NEW q \in Results, CopyAssign(r, q) PROVE CoreInv'
    <2>1. /\ Exists(r) /\ Exists(q) /\ Room /\ given' = given
          /\ \/ Become(Reset(CopyOptional(Memory, V(r), V(q)), E(r)))
             \/ Become(Reset(CopyOptional(Memory, E(r), E(q)), V(r)))
      BY <1>6 DEF CopyAssign
    <2> QED
      BY <1>3, <2>1, CopyAssignedKeeps
  <1>7. ASSUME NEW r \in Results, NEW q \in Results, MoveAssign(r, q) PROVE CoreInv'
    <2>1. /\ Exists(r) /\ Exists(q) /\ given' = given
          /\ \/ Become(Reset(MoveOptional(Memory, V(r), V(q)), E(r)))
             \/ Become(Reset(MoveOptional(Memory, E(r), E(q)), V(r)))
      BY <1>7 DEF MoveAssign
    <2> QED
      BY <2>1, MoveAssignedKeeps
  <1>8. ASSUME NEW r \in Results, NEW q \in Results, Swap(r, q) PROVE CoreInv'
    BY <1>8, SwapKeeps
  <1>9. ASSUME NEW s \in Slots, TakeValue(s) \/ TakeOptional(s) PROVE CoreInv'
    BY <1>9, TakeValueKeeps, TakeOptionalKeeps
  <1>10. ASSUME NEW r \in Results \cup Voids, Destroy(r) PROVE CoreInv'
    BY <1>10, DestroyKeeps
  <1>11. ASSUME NEW r \in Voids PROVE OptionalsOf(r) = {E(r)} /\ (Exists(r) => E(r) \in DOMAIN slots)
    BY SlotNames DEF Exists
  <1>12. ASSUME NEW r \in Voids, VoidFromValue(r) PROVE CoreInv'
    <2> DEFINE m == Blank(r)
    <2>1. ~Exists(r) /\ Become(m) /\ given' = given
      BY <1>12 DEF VoidFromValue
    <2>2. /\ Tidy(m, given) /\ DOMAIN m.slots = DOMAIN slots \cup OptionalsOf(r)
          /\ \A s \in DOMAIN slots : m.slots[s] = slots[s]
      BY <2>1, BlankTidy
    <2> HIDE DEF m
    <2> QED
      BY <2>1, <2>2, VoidKeeps
  <1>13. ASSUME NEW r \in Voids, NEW x \in Contents, FromContents(r, "mError", x) PROVE CoreInv'
    <2>1. <<r, "mError">> \in OptionalsOf(r)
      BY <1>11 DEF E
    <2> QED
      BY <1>13, <2>1, FromContentsKeeps
  <1>14. ASSUME NEW r \in Voids, NEW x \in Contents, VoidEmplaceError(r, x) PROVE CoreInv'
    BY <1>14, VoidEmplaceErrorKeeps
  <1>15. ASSUME NEW r \in Voids, NEW q \in Voids, VoidCopyConstruct(r, q) PROVE CoreInv'
    BY <1>11, <1>15, CopyMadeKeeps DEF VoidCopyConstruct
  <1>16. ASSUME NEW r \in Voids, NEW q \in Voids, VoidMoveConstruct(r, q) PROVE CoreInv'
    BY <1>11, <1>16, MoveMadeKeeps DEF VoidMoveConstruct
  <1>17. ASSUME NEW r \in Voids, NEW q \in Voids, VoidCopyAssign(r, q) PROVE CoreInv'
    BY <1>17, VoidCopyAssignKeeps
  <1>18. ASSUME NEW r \in Voids, NEW q \in Voids, VoidSwap(r, q) PROVE CoreInv'
    BY <1>18, VoidSwapKeeps
  <1>19. CASE UNCHANGED coreVars
    BY <1>19 DEF coreVars, CoreInv, Memory, Tidy, Whole, NotBoth
  <1>20. CASE CoreNext
    <2>1. CASE \E r \in Results, k \in Kinds, x \in Contents : FromContents(r, k, x) \/ EmplaceContents(r, k, x)
      BY <1>1, <1>2, <2>1
    <2>2. CASE \E r, q \in Results :
                 \/ CopyConstruct(r, q) \/ MoveConstruct(r, q) \/ CopyAssign(r, q) \/ MoveAssign(r, q)
                 \/ Swap(r, q)
      BY <1>4, <1>5, <1>6, <1>7, <1>8, <2>2
    <2>3. CASE \E r \in Voids, x \in Contents : FromContents(r, "mError", x) \/ VoidEmplaceError(r, x)
      BY <1>13, <1>14, <2>3
    <2>4. CASE \E r, q \in Voids :
                 \/ VoidCopyConstruct(r, q) \/ VoidMoveConstruct(r, q) \/ VoidCopyAssign(r, q)
                 \/ VoidSwap(r, q)
      BY <1>15, <1>16, <1>17, <1>18, <2>4
    <2> QED
      BY <1>9, <1>10, <1>12, <1>20, <2>1, <2>2, <2>3, <2>4 DEF CoreNext
  <1> QED
    BY <1>19, <1>20

\* One thing held.
One(k, x) == {<<k, x>>}

LEMMA HeldOnce ==
    \A a, b, x, y : /\ One(a, x) = One(b, y) <=> (a = b /\ x = y)
                    /\ One(a, x) # {}
  <1> TAKE a, b, x, y
  <1>1. {<<a, x>>} = {<<b, y>>} <=> <<a, x>> = <<b, y>>
    OBVIOUS
  <1>2. <<a, x>> = <<b, y>> <=> (a = b /\ x = y)
    OBVIOUS
  <1> QED
    BY <1>1, <1>2 DEF One

\* What a Result holds is what the one pointer that is not null points to.
LEMMA HeldIs ==
    ASSUME CoreInv, NEW r \in Results, Exists(r)
    PROVE  \/ /\ slots[V(r)] # Null /\ slots[E(r)] = Null /\ heap[slots[V(r)]] \in Contents
              /\ Held(r) = One("mValue", heap[slots[V(r)]])
           \/ /\ slots[V(r)] = Null /\ slots[E(r)] # Null /\ heap[slots[E(r)]] \in Contents
              /\ Held(r) = One("mError", heap[slots[E(r)]])
           \/ slots[V(r)] = Null /\ slots[E(r)] = Null /\ Held(r) = {}
  <1>1. V(r) \in DOMAIN slots /\ E(r) \in DOMAIN slots /\ OptionalsOf(r) = {V(r), E(r)}
    BY SlotNames DEF Exists
  <1>2. slots[V(r)] = Null \/ slots[E(r)] = Null
    BY DEF CoreInv, NotBoth, Exists
  <1>3. ASSUME NEW s \in DOMAIN slots, slots[s] # Null PROVE heap[slots[s]] \in Contents
    BY <1>3, MemoryIs, MemoryParts DEF CoreInv, Tidy
  <1>4. \A h \in Kinds \X Contents :
           h \in Held(r) <=> \/ h[1] = "mValue" /\ slots[V(r)] # Null /\ heap[slots[V(r)]] = h[2]
                             \/ h[1] = "mError" /\ slots[E(r)] # Null /\ heap[slots[E(r)]] = h[2]
    BY <1>1 DEF Held, Kinds, V, E
  <1>5. Held(r) \subseteq Kinds \X Contents
    BY DEF Held
  <1>6. CASE slots[V(r)] # Null
    <2>1. slots[E(r)] = Null /\ heap[slots[V(r)]] \in Contents
      BY <1>1, <1>2, <1>3, <1>6
    <2>2. ASSUME NEW h PROVE h \in Held(r) <=> h = <<"mValue", heap[slots[V(r)]]>>
      BY <1>4, <1>5, <1>6, <2>1 DEF Kinds
    <2> QED
      BY <1>6, <2>1, <2>2 DEF One
  <1>7. CASE slots[E(r)] # Null
    <2>1. slots[V(r)] = Null /\ heap[slots[E(r)]] \in Contents
      BY <1>1, <1>2, <1>3, <1>7
    <2>2. ASSUME NEW h PROVE h \in Held(r) <=> h = <<"mError", heap[slots[E(r)]]>>
      BY <1>4, <1>5, <1>7, <2>1 DEF Kinds
    <2> QED
      BY <1>7, <2>1, <2>2 DEF One
  <1>8. CASE slots[V(r)] = Null /\ slots[E(r)] = Null
    BY <1>4, <1>5, <1>8
  <1> QED
    BY <1>6, <1>7, <1>8

LEMMA VoidHeldIs ==
    ASSUME CoreInv, NEW r \in Voids, Exists(r)
    PROVE  \/ /\ slots[E(r)] # Null /\ heap[slots[E(r)]] \in Contents
              /\ Held(r) = One("mError", heap[slots[E(r)]])
           \/ slots[E(r)] = Null /\ Held(r) = {}
  <1>1. E(r) \in DOMAIN slots /\ OptionalsOf(r) = {E(r)}
    BY SlotNames DEF Exists
  <1>2. slots[E(r)] # Null => heap[slots[E(r)]] \in Contents
    BY <1>1, MemoryIs, MemoryParts DEF CoreInv, Tidy
  <1>3. \A h \in Kinds \X Contents :
           h \in Held(r) <=> h[1] = "mError" /\ slots[E(r)] # Null /\ heap[slots[E(r)]] = h[2]
    BY <1>1 DEF Held, Kinds, E
  <1>4. Held(r) \subseteq Kinds \X Contents
    BY DEF Held
  <1>5. CASE slots[E(r)] # Null
    <2>1. ASSUME NEW h PROVE h \in Held(r) <=> h = <<"mError", heap[slots[E(r)]]>>
      BY <1>2, <1>3, <1>4, <1>5 DEF Kinds
    <2> QED
      BY <1>2, <1>5, <2>1 DEF One
  <1>6. CASE slots[E(r)] = Null
    BY <1>3, <1>4, <1>6
  <1> QED
    BY <1>5, <1>6

LEMMA Reads ==
    ASSUME NEW s
    PROVE  /\ HasValue(Memory, s) <=> slots[s] # Null
           /\ slots[s] # Null => Value(s) = heap[slots[s]]
           /\ \A x : ValueOr(s, x) = IF slots[s] # Null THEN heap[slots[s]] ELSE x
  BY MemoryIs DEF HasValue, Value, ValueOr, ObjectAt

LEMMA ResultReadsAgree ==
    ASSUME CoreInv, NEW r \in Results, NEW q \in Results, Exists(r), Exists(q), Held(r) # {}, Held(q) # {}
    PROVE  /\ SameResult(r, q) <=> Held(r) = Held(q)
           /\ (SameOptional(V(r), V(q)) /\ SameOptional(E(r), E(q))) <=> Held(r) = Held(q)
           /\ \A x \in Contents :
                 /\ HoldsValue(r, x) <=> Held(r) = One("mValue", x)
                 /\ CheckError(r, x) <=> Held(r) = One("mError", x)
                 /\ ValueOr(V(r), x) = x <=> \A h \in Held(r) : h \in {<<"mValue", x>>} \cup {"mError"} \X Contents
           /\ \A f \in [Contents -> Contents], x \in Contents :
                 /\ Held(r) = One("mValue", x) => Resolve(r, f) = x /\ Bind(r, f) = [mValue |-> f[x]]
                 /\ Held(r) = One("mError", x) => Resolve(r, f) = f[x] /\ Bind(r, f) = [mError |-> x]
  <1> DEFINE vr == slots[V(r)]
             er == slots[E(r)]
             vq == slots[V(q)]
             eq == slots[E(q)]
  <1>1. \/ vr # Null /\ er = Null /\ heap[vr] \in Contents /\ Held(r) = One("mValue", heap[vr])
        \/ vr = Null /\ er # Null /\ heap[er] \in Contents /\ Held(r) = One("mError", heap[er])
    BY HeldIs
  <1>2. \/ vq # Null /\ eq = Null /\ heap[vq] \in Contents /\ Held(q) = One("mValue", heap[vq])
        \/ vq = Null /\ eq # Null /\ heap[eq] \in Contents /\ Held(q) = One("mError", heap[eq])
    BY HeldIs
  <1>3. /\ HasValue(Memory, V(r)) <=> vr # Null
        /\ HasValue(Memory, E(r)) <=> er # Null
        /\ HasValue(Memory, V(q)) <=> vq # Null
        /\ HasValue(Memory, E(q)) <=> eq # Null
    BY Reads
  <1>4. /\ vr # Null => Value(V(r)) = heap[vr]
        /\ er # Null => Value(E(r)) = heap[er]
        /\ vq # Null => Value(V(q)) = heap[vq]
        /\ eq # Null => Value(E(q)) = heap[eq]
    BY Reads
  <1>5. \A x : ValueOr(V(r), x) = IF vr # Null THEN heap[vr] ELSE x
    BY Reads
  <1> HIDE DEF vr, er, vq, eq
  <1>6. SameResult(r, q) <=> Held(r) = Held(q)
    BY <1>1, <1>2, <1>3, <1>4, HeldOnce DEF SameResult
  <1>7. (SameOptional(V(r), V(q)) /\ SameOptional(E(r), E(q))) <=> Held(r) = Held(q)
    <2>1. CASE vr # Null /\ vq # Null
      <3>1. /\ Held(r) = Held(q) <=> heap[vr] = heap[vq]
            /\ er = Null /\ eq = Null
        BY <1>1, <1>2, <2>1, HeldOnce
      <3>2. SameOptional(V(r), V(q)) <=> heap[vr] = heap[vq]
        BY <1>3, <1>4, <2>1 DEF SameOptional
      <3>3. SameOptional(E(r), E(q))
        BY <3>1, MemoryIs DEF SameOptional, HasValue, er, eq
      <3> QED
        BY <3>1, <3>2, <3>3
    <2>2. CASE vr = Null /\ vq = Null
      <3>1. /\ Held(r) = Held(q) <=> heap[er] = heap[eq]
            /\ er # Null /\ eq # Null
        BY <1>1, <1>2, <2>2, HeldOnce
      <3>2. SameOptional(E(r), E(q)) <=> heap[er] = heap[eq]
        BY <1>3, <1>4, <3>1 DEF SameOptional
      <3>3. SameOptional(V(r), V(q))
        BY <2>2, MemoryIs DEF SameOptional, HasValue, vr, vq
      <3> QED
        BY <3>1, <3>2, <3>3
    <2>3. CASE (vr = Null) # (vq = Null)
      <3>1. Held(r) # Held(q)
        BY <1>1, <1>2, <2>3, HeldOnce
      <3>2. ~SameOptional(V(r), V(q))
        BY <1>3, <2>3 DEF SameOptional
      <3> QED
        BY <3>1, <3>2
    <2> QED
      BY <2>1, <2>2, <2>3
  <1>8. ASSUME NEW x \in Contents
        PROVE  /\ HoldsValue(r, x) <=> Held(r) = One("mValue", x)
               /\ CheckError(r, x) <=> Held(r) = One("mError", x)
    BY <1>1, <1>3, <1>4, HeldOnce DEF HoldsValue, CheckError
  <1>9. ASSUME NEW x \in Contents
        PROVE  ValueOr(V(r), x) = x <=> \A h \in Held(r) : h \in {<<"mValue", x>>} \cup {"mError"} \X Contents
    BY <1>1, <1>5 DEF One
  <1>10. ASSUME NEW f \in [Contents -> Contents], NEW x \in Contents, Held(r) = One("mValue", x)
         PROVE  Resolve(r, f) = x /\ Bind(r, f) = [mValue |-> f[x]]
    <2>1. vr # Null /\ heap[vr] = x
      <3>1. ASSUME vr = Null PROVE FALSE
        <4>1. One("mError", heap[er]) = One("mValue", x)
          BY <1>1, <1>10, <3>1
        <4>2. "mError" = "mValue"
          BY <4>1, HeldOnce
        <4> QED
          BY <4>2
      <3>2. One("mValue", heap[vr]) = One("mValue", x)
        BY <1>1, <1>10, <3>1
      <3> QED
        BY <3>1, <3>2, HeldOnce
    <2> QED
      BY <1>3, <1>4, <2>1 DEF Resolve, Bind
  <1>11. ASSUME NEW f \in [Contents -> Contents], NEW x \in Contents, Held(r) = One("mError", x)
         PROVE  Resolve(r, f) = f[x] /\ Bind(r, f) = [mError |-> x]
    <2>1. vr = Null /\ er # Null /\ heap[er] = x
      <3>1. ASSUME vr # Null PROVE FALSE
        <4>1. One("mValue", heap[vr]) = One("mError", x)
          BY <1>1, <1>11, <3>1
        <4>2. "mValue" = "mError"
          BY <4>1, HeldOnce
        <4> QED
          BY <4>2
      <3>2. er # Null /\ One("mError", heap[er]) = One("mError", x)
        BY <1>1, <1>11, <3>1
      <3> QED
        BY <3>1, <3>2, HeldOnce
    <2> QED
      BY <1>3, <1>4, <2>1 DEF Resolve, Bind
  <1> QED
    BY <1>6, <1>7, <1>8, <1>9, <1>10, <1>11

LEMMA VoidReadsAgree ==
    ASSUME CoreInv, NEW r \in Voids, NEW q \in Voids, Exists(r), Exists(q)
    PROVE  /\ VoidSame(r, q) <=> Held(r) = Held(q)
           /\ \A x \in Contents :
                 /\ VoidCheckError(r, x) <=> Held(r) = One("mError", x)
                 /\ VoidBind(r, x) = IF Held(r) = {} THEN [mValue |-> x]
                                    ELSE [mError |-> CHOOSE y \in Contents : <<"mError", y>> \in Held(r)]
  <1> DEFINE er == slots[E(r)]
             eq == slots[E(q)]
  <1>1. \/ er # Null /\ heap[er] \in Contents /\ Held(r) = One("mError", heap[er])
        \/ er = Null /\ Held(r) = {}
    BY VoidHeldIs
  <1>2. \/ eq # Null /\ heap[eq] \in Contents /\ Held(q) = One("mError", heap[eq])
        \/ eq = Null /\ Held(q) = {}
    BY VoidHeldIs
  <1>3. /\ HasValue(Memory, E(r)) <=> er # Null
        /\ HasValue(Memory, E(q)) <=> eq # Null
        /\ er # Null => Value(E(r)) = heap[er]
        /\ eq # Null => Value(E(q)) = heap[eq]
    BY Reads
  <1> HIDE DEF er, eq
  <1>4. VoidSame(r, q) <=> Held(r) = Held(q)
    <2>1. CASE er # Null /\ eq # Null
      <3>1. Held(r) = Held(q) <=> heap[er] = heap[eq]
        BY <1>1, <1>2, <2>1, HeldOnce
      <3> QED
        BY <1>3, <2>1, <3>1 DEF VoidSame
    <2>2. CASE er = Null \/ eq = Null
      <3>1. Held(r) = Held(q) <=> (er = Null /\ eq = Null)
        BY <1>1, <1>2, <2>2, HeldOnce
      <3> QED
        BY <1>3, <2>2, <3>1 DEF VoidSame
    <2> QED
      BY <2>1, <2>2
  <1>5. ASSUME NEW x \in Contents PROVE VoidCheckError(r, x) <=> Held(r) = One("mError", x)
    <2>1. CASE er # Null
      <3>1. Held(r) = One("mError", x) <=> heap[er] = x
        BY <1>1, <2>1, HeldOnce
      <3> QED
        BY <1>3, <2>1, <3>1 DEF VoidCheckError
    <2>2. CASE er = Null
      <3>1. Held(r) # One("mError", x)
        BY <1>1, <2>2, HeldOnce
      <3> QED
        BY <1>3, <2>2, <3>1 DEF VoidCheckError
    <2> QED
      BY <2>1, <2>2
  <1>6. ASSUME NEW x \in Contents
        PROVE  VoidBind(r, x) = IF Held(r) = {} THEN [mValue |-> x]
                                ELSE [mError |-> CHOOSE y \in Contents : <<"mError", y>> \in Held(r)]
    <2>1. CASE er = Null
      BY <1>1, <1>3, <2>1 DEF VoidBind
    <2>2. CASE er # Null
      <3>1. Held(r) = One("mError", heap[er]) /\ heap[er] \in Contents
        BY <1>1, <2>2
      <3>2. (CHOOSE y \in Contents : <<"mError", y>> \in Held(r)) = heap[er]
        BY <3>1 DEF One
      <3>3. VoidBind(r, x) = [mError |-> heap[er]]
        BY <1>3, <2>2 DEF VoidBind
      <3>4. Held(r) # {}
        BY <3>1, HeldOnce
      <3> DEFINE y0 == CHOOSE y \in Contents : <<"mError", y>> \in Held(r)
      <3>5. y0 = heap[er]
        BY <3>2
      <3> HIDE DEF y0
      <3>6. VoidBind(r, x) = IF Held(r) = {} THEN [mValue |-> x] ELSE [mError |-> y0]
        BY <3>3, <3>4, <3>5
      <3> QED
        BY <3>6 DEF y0
    <2> QED
      BY <2>1, <2>2
  <1> QED
    BY <1>4, <1>5, <1>6

LEMMA CoreInvSuffices == CoreInv => CoreTypeOK /\ ResultsAreSound
  <1> SUFFICES ASSUME CoreInv PROVE CoreTypeOK /\ ResultsAreSound
    OBVIOUS
  <1>1. CoreTypeOK
    BY MemoryIs, MemoryParts DEF CoreInv, Tidy, CoreTypeOK
  <1>2. OneOwner
    BY MemoryIs DEF CoreInv, Tidy, NotBoth, Exists, OneOwner
  <1>3. ReadsAgree
    BY ResultReadsAgree, VoidReadsAgree DEF ReadsAgree, One
  <1> QED
    BY <1>1, <1>2, <1>3 DEF ResultsAreSound

\* The invariant holds of every state, and so do the types.
THEOREM CoreTypesHold == CoreSpec => []CoreTypeOK
  BY CoreStarts, CoreSteps, CoreInvSuffices, PTL DEF CoreSpec

\* Whatever a program does to its Results and in whatever order, also to one that
\* was moved from or is both sides of an assignment: no pointer of an Optional
\* dangles, no object is owned twice or lost, no Result holds a value and an
\* error, and every accessor agrees with what the Result holds.
THEOREM ResultsStaySound == CoreSpec => []ResultsAreSound
  BY CoreStarts, CoreSteps, CoreInvSuffices, PTL DEF CoreSpec

=============================================================================
