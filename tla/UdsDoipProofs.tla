--------------------------- MODULE UdsDoipProofs ---------------------------
(***************************************************************************)
(* Proofs about UdsServer, for every width of the counters, every          *)
(* meta-info, every size of the pool and every set of levels.  Security    *)
(* access and the transfer share no variable but the router's, so that     *)
(* each has an inductive invariant of its own.  And about DoipBridge, for  *)
(* every number of bridges and requests, every lifetime of the cache and   *)
(* all values that a vehicle may deliver.                                  *)
(***************************************************************************)
EXTENDS UdsServer, DoipBridge, FiniteSetTheorems, TLAPS

\* A counter of MaxByte + 1 values: what it holds after one more.
LEMMA NextCounter ==
    ASSUME NEW c \in 0 .. MaxByte
    PROVE  /\ (c + 1) % (MaxByte + 1) \in 0 .. MaxByte
           /\ c < MaxByte => (c + 1) % (MaxByte + 1) = c + 1
  BY WidthAssumption

-----------------------------------------------------------------------------
(* Security access *)

\* A threshold fits the counter.
LEMMA ThresholdFits ==
    ASSUME NEW m \in MetaInfos
    PROVE  Threshold(m) \in 0 .. MaxByte
  BY ServiceAssumption, WidthAssumption DEF Threshold

\* As long as every wrong key came with a threshold that the counter can exceed,
\* the counter of failed attempts is the number of wrong keys since the last
\* delay, whatever the thresholds were.  While the request waits for the timer
\* the counter is still what it was, and the new delay has begun.
CounterCounts ==
    /\ mFailedUnlockAttempt \in 0 .. MaxByte
    /\ wrong \in 0 .. MaxByte + 1 /\ loosest \in 0 .. MaxByte
    /\ loosest < MaxByte => wrong <= loosest
    /\ loosest < MaxByte /\ Ready => wrong = mFailedUnlockAttempt
    /\ spinning => wrong = 0

LEMMA InitCounter == Init => CounterCounts
  BY WidthAssumption DEF Init, CounterCounts, Ready

\* Only a wrong key and the timer's start move the counter.
FailedStep ==
    \E s \in SubFunctions, key \in 0 .. MaxSeed, m \in MetaInfos : handleFailedAttempt(s, key, m)

LEMMA OthersKeepCounter ==
    ASSUME [Next]_vars, ~FailedStep, ~TimerStarted
    PROVE  /\ UNCHANGED <<mFailedUnlockAttempt, wrong, loosest, spinning>>
           /\ Ready' => Ready
  <1> USE DEF Ready
  <1>1. CASE UNCHANGED vars
    BY <1>1 DEF vars, securityVars, timerVars
  <1>2. CASE \E s \in Managed : Offer(s) \/ StopOffer(s) \/ AddService(s) \/ RemoveService(s)
    BY <1>2 DEF Offer, StopOffer, AddService, RemoveService, securityVars, timerVars
  <1>3. CASE RouteNowhere \/ hasProblem \/ delay
             \/ \E s \in Services \ {"TransferExit"} : TooShort(s)
    BY <1>3 DEF RouteNowhere, hasProblem, delay, TooShort, Route, securityVars, timerVars
  <1>4. CASE \/ \E s \in SubFunctions : handleRequestSeed(s) \/ SendKeyFirst(s)
             \/ \E s \in SubFunctions, m \in MetaInfos : handlePassedAttempt(s, m)
    BY <1>4 DEF handleRequestSeed, SendKeyFirst, handlePassedAttempt, Route, securityVars, timerVars
  <1>5. CASE \E s \in {"Download", "Upload"} :
                \/ TransferOutOfRange(s)
                \/ \E a, n \in 0 .. PoolSize, m \in MetaInfos : RequestDataTransfer(s, a, n, m)
    BY <1>5 DEF TransferOutOfRange, RequestDataTransfer, Route, securityVars, timerVars
  <1>6. CASE \/ \E c \in 0 .. MaxByte : tryTransfer(c) \/ tryTransferFails(c)
             \/ TryResetTransferConfiguration \/ TransferExitFails
    BY <1>6 DEF tryTransfer, tryTransferFails, TryResetTransferConfiguration,
                TransferExitFails, Route, securityVars, timerVars
  <1>7. CASE \/ \E t \in ResetTypes : RequestReset(t)
             \/ \E b \in BOOLEAN, m \in MetaInfos : EnableRapidShutdown(b, m)
             \/ OtherSubFunction \/ RoutineControl
    BY <1>7 DEF RequestReset, EnableRapidShutdown, OtherSubFunction, RoutineControl, Route,
                securityVars, timerVars
  <1>8. CASE terminated /\ UNCHANGED vars
    BY <1>8 DEF vars, securityVars, timerVars
  <1> QED
    BY <1>1, <1>2, <1>3, <1>4, <1>5, <1>6, <1>7, <1>8 DEF Next, FailedStep

LEMMA NextCounterCounts == CounterCounts /\ [Next]_vars => CounterCounts'
  <1> SUFFICES ASSUME CounterCounts, [Next]_vars PROVE CounterCounts'
    OBVIOUS
  <1>1. CASE FailedStep
    <2>1. PICK s \in SubFunctions, key \in 0 .. MaxSeed, m \in MetaInfos :
              handleFailedAttempt(s, key, m)
      BY <1>1 DEF FailedStep
    <2> DEFINE failed == (mFailedUnlockAttempt + 1) % (MaxByte + 1)
               t == Threshold(m)
    <2>2. /\ failed \in 0 .. MaxByte
          /\ mFailedUnlockAttempt < MaxByte => failed = mFailedUnlockAttempt + 1
      BY NextCounter DEF CounterCounts
    <2>3. t \in 0 .. MaxByte
      BY ThresholdFits
    <2>4. Ready
      BY <2>1 DEF handleFailedAttempt, Route
    <2>5. \/ mFailedUnlockAttempt' = failed /\ HasThreshold(m)
          \/ mFailedUnlockAttempt' = mFailedUnlockAttempt /\ ~HasThreshold(m)
      BY <2>1 DEF handleFailedAttempt
    <2>6. CASE wrong' = 0 /\ loosest' = 0 /\ StartTimer
      <3>1. ~Ready'
        BY <2>6 DEF StartTimer, Ready
      <3> HIDE DEF failed, t
      <3> QED
        BY <2>2, <2>5, <2>6, <3>1, WidthAssumption DEF CounterCounts
    <2>7. CASE Refused(m) /\ ~(HasThreshold(m) /\ mFailedUnlockAttempt' > t)
               /\ UNCHANGED spinning
      <3>1. wrong' = IF wrong > MaxByte THEN wrong ELSE wrong + 1
        BY <2>7 DEF Refused
      <3>2. \/ HasThreshold(m) /\ loosest' = IF t > loosest THEN t ELSE loosest
            \/ ~HasThreshold(m) /\ loosest' = IF MaxByte > loosest THEN MaxByte ELSE loosest
        BY <2>7 DEF Refused
      <3>3. ~spinning'
        BY <2>4, <2>7 DEF Ready
      <3> HIDE DEF failed, t
      <3> QED
        BY <2>2, <2>3, <2>4, <2>5, <2>7, <3>1, <3>2, <3>3, WidthAssumption DEF CounterCounts
    <2> QED
      BY <2>1, <2>6, <2>7 DEF handleFailedAttempt, timerVars
  <1>2. CASE TimerStarted
    BY <1>2, WidthAssumption DEF TimerStarted, CounterCounts, Ready
  <1>3. CASE ~FailedStep /\ ~TimerStarted
    BY <1>3, OthersKeepCounter DEF CounterCounts
  <1> QED
    BY <1>1, <1>2, <1>3

\* Between two delays of DelayTimer, SecurityAccess refuses no more wrong keys
\* than the loosest threshold of their meta-infos, whatever each request comes
\* with, for every width of the counter; unless one of them sets no limit that
\* the counter could exceed.
THEOREM GuessesAreLimited == Spec => []FailuresAreLimited
  <1>1. CounterCounts => FailuresAreLimited
    BY DEF CounterCounts, FailuresAreLimited
  <1> QED
    BY <1>1, InitCounter, NextCounterCounts, PTL DEF Spec

-----------------------------------------------------------------------------
(* The transfer *)

\* The counters that are accepted follow the last block of the open transfer;
\* a closed one has left nothing behind.
CountersFollowBlocks ==
    /\ mCurrentBlockSequenceCounter \in 0 .. MaxByte
    /\ moved \in 0 .. MaxByte \cup {NoBlock}
    /\ mTransferDirection = None \/ moved = NoBlock =>
           mCurrentBlockSequenceCounter = 1 /\ mNextBlockSequenceCounter = 1
    /\ mTransferDirection # None /\ moved # NoBlock =>
           /\ mCurrentBlockSequenceCounter = moved
           /\ mNextBlockSequenceCounter = (moved + 1) % (MaxByte + 1)

LEMMA InitTransfer == Init => CountersFollowBlocks
  BY WidthAssumption DEF Init, CountersFollowBlocks, NoBlock

\* Opening, moving a block and closing are the steps that change the transfer.
Opens ==
    \E s \in {"Download", "Upload"}, a, n \in 0 .. PoolSize :
        /\ TrySetTransferConfiguration(s, a, n)
        /\ UNCHANGED <<mCurrentBlockSequenceCounter, mNextBlockSequenceCounter>>
Moves == \E c \in 0 .. MaxByte : tryTransfer(c)
Closes == TryResetTransferConfiguration

LEMMA TransferSteps == [Next]_vars => Opens \/ Moves \/ Closes \/ UNCHANGED transferVars
  <1> SUFFICES ASSUME [Next]_vars PROVE Opens \/ Moves \/ Closes \/ UNCHANGED transferVars
    OBVIOUS
  <1>1. CASE UNCHANGED vars
    BY <1>1 DEF vars
  <1>2. CASE \E s \in Managed : Offer(s) \/ StopOffer(s) \/ AddService(s) \/ RemoveService(s)
    BY <1>2 DEF Offer, StopOffer, AddService, RemoveService
  <1>3. CASE RouteNowhere \/ hasProblem \/ delay \/ TimerStarted
             \/ \E s \in Services \ {"TransferExit"} : TooShort(s)
    BY <1>3 DEF RouteNowhere, hasProblem, delay, TimerStarted, TooShort
  <1>4. CASE \/ \E s \in SubFunctions : handleRequestSeed(s) \/ SendKeyFirst(s)
             \/ \E s \in SubFunctions, m \in MetaInfos :
                   \/ handlePassedAttempt(s, m)
                   \/ \E key \in 0 .. MaxSeed : handleFailedAttempt(s, key, m)
    BY <1>4 DEF handleRequestSeed, SendKeyFirst, handlePassedAttempt, handleFailedAttempt
  <1>5. CASE \E s \in {"Download", "Upload"} :
                \/ TransferOutOfRange(s)
                \/ \E a, n \in 0 .. PoolSize, m \in MetaInfos : RequestDataTransfer(s, a, n, m)
    BY <1>5 DEF TransferOutOfRange, RequestDataTransfer, Opens, transferVars
  <1>6. CASE \/ \E c \in 0 .. MaxByte : tryTransfer(c) \/ tryTransferFails(c)
             \/ TryResetTransferConfiguration \/ TransferExitFails
    BY <1>6 DEF tryTransferFails, TransferExitFails, Moves, Closes
  <1>7. CASE \/ \E t \in ResetTypes : RequestReset(t)
             \/ \E b \in BOOLEAN, m \in MetaInfos : EnableRapidShutdown(b, m)
             \/ OtherSubFunction \/ RoutineControl
    BY <1>7 DEF RequestReset, EnableRapidShutdown, OtherSubFunction, RoutineControl
  <1>8. CASE terminated /\ UNCHANGED vars
    BY <1>8 DEF vars
  <1> QED
    BY <1>1, <1>2, <1>3, <1>4, <1>5, <1>6, <1>7, <1>8 DEF Next

LEMMA NextTransfer == CountersFollowBlocks /\ [Next]_vars => CountersFollowBlocks'
  <1> SUFFICES ASSUME CountersFollowBlocks, [Next]_vars PROVE CountersFollowBlocks'
    OBVIOUS
  <1>1. CASE Opens
    <2>1. PICK s \in {"Download", "Upload"}, a \in 0 .. PoolSize, n \in 0 .. PoolSize :
              /\ TrySetTransferConfiguration(s, a, n)
              /\ UNCHANGED <<mCurrentBlockSequenceCounter, mNextBlockSequenceCounter>>
      BY <1>1 DEF Opens
    <2> QED
      BY <2>1, WidthAssumption DEF TrySetTransferConfiguration, CountersFollowBlocks, NoBlock
  <1>2. CASE Moves
    <2>1. PICK c \in 0 .. MaxByte : tryTransfer(c)
      BY <1>2 DEF Moves
    <2> QED
      BY <2>1, WidthAssumption DEF tryTransfer, CountersFollowBlocks, NoBlock
  <1>3. CASE Closes
    BY <1>3, WidthAssumption
    DEF Closes, TryResetTransferConfiguration, CountersFollowBlocks, NoBlock
  <1>4. CASE UNCHANGED transferVars
    BY <1>4 DEF transferVars, CountersFollowBlocks
  <1> QED
    BY <1>1, <1>2, <1>3, <1>4, TransferSteps

LEMMA TransferAlways == Spec => []CountersFollowBlocks
  BY InitTransfer, NextTransfer, PTL DEF Spec

\* TransferData accepts block one first and then, through the wrap of the
\* counter, the last block again or the one that follows it.
THEOREM BlocksFollow == Spec => BlocksInOrder
  <1> DEFINE Follows ==
        moved' # moved /\ moved' # NoBlock =>
            moved' = IF moved = NoBlock THEN 1 ELSE (moved + 1) % (MaxByte + 1)
  <1>1. CountersFollowBlocks /\ [Next]_vars => [Follows]_vars
    <2> SUFFICES ASSUME CountersFollowBlocks, [Next]_vars PROVE Follows
      OBVIOUS
    <2>1. CASE Opens
      BY <2>1 DEF Opens, TrySetTransferConfiguration
    <2>2. CASE Moves
      BY <2>2 DEF Moves, tryTransfer, tryValidateSequenceCounter, CountersFollowBlocks
    <2>3. CASE Closes
      BY <2>3 DEF Closes, TryResetTransferConfiguration
    <2>4. CASE UNCHANGED transferVars
      BY <2>4 DEF transferVars
    <2> QED
      BY <2>1, <2>2, <2>3, <2>4, TransferSteps
  <1> QED
    BY <1>1, TransferAlways, PTL DEF Spec, BlocksInOrder

-----------------------------------------------------------------------------
(* DoipBridge *)

\* The encodings of the six pids are byte sequences from which the value is read.
LEMMA EncodeReads ==
    ASSUME NEW pid \in ForwardedPids, NEW v \in Samples[pid]
    PROVE  Encode(pid, v) \in Seq(Int) /\ Reads(pid, Encode(pid, v), v)
  <1>1. CASE pid = 13
    <2>1. v \in 0 .. 255
      BY <1>1, SpeedAssumption
    <2>2. Encode(pid, v) = <<v % 256>>
      BY <1>1 DEF Encode, getAverageSpeed
    <2>3. v % 256 = v
      BY <2>1
    <2>4. ASSUME NEW bytes PROVE Reads(pid, bytes, v) = (bytes[1] = v)
      BY <1>1 DEF Reads
    <2>5. <<v>>[1] = v /\ <<v>> \in Seq(Int)
      BY <2>1
    <2> QED
      BY <2>2, <2>3, <2>4, <2>5
  <1>2. CASE pid = 47
    <2>1. v \in 0 .. 100
      BY <1>2, FuelAssumption
    <2> DEFINE b == IF v = 100 THEN 254 ELSE (255 * v) \div 100
    <2>2. Encode(pid, v) = <<b>>
      BY <1>2 DEF Encode, getFuelAmount
    <2>3. b \in Int /\ 100 * b <= 255 * v /\ 255 * v < 100 * (b + 2)
      BY <2>1
    <2>4. ASSUME NEW bytes
          PROVE  Reads(pid, bytes, v) =
                    (100 * bytes[1] <= 255 * v /\ 255 * v < 100 * (bytes[1] + 2))
      BY <1>2 DEF Reads
    <2> HIDE DEF b
    <2>5. <<b>>[1] = b /\ <<b>> \in Seq(Int)
      BY <2>3
    <2> QED
      BY <2>2, <2>3, <2>4, <2>5
  <1>3. CASE pid \in {70, 5}
    <2>1. v \in Int /\ v + 40 \in 0 .. 255
      BY <1>3, SamplesAssumption, TemperatureAssumption
    <2>2. Encode(pid, v) = <<(v + 40) % 256>>
      BY <1>3 DEF Encode, getExternalTemperature, getEngineCoolantTemperature
    <2>3. (v + 40) % 256 = v + 40
      BY <2>1
    <2>4. ASSUME NEW bytes PROVE Reads(pid, bytes, v) = (bytes[1] - 40 = v)
      BY <1>3 DEF Reads
    <2> DEFINE b == v + 40
    <2>5. b \in Int /\ b - 40 = v
      BY <2>1
    <2> HIDE DEF b
    <2>6. <<b>>[1] = b /\ <<b>> \in Seq(Int)
      BY <2>5
    <2>7. Encode(pid, v) = <<b>>
      BY <2>2, <2>3 DEF b
    <2> QED
      BY <2>4, <2>5, <2>6, <2>7
  <1>4. CASE pid = 94
    <2>1. v \in Nat /\ v <= 32767
      BY <1>4, ConsumptionAssumption
    <2> DEFINE b1 == ((2 * v) \div 256) % 256
               b2 == (2 * v) % 256
    <2>2. Encode(pid, v) = <<b1, b2>>
      BY <1>4 DEF Encode, getAverageFuelConsumption
    <2>3. b1 \in Int /\ b2 \in Int /\ (256 * b1) + b2 = 2 * v
      BY <2>1
    <2>4. ASSUME NEW bytes PROVE Reads(pid, bytes, v) = (256 * bytes[1] + bytes[2] = 2 * v)
      BY <1>4 DEF Reads
    <2> HIDE DEF b1, b2
    <2>5. <<b1, b2>>[1] = b1 /\ <<b1, b2>>[2] = b2 /\ <<b1, b2>> \in Seq(Int)
      BY <2>3
    <2> QED
      BY <2>2, <2>3, <2>4, <2>5
  <1>5. CASE pid = 166
    <2>1. v \in Nat /\ v \div 16777216 < 256
      BY <1>5, OdometerAssumption
    <2> DEFINE b1 == (v \div 16777216) % 256
               b2 == (v \div 65536) % 256
               b3 == (v \div 256) % 256
               b4 == v % 256
    <2>2. Encode(pid, v) = <<b1, b2, b3, b4>>
      BY <1>5 DEF Encode, getOdometerValue
    <2>3. /\ b1 \in Int /\ b2 \in Int /\ b3 \in Int /\ b4 \in Int
          /\ ((b1 * 256 + b2) * 256 + b3) * 256 + b4 = v
      <3>1. /\ v = 256 * (v \div 256) + b4
            /\ v \div 256 \in Nat /\ b4 \in Int
        BY <2>1
      <3>2. /\ v \div 256 = 256 * (v \div 65536) + b3
            /\ v \div 65536 \in Nat /\ b3 \in Int
        BY <2>1
      <3>3. /\ v \div 65536 = 256 * (v \div 16777216) + b2
            /\ v \div 16777216 \in Nat /\ b2 \in Int
        BY <2>1
      <3>4. b1 = v \div 16777216
        BY <2>1, <3>3
      <3> HIDE DEF b1, b2, b3, b4
      <3>5. ASSUME NEW x \in Nat, NEW y \in Nat, v = 256 * x + b4, x = 256 * y + b3, y = 256 * b1 + b2
            PROVE  ((b1 * 256 + b2) * 256 + b3) * 256 + b4 = v
        BY <2>1, <3>1, <3>2, <3>3, <3>4, <3>5
      <3> QED
        BY <3>1, <3>2, <3>3, <3>4, <3>5
    <2>4. ASSUME NEW bytes
          PROVE  Reads(pid, bytes, v) =
                    (((bytes[1] * 256 + bytes[2]) * 256 + bytes[3]) * 256 + bytes[4] = v)
      BY <1>5 DEF Reads
    <2> HIDE DEF b1, b2, b3, b4
    <2> DEFINE bytes == <<b1, b2, b3, b4>>
    <2>5. /\ bytes[1] = b1 /\ bytes[2] = b2 /\ bytes[3] = b3 /\ bytes[4] = b4
          /\ bytes \in Seq(Int)
      BY <2>3
    <2> HIDE DEF bytes
    <2>6. ((bytes[1] * 256 + bytes[2]) * 256 + bytes[3]) * 256 + bytes[4] = v
      BY <2>3, <2>5, Zenon
    <2>7. Reads(pid, bytes, v)
      BY <2>4, <2>6, Zenon
    <2> QED
      BY <2>2, <2>5, <2>7 DEF bytes
  <1> QED
    BY <1>1, <1>2, <1>3, <1>4, <1>5 DEF ForwardedPids

-----------------------------------------------------------------------------
(* Types *)

\* What a handled request leaves behind, and what it answers with.
LEMMA HandleMessageTypes ==
    ASSUME ResourceTypeOK, NEW outcome \in tryGetResourceValue,
           CacheTryGet(mCache) \/ (outcome = "value" <=> reading # Nothing)
    PROVE  /\ HandleMessage(outcome).cache \in {Nothing} \cup CachedItems
           /\ HandleMessage(outcome).response \in {Nothing} \cup Responses
  <1>1. CASE CacheTryGet(mCache)
    BY <1>1 DEF HandleMessage, CacheTryGet, ResourceTypeOK, CachedItems, Responses
  <1>2. CASE ~CacheTryGet(mCache) /\ outcome = "value"
    <2> DEFINE answer == Answer(reading.bytes)
    <2>1. reading \in Replies
      BY <1>2 DEF ResourceTypeOK
    <2>2. answer \in Answers
      BY <2>1 DEF Replies, Answers, Answer
    <2>3. CacheAdd(Nothing, answer) \in CachedItems
      BY <2>2, LifetimeAssumption DEF CacheAdd, CachedItems
    <2>4. HandleMessage(outcome) = [response |-> answer, cache |-> CacheAdd(Nothing, answer)]
      BY <1>2 DEF HandleMessage
    <2> HIDE DEF answer
    <2> QED
      BY <2>2, <2>3, <2>4 DEF Responses
  <1>3. CASE ~CacheTryGet(mCache) /\ outcome # "value"
    <2>1. [is |-> "refusal"] \in Responses
      BY DEF Responses
    <2> QED
      BY <1>3, <2>1 DEF HandleMessage, tryGetResourceValue
  <1> QED
    BY <1>1, <1>2, <1>3

\* What the manager's thread and the timer's thread do keeps the manager's types.
LEMMA ManagerTypes ==
    ASSUME ManagerTypeOK, [DoipNext]_doipVars
    PROVE  ManagerTypeOK'
  <1> USE DEF ManagerTypeOK
  <1>1. CASE UNCHANGED managerVars
    BY <1>1 DEF managerVars
  <1>2. CASE MainStarts
    BY <1>2 DEF MainStarts, Configure
  <1>3. CASE checkServiceDiscovery
    <2>1. \E passing \in BOOLEAN :
             mDebouncer' \in {mDebouncer, [mDebouncer EXCEPT !.thread = "waiting"],
                              [mDebouncer EXCEPT !.passing = passing, !.thread = "waiting"]}
      BY <1>3 DEF checkServiceDiscovery
    <2>3. mDebouncer' \in Debouncers
      BY <2>1 DEF Debouncers
    <2> QED
      BY <1>3, <2>3 DEF checkServiceDiscovery
  <1>4. CASE MainReturns
    BY <1>4 DEF MainReturns
  <1>5. CASE DestroyBridge
    BY <1>5 DEF DestroyBridge
  <1>6. CASE DestroyMonitor
    BY <1>6 DEF DestroyMonitor, Debouncers
  <1>7. CASE SdClientStep
    BY <1>7 DEF SdClientStep
  <1>8. CASE TimerExpires
    BY <1>8 DEF TimerExpires, Debouncers
  <1>9. CASE EndpointFails
    BY <1>9 DEF EndpointFails
  <1>10. CASE ConnectFails
    BY <1>10 DEF ConnectFails
  <1>11. ASSUME NEW hardware \in BOOLEAN, ConnectBridge(hardware) PROVE ManagerTypeOK'
    BY <1>11 DEF ConnectBridge, Debouncers
  <1> QED
    BY <1>1, <1>2, <1>3, <1>4, <1>5, <1>6, <1>7, <1>8, <1>9, <1>10, <1>11
       DEF DoipNext, doipVars, Ask, ClientSends, ClientReceives, ClientRepeats, ClientHandles,
           AskService, ServerReceives, VehicleAborts, ServerSends, Tick, ResourceChanges

\* The parts of a bridge, and bridges of which some parts are replaced.
LEMMA BridgeParts ==
    ASSUME NEW r \in Bridges
    PROVE  /\ r.alive \in BOOLEAN /\ r.mLogicalAddress \in BOOLEAN
           /\ r.queue \in Seq(Requests) /\ r.up \in Seq(Requests) /\ r.down \in Seq(Responses)
  BY DEF Bridges
LEMMA BridgeForgotten ==
    ASSUME NEW r \in Bridges
    PROVE  [r EXCEPT !.alive = FALSE, !.queue = << >>, !.down = << >>] \in Bridges
  <1>1. << >> \in Seq(Requests) /\ << >> \in Seq(Responses) /\ FALSE \in BOOLEAN
    OBVIOUS
  <1>2. ASSUME NEW f \in BOOLEAN, NEW q \in Seq(Requests), NEW p \in Seq(Responses)
        PROVE  [r EXCEPT !.alive = f, !.queue = q, !.down = p] \in Bridges
    BY DEF Bridges
  <1> QED
    BY <1>1, <1>2, Zenon
LEMMA BridgeAsks ==
    ASSUME NEW r \in Bridges, NEW q \in Seq(Requests)
    PROVE  [r EXCEPT !.queue = q] \in Bridges
  BY DEF Bridges
LEMMA BridgeSends ==
    ASSUME NEW r \in Bridges, NEW q \in Seq(Requests)
    PROVE  [r EXCEPT !.queue = << >>, !.up = q] \in Bridges
  <1>1. << >> \in Seq(Requests)
    OBVIOUS
  <1> QED
    BY <1>1 DEF Bridges
LEMMA BridgeIsHeard ==
    ASSUME NEW r \in Bridges, NEW q \in Seq(Requests)
    PROVE  [r EXCEPT !.up = q] \in Bridges
  BY DEF Bridges
LEMMA BridgeReceives ==
    ASSUME NEW r \in Bridges, NEW p \in Seq(Responses), NEW b \in BOOLEAN
    PROVE  [r EXCEPT !.down = p, !.mLogicalAddress = b] \in Bridges
  BY DEF Bridges
LEMMA BridgeKnows ==
    ASSUME NEW r \in Bridges, NEW b \in BOOLEAN
    PROVE  [r EXCEPT !.mLogicalAddress = b] \in Bridges
  BY DEF Bridges
LEMMA BridgeIsTold ==
    ASSUME NEW r \in Bridges, NEW p \in Seq(Responses)
    PROVE  [r EXCEPT !.down = p] \in Bridges
  BY DEF Bridges

\* Every step on bridges, connection and queues keeps their types.
LEMMA BridgesTypes ==
    ASSUME BridgesTypeOK, ResourceTypeOK, [DoipNext]_doipVars
    PROVE  BridgesTypeOK'
  <1>1. CASE UNCHANGED <<bridgeVars, connection, serverBuffer, mSendQueue>>
    BY <1>1 DEF BridgesTypeOK, bridgeVars
  <1>2. ASSUME NEW b \in DOMAIN bridges, NEW new \in Bridges,
               bridges' = [bridges EXCEPT ![b] = new], mSendQueue' \in Seq(Responses),
               clientBuffer' \in {Nothing} \cup Responses, serverBuffer' \in {Nothing} \cup Requests,
               UNCHANGED <<mObdToDoipConverter, connection>>
        PROVE  BridgesTypeOK'
    BY <1>2 DEF BridgesTypeOK
  <1>3. \A b \in DOMAIN bridges : bridges[b] \in Bridges
    BY DEF BridgesTypeOK
  <1>4. CASE DestroyBridge
    <2>1. CASE mObdToDoipConverter = NoBridge
      BY <1>4, <2>1 DEF DestroyBridge, BridgesTypeOK, serverVars
    <2>2. CASE mObdToDoipConverter # NoBridge
      <3>1. mObdToDoipConverter \in DOMAIN bridges
        BY <2>2 DEF BridgesTypeOK, NoBridge
      <3> DEFINE new == [bridges[mObdToDoipConverter] EXCEPT
                            !.alive = FALSE, !.queue = << >>, !.down = << >>]
      <3>2. new \in Bridges
        BY <1>3, <3>1, BridgeForgotten
      <3>3. bridges' = [bridges EXCEPT ![mObdToDoipConverter] = new]
        BY <1>4, <2>2 DEF DestroyBridge, Forget
      <3> QED
        BY <1>2, <1>4, <3>1, <3>2, <3>3 DEF DestroyBridge, serverVars, BridgesTypeOK
    <2> QED
      BY <2>1, <2>2
  <1>5. ASSUME NEW hardware \in BOOLEAN, ConnectBridge(hardware) PROVE BridgesTypeOK'
    <2>1. [is |-> "idRequest"] \in Requests
      BY DEF Requests
    <2>2. NewBridge(hardware) \in Bridges
      BY <2>1 DEF NewBridge, Bridges
    <2> QED
      BY <1>5, <2>2 DEF ConnectBridge, BridgesTypeOK, NoBridge
  <1>6. ASSUME NEW b \in DOMAIN bridges, Ask(b) PROVE BridgesTypeOK'
    <2> DEFINE new == [bridges[b] EXCEPT !.queue = Append(bridges[b].queue, [is |-> "ask"])]
    <2>1. [is |-> "ask"] \in Requests
      BY DEF Requests
    <2>2. Append(bridges[b].queue, [is |-> "ask"]) \in Seq(Requests)
      BY <1>3, <2>1, BridgeParts
    <2>3. new \in Bridges
      BY <1>3, <2>2, BridgeAsks
    <2>4. bridges' = [bridges EXCEPT ![b] = new]
      BY <1>6 DEF Ask
    <2> QED
      BY <1>2, <1>6, <2>3, <2>4 DEF Ask, serverVars, BridgesTypeOK
  <1>7. ASSUME NEW b \in DOMAIN bridges, ClientSends(b) PROVE BridgesTypeOK'
    <2> DEFINE new == [bridges[b] EXCEPT !.queue = << >>, !.up = bridges[b].up \o bridges[b].queue]
    <2>1. bridges[b].up \o bridges[b].queue \in Seq(Requests)
      BY <1>3, BridgeParts
    <2>2. new \in Bridges
      BY <1>3, <2>1, BridgeSends
    <2>3. bridges' = [bridges EXCEPT ![b] = new]
      BY <1>7 DEF ClientSends, BridgesTypeOK
    <2> QED
      BY <1>2, <1>7, <2>2, <2>3 DEF ClientSends, serverVars, BridgesTypeOK
  <1>8. ASSUME NEW b \in DOMAIN bridges, ClientReceives(b) PROVE BridgesTypeOK'
    <2> DEFINE known == bridges[b].mLogicalAddress \/ Head(bridges[b].down).is = "idResponse"
               new == [bridges[b] EXCEPT !.down = Tail(bridges[b].down), !.mLogicalAddress = known]
    <2>1. bridges[b].down \in Seq(Responses) /\ bridges[b].down # << >>
      BY <1>3, <1>8, BridgeParts DEF ClientReceives
    <2>2. Tail(bridges[b].down) \in Seq(Responses) /\ Head(bridges[b].down) \in Responses
      BY <2>1
    <2>3. known \in BOOLEAN
      BY <1>3, BridgeParts
    <2>4. new \in Bridges
      BY <1>3, <2>2, <2>3, BridgeReceives
    <2>5. bridges' = [bridges EXCEPT ![b] = new]
      BY <1>8 DEF ClientReceives, BridgesTypeOK
    <2>6. /\ clientBuffer' = Head(bridges[b].down)
          /\ UNCHANGED <<mObdToDoipConverter, connection, serverBuffer, mSendQueue>>
      BY <1>8 DEF ClientReceives, ClientHandles, serverVars
    <2> HIDE DEF new
    <2> QED
      BY <1>2, <2>2, <2>4, <2>5, <2>6 DEF BridgesTypeOK
  <1>9. ASSUME NEW b \in DOMAIN bridges, ClientRepeats(b) PROVE BridgesTypeOK'
    <2> DEFINE known == bridges[b].mLogicalAddress \/ clientBuffer.is = "idResponse"
               new == [bridges[b] EXCEPT !.mLogicalAddress = known]
    <2>1. known \in BOOLEAN
      BY <1>3, BridgeParts
    <2>2. new \in Bridges
      BY <1>3, <2>1, BridgeKnows
    <2>3. bridges' = [bridges EXCEPT ![b] = new]
      BY <1>9 DEF ClientRepeats, BridgesTypeOK
    <2>4. UNCHANGED <<clientBuffer, mObdToDoipConverter, connection, serverBuffer, mSendQueue>>
      BY <1>9 DEF ClientRepeats, ClientHandles, serverVars
    <2> HIDE DEF new
    <2> QED
      BY <1>2, <2>2, <2>3, <2>4 DEF BridgesTypeOK
  <1>10. ASSUME NEW outcome \in tryGetResourceValue, NEW packet \in Requests, NEW again \in BOOLEAN,
                ServerReceives(outcome, packet, again)
         PROVE  BridgesTypeOK'
    <2>1. connection \in DOMAIN bridges
      BY <1>10 DEF ServerReceives, Receives, BridgesTypeOK, NoBridge
    <2>2. mSendQueue' \in Seq(Responses)
      <3>1. [is |-> "idResponse"] \in Responses
        BY DEF Responses
      <3>2. mSendQueue \in Seq(Responses)
        BY DEF BridgesTypeOK
      <3>3. CASE HandleVehicleIdRequest
        BY <3>1, <3>2, <3>3 DEF HandleVehicleIdRequest
      <3>4. CASE HandleDiagMessage(outcome)
        <4>1. HandleMessage(outcome).response \in {Nothing} \cup Responses
          BY <3>4, HandleMessageTypes DEF HandleDiagMessage
        <4> QED
          BY <3>2, <3>4, <4>1 DEF HandleDiagMessage
      <3> QED
        BY <1>10, <3>3, <3>4 DEF ServerReceives
    <2>3. UNCHANGED <<mObdToDoipConverter, clientBuffer, connection>> /\ serverBuffer' = packet
      BY <1>10 DEF ServerReceives
    <2>4. CASE again
      BY <1>10, <2>2, <2>3, <2>4 DEF ServerReceives, BridgesTypeOK
    <2>5. CASE ~again
      <3> DEFINE new == [bridges[connection] EXCEPT !.up = Tail(bridges[connection].up)]
      <3>1. bridges[connection].up \in Seq(Requests) /\ bridges[connection].up # << >>
        BY <1>3, <1>10, <2>1, <2>5, BridgeParts DEF ServerReceives, Receives
      <3>2. Tail(bridges[connection].up) \in Seq(Requests)
        BY <3>1
      <3>3. new \in Bridges
        BY <1>3, <2>1, <3>2, BridgeIsHeard
      <3>4. bridges' = [bridges EXCEPT ![connection] = new]
        BY <1>10, <2>1, <2>5 DEF ServerReceives
      <3> HIDE DEF new
      <3> QED
        BY <1>2, <2>1, <2>2, <2>3, <3>3, <3>4 DEF BridgesTypeOK
    <2> QED
      BY <2>4, <2>5
  <1>11. CASE ServerSends
    <2>1. connection \in DOMAIN bridges
      BY <1>11 DEF ServerSends, BridgesTypeOK, NoBridge
    <2>2. CASE ~bridges[connection].alive
      BY <1>11, <2>2 DEF ServerSends, BridgesTypeOK
    <2>3. CASE bridges[connection].alive
      <3> DEFINE new == [bridges[connection] EXCEPT !.down = bridges[connection].down \o mSendQueue]
      <3>1. bridges[connection].down \o mSendQueue \in Seq(Responses)
        BY <1>3, <2>1, BridgeParts DEF BridgesTypeOK
      <3>2. new \in Bridges
        BY <1>3, <2>1, <3>1, BridgeIsTold
      <3>3. bridges' = [bridges EXCEPT ![connection] = new]
        BY <1>11, <2>3 DEF ServerSends
      <3>4. mSendQueue' \in Seq(Responses)
        BY <1>11 DEF ServerSends
      <3> QED
        BY <1>2, <1>11, <2>1, <3>2, <3>3, <3>4 DEF ServerSends, BridgesTypeOK
    <2> QED
      BY <2>2, <2>3
  <1>12. CASE \E packet \in Requests, again \in BOOLEAN : VehicleAborts(packet, again)
    BY <1>12 DEF VehicleAborts, BridgesTypeOK, bridgeVars
  <1> QED
    BY <1>1, <1>4, <1>5, <1>6, <1>7, <1>8, <1>9, <1>10, <1>11, <1>12
       DEF DoipNext, doipVars, serverVars, MainStarts, checkServiceDiscovery, MainReturns,
           DestroyMonitor, SdClientStep, TimerExpires, EndpointFails, ConnectFails, AskService, Tick,
           ResourceChanges

-----------------------------------------------------------------------------
(* AnswerIsRecent *)

\* What the web service has sent was true when it was asked; what is in the cache
\* was asked for not longer than the transit before it was put there; and the value
\* of now was held just now.
Since(bytes, age) == \E v \in Samples[asking] : heldAgo[v] <= age /\ Reads(asking, bytes, v)

RecentlyTrue ==
    /\ heldAgo[resource] = 0
    /\ reading # Nothing => Since(reading.bytes, reading.age)
    /\ mCache # Nothing => Since(mCache.item.bytes, mCache.age + MaxTransit)

RecentInv == ResourceTypeOK /\ RecentlyTrue

\* Ages are numbers.
LEMMA Ages ==
    ASSUME ResourceTypeOK
    PROVE  /\ cCacheLifetime \in Nat /\ MaxTransit \in Nat /\ 0 < cCacheLifetime
           /\ \A v \in Samples[asking] : heldAgo[v] \in 0 .. cCacheLifetime + MaxTransit
           /\ DOMAIN heldAgo = Samples[asking] /\ resource \in Samples[asking]
           /\ reading # Nothing => reading \in Replies /\ reading.age \in 0 .. MaxTransit
           /\ mCache # Nothing => /\ mCache \in CachedItems /\ mCache.age \in 0 .. cCacheLifetime
                                  /\ mCache.item \in Answers
  BY LifetimeAssumption DEF ResourceTypeOK, Replies, CachedItems

\* What was true not longer ago than one age was not longer ago than a higher one.
LEMMA SinceLonger ==
    ASSUME ResourceTypeOK, NEW bytes, NEW a \in Int, NEW b \in Int, a <= b, Since(bytes, a)
    PROVE  Since(bytes, b)
  <1>1. PICK v \in Samples[asking] : heldAgo[v] <= a /\ Reads(asking, bytes, v)
    BY DEF Since
  <1>2. heldAgo[v] \in Int
    BY Ages
  <1>3. heldAgo[v] <= b
    BY <1>1, <1>2
  <1> QED
    BY <1>1, <1>3 DEF Since

\* The cache after a request is as recent as it says, and so is an answer.
LEMMA HandledIsRecent ==
    ASSUME RecentInv, NEW outcome \in tryGetResourceValue,
           CacheTryGet(mCache) \/ (outcome = "value" <=> reading # Nothing)
    PROVE  /\ HandleMessage(outcome).cache # Nothing =>
                Since(HandleMessage(outcome).cache.item.bytes,
                      HandleMessage(outcome).cache.age + MaxTransit)
           /\ HandleMessage(outcome).response.is = "answer" =>
                \E v \in DOMAIN heldAgo :
                    /\ heldAgo[v] < cCacheLifetime + MaxTransit
                    /\ Reads(asking, HandleMessage(outcome).response.bytes, v)
  <1>0. ResourceTypeOK /\ RecentlyTrue
    BY DEF RecentInv
  <1>1. CASE CacheTryGet(mCache)
    <2>1. /\ HandleMessage(outcome) = [response |-> mCache.item, cache |-> mCache]
          /\ mCache # Nothing /\ mCache.age < cCacheLifetime
      BY <1>1 DEF HandleMessage, CacheTryGet
    <2>2. Since(mCache.item.bytes, mCache.age + MaxTransit)
      BY <1>0, <2>1 DEF RecentlyTrue
    <2>3. PICK v \in Samples[asking] :
             heldAgo[v] <= mCache.age + MaxTransit /\ Reads(asking, mCache.item.bytes, v)
      BY <2>2 DEF Since
    <2>4. heldAgo[v] < cCacheLifetime + MaxTransit /\ v \in DOMAIN heldAgo
      BY <1>0, <2>1, <2>3, Ages
    <2> QED
      BY <2>1, <2>2, <2>3, <2>4
  <1>2. CASE ~CacheTryGet(mCache) /\ outcome = "value"
    <2> DEFINE answer == Answer(reading.bytes)
    <2>1. HandleMessage(outcome) = [response |-> answer, cache |-> CacheAdd(Nothing, answer)]
      BY <1>2 DEF HandleMessage
    <2>2. CacheAdd(Nothing, answer) = [is |-> "item", item |-> answer, age |-> 0]
      BY DEF CacheAdd
    <2>3. reading # Nothing /\ answer.bytes = reading.bytes
      BY <1>2 DEF Answer
    <2>4. Since(reading.bytes, reading.age)
      BY <1>0, <2>3 DEF RecentlyTrue
    <2>5. reading.age \in Int /\ MaxTransit \in Int /\ reading.age <= MaxTransit /\ 0 + MaxTransit = MaxTransit
      BY <1>0, <2>3, Ages
    <2>6. Since(reading.bytes, MaxTransit)
      BY <1>0, <2>4, <2>5, SinceLonger
    <2>7. PICK v \in Samples[asking] : heldAgo[v] <= MaxTransit /\ Reads(asking, reading.bytes, v)
      BY <2>6 DEF Since
    <2>8. heldAgo[v] < cCacheLifetime + MaxTransit /\ v \in DOMAIN heldAgo
      BY <1>0, <2>7, Ages
    <2> HIDE DEF answer
    <2>9. /\ HandleMessage(outcome).cache.item.bytes = reading.bytes
          /\ HandleMessage(outcome).cache.age = 0
          /\ HandleMessage(outcome).response.bytes = reading.bytes
      BY <2>1, <2>2, <2>3
    <2> QED
      BY <2>5, <2>6, <2>7, <2>8, <2>9
  <1>3. CASE ~CacheTryGet(mCache) /\ outcome # "value"
    BY <1>3 DEF HandleMessage, tryGetResourceValue, Nothing
  <1> QED
    BY <1>1, <1>2, <1>3

\* A change of the resource and the time that goes by keep what was true.
LEMMA ChangeKeeps ==
    ASSUME RecentInv, NEW value \in Samples[asking], ResourceChanges(value)
    PROVE  RecentInv'
  <1>0. ResourceTypeOK /\ RecentlyTrue
    BY DEF RecentInv
  <1>1. /\ heldAgo' = [heldAgo EXCEPT ![value] = 0] /\ resource' = value
        /\ UNCHANGED <<asking, mCache, reading>>
    BY DEF ResourceChanges, serverVars
  <1>2. ResourceTypeOK'
    BY <1>0, <1>1, LifetimeAssumption DEF ResourceTypeOK
  <1>3. \A v \in Samples[asking] : heldAgo'[v] <= heldAgo[v]
    BY <1>0, <1>1 DEF ResourceTypeOK
  <1>4. heldAgo'[resource'] = 0
    BY <1>0, <1>1 DEF ResourceTypeOK
  <1>5. ASSUME NEW bytes, NEW age \in Int, Since(bytes, age)
        PROVE  \E v \in Samples[asking] : heldAgo'[v] <= age /\ Reads(asking, bytes, v)
    <2>1. PICK v \in Samples[asking] : heldAgo[v] <= age /\ Reads(asking, bytes, v)
      BY <1>5 DEF Since
    <2>2. heldAgo[v] \in Int /\ heldAgo'[v] \in Int
      BY <1>0, <1>1, Ages
    <2> QED
      BY <1>3, <2>1, <2>2
  <1>6. ASSUME reading # Nothing PROVE Since(reading.bytes, reading.age)'
    <2>1. reading.age \in Int
      BY <1>0, <1>6, Ages
    <2>2. Since(reading.bytes, reading.age)
      BY <1>0, <1>6 DEF RecentlyTrue
    <2> QED
      BY <1>1, <1>5, <2>1, <2>2 DEF Since
  <1>7. ASSUME mCache # Nothing PROVE Since(mCache.item.bytes, mCache.age + MaxTransit)'
    <2>1. mCache.age + MaxTransit \in Int
      BY <1>0, <1>7, Ages
    <2>2. Since(mCache.item.bytes, mCache.age + MaxTransit)
      BY <1>0, <1>7 DEF RecentlyTrue
    <2> QED
      BY <1>1, <1>5, <2>1, <2>2 DEF Since
  <1> QED
    BY <1>1, <1>2, <1>4, <1>6, <1>7 DEF RecentInv, RecentlyTrue

LEMMA TickKeeps ==
    ASSUME RecentInv, Tick
    PROVE  RecentInv'
  <1>0. ResourceTypeOK /\ RecentlyTrue
    BY DEF RecentInv
  <1> DEFINE limit == cCacheLifetime + MaxTransit
  <1>1. /\ UNCHANGED <<asking, resource>>
        /\ \A v \in Samples[asking] :
              heldAgo'[v] = IF v = resource THEN 0 ELSE Aged(heldAgo[v], limit)
        /\ DOMAIN heldAgo' = Samples[asking]
    BY <1>0 DEF Tick, ResourceTypeOK
  <1>2. heldAgo' \in [Samples[asking] -> 0 .. limit]
    <2>1. \A v \in Samples[asking] : heldAgo'[v] \in 0 .. limit
      BY <1>0, <1>1, Ages DEF Aged
    <2>2. heldAgo' = [v \in Samples[asking] |->
                          IF v = resource THEN 0 ELSE Aged(heldAgo[v], limit)]
      BY <1>0 DEF Tick, ResourceTypeOK
    <2> QED
      BY <1>1, <2>1, <2>2
  <1>3. ASSUME NEW bytes, NEW a \in Int, NEW b \in Int, Since(bytes, a), b = a + 1 \/ (b = a /\ a = limit)
        PROVE  \E v \in Samples[asking] : heldAgo'[v] <= b /\ Reads(asking, bytes, v)
    <2>1. PICK v \in Samples[asking] : heldAgo[v] <= a /\ Reads(asking, bytes, v)
      BY <1>3 DEF Since
    <2>2. heldAgo[v] \in 0 .. limit /\ heldAgo'[v] \in 0 .. limit /\ limit \in Nat
      BY <1>0, <1>2, Ages
    <2>3. heldAgo'[v] <= b
      BY <1>1, <1>3, <2>1, <2>2 DEF Aged
    <2> QED
      BY <2>1, <2>3
  <1>4. ASSUME reading # Nothing
        PROVE  reading' \in Replies /\ Since(reading.bytes, reading.age)'
    <2>1. reading \in Replies /\ reading.age \in 0 .. MaxTransit /\ reading.age < MaxTransit
      BY <1>0, <1>4, Ages DEF Tick
    <2>2. reading' = [reading EXCEPT !.age = reading.age + 1]
      BY <1>4 DEF Tick
    <2>3. reading'.age = reading.age + 1 /\ reading'.bytes = reading.bytes /\ reading.age + 1 \in Int
      BY <2>1, <2>2 DEF Replies
    <2>4. reading' \in Replies
      BY <1>0, <2>1, <2>2, Ages DEF Replies
    <2>5. Since(reading.bytes, reading.age)
      BY <1>0, <1>4 DEF RecentlyTrue
    <2>6. \E v \in Samples[asking] : heldAgo'[v] <= reading.age + 1 /\ Reads(asking, reading.bytes, v)
      BY <1>3, <2>1, <2>3, <2>5
    <2> QED
      BY <1>1, <2>3, <2>4, <2>6 DEF Since
  <1>5. ASSUME mCache # Nothing
        PROVE  mCache' \in CachedItems /\ Since(mCache.item.bytes, mCache.age + MaxTransit)'
    <2>1. mCache \in CachedItems /\ mCache.age \in 0 .. cCacheLifetime /\ mCache.item \in Answers
      BY <1>0, <1>5, Ages
    <2>2. mCache' = [mCache EXCEPT !.age = Aged(mCache.age, cCacheLifetime)]
      BY <1>5 DEF Tick
    <2>3. Aged(mCache.age, cCacheLifetime) \in 0 .. cCacheLifetime
      BY <1>0, <2>1, Ages DEF Aged
    <2>4. /\ mCache'.age = Aged(mCache.age, cCacheLifetime) /\ mCache'.item = mCache.item
          /\ mCache' \in CachedItems
      BY <2>1, <2>2, <2>3 DEF CachedItems
    <2>5. Since(mCache.item.bytes, mCache.age + MaxTransit)
      BY <1>0, <1>5 DEF RecentlyTrue
    <2> DEFINE a == mCache.age + MaxTransit
               b == Aged(mCache.age, cCacheLifetime) + MaxTransit
    <2>6. a \in Int /\ b \in Int /\ (b = a + 1 \/ (b = a /\ a = limit))
      BY <1>0, <2>1, <2>3, Ages DEF Aged
    <2> HIDE DEF a, b, limit
    <2>7. \E v \in Samples[asking] : heldAgo'[v] <= b /\ Reads(asking, mCache.item.bytes, v)
      BY <1>3, <2>5, <2>6 DEF a
    <2> QED
      BY <1>1, <2>4, <2>7 DEF Since, b
  <1>6. reading = Nothing => reading' = Nothing
    BY DEF Tick
  <1>7. mCache = Nothing => mCache' = Nothing
    BY DEF Tick
  <1>8. ResourceTypeOK'
    BY <1>0, <1>1, <1>2, <1>4, <1>5, <1>6, <1>7 DEF ResourceTypeOK
  <1>9. RecentlyTrue'
    <2>1. heldAgo'[resource'] = 0
      BY <1>0, <1>1, Ages
    <2> QED
      BY <1>4, <1>5, <1>6, <1>7, <2>1 DEF RecentlyTrue
  <1> QED
    BY <1>8, <1>9 DEF RecentInv

LEMMA RecentKept ==
    ASSUME RecentInv, [DoipNext]_doipVars
    PROVE  RecentInv'
  <1>1. CASE UNCHANGED <<mCache, reading, resourceVars>>
    BY <1>1 DEF RecentInv, ResourceTypeOK, RecentlyTrue, Since, resourceVars
  <1>2. ASSUME UNCHANGED resourceVars,
               mCache' = Nothing \/ (/\ mCache' \in CachedItems
                                     /\ Since(mCache'.item.bytes, mCache'.age + MaxTransit)),
               reading' = Nothing \/ (reading' \in Replies /\ Since(reading'.bytes, reading'.age))
        PROVE  RecentInv'
    <2>1. ResourceTypeOK'
      BY <1>2 DEF RecentInv, ResourceTypeOK, resourceVars
    <2>2. RecentlyTrue'
      BY <1>2 DEF RecentInv, RecentlyTrue, Since, resourceVars
    <2> QED
      BY <2>1, <2>2 DEF RecentInv
  <1>3. ASSUME NEW packet \in Requests, NEW again \in BOOLEAN, AskService(packet, again) PROVE RecentInv'
    <2>1. /\ UNCHANGED resourceVars /\ mCache' = Nothing
          /\ reading' = [is |-> "reply", bytes |-> Encode(asking, resource), age |-> 0, again |-> again]
      BY <1>3 DEF AskService
    <2>2. resource \in Samples[asking] /\ asking \in ForwardedPids /\ heldAgo[resource] = 0
      BY DEF RecentInv, ResourceTypeOK, RecentlyTrue
    <2>3. Encode(asking, resource) \in Seq(Int) /\ Reads(asking, Encode(asking, resource), resource)
      BY <2>2, EncodeReads
    <2>4. Since(Encode(asking, resource), 0)
      BY <2>2, <2>3 DEF Since
    <2>5. reading' \in Replies
      BY <2>1, <2>3, LifetimeAssumption DEF Replies
    <2>6. reading'.bytes = Encode(asking, resource) /\ reading'.age = 0
      BY <2>1
    <2> QED
      BY <1>2, <2>1, <2>4, <2>5, <2>6
  <1>4. ASSUME NEW outcome \in tryGetResourceValue, NEW packet \in Requests, NEW again \in BOOLEAN,
               ServerReceives(outcome, packet, again)
        PROVE  RecentInv'
    <2>1. UNCHANGED resourceVars /\ reading' = Nothing
      BY <1>4 DEF ServerReceives
    <2>2. ResourceTypeOK /\ RecentlyTrue
      BY DEF RecentInv
    <2>3. CASE HandleVehicleIdRequest
      <3>1. mCache' = mCache
        BY <2>3 DEF HandleVehicleIdRequest
      <3>2. mCache # Nothing => /\ mCache \in CachedItems
                                /\ Since(mCache.item.bytes, mCache.age + MaxTransit)
        BY <2>2, Ages DEF RecentlyTrue
      <3> QED
        BY <1>2, <2>1, <3>1, <3>2
    <2>4. CASE HandleDiagMessage(outcome)
      <3>1. /\ mCache' = HandleMessage(outcome).cache
            /\ CacheTryGet(mCache) \/ (outcome = "value" <=> reading # Nothing)
        BY <2>4 DEF HandleDiagMessage
      <3>2. mCache' \in {Nothing} \cup CachedItems
        BY <2>2, <3>1, HandleMessageTypes
      <3>3. mCache' # Nothing => Since(mCache'.item.bytes, mCache'.age + MaxTransit)
        BY <3>1, HandledIsRecent
      <3> QED
        BY <1>2, <2>1, <3>2, <3>3
    <2> QED
      BY <1>4, <2>3, <2>4 DEF ServerReceives
  <1>5. ASSUME NEW packet \in Requests, NEW again \in BOOLEAN, VehicleAborts(packet, again) PROVE RecentInv'
    BY <1>2, <1>5 DEF VehicleAborts
  <1>6. ASSUME NEW value \in Samples[asking], ResourceChanges(value) PROVE RecentInv'
    BY <1>6, ChangeKeeps
  <1>7. CASE Tick
    BY <1>7, TickKeeps
  <1> QED
    BY <1>1, <1>3, <1>4, <1>5, <1>6, <1>7
       DEF DoipNext, doipVars, serverVars, MainStarts, checkServiceDiscovery, MainReturns, DestroyBridge,
           DestroyMonitor, SdClientStep, TimerExpires, EndpointFails, ConnectBridge, ConnectFails, Ask,
           ClientSends, ClientReceives, ClientRepeats, ClientHandles, ServerSends

\* Everything starts with its type, and with no cached item.
LEMMA DoipStarts == DoipInit => DoipTypeOK /\ RecentInv
  <1> SUFFICES ASSUME DoipInit PROVE DoipTypeOK /\ RecentInv
    OBVIOUS
  <1> USE DEF DoipInit
  <1>1. ManagerTypeOK
    BY DEF ManagerInit, ManagerTypeOK, Debouncers
  <1>2. BridgesTypeOK
    BY DEF ServerInit, BridgesTypeOK, NoBridge
  <1>3. ResourceTypeOK
    BY LifetimeAssumption DEF ServerInit, ResourceTypeOK
  <1>4. RecentlyTrue
    BY <1>3 DEF ServerInit, RecentlyTrue, ResourceTypeOK
  <1> QED
    BY <1>1, <1>2, <1>3, <1>4 DEF DoipTypeOK, RecentInv, ServerInit

DoipInv == DoipTypeOK /\ RecentInv

LEMMA DoipStep ==
    ASSUME DoipInv, [DoipNext]_doipVars
    PROVE  DoipInv'
  <1>1. ManagerTypeOK' /\ BridgesTypeOK' /\ RecentInv'
    BY ManagerTypes, BridgesTypes, RecentKept DEF DoipInv, DoipTypeOK
  <1>2. asked' \in Nat /\ answered' \in Nat /\ stale' \in Nat /\ vehicle' \in BOOLEAN
    <2>1. /\ asked' \in {asked, asked + 1} /\ answered' \in {answered, answered + 1}
          /\ stale' \in {stale, stale + 1} /\ vehicle' \in {vehicle, FALSE}
      BY DEF DoipNext, doipVars, testerVars, serverVars, MainStarts, checkServiceDiscovery, MainReturns,
             DestroyBridge, DestroyMonitor, SdClientStep, TimerExpires, EndpointFails, ConnectBridge,
             ConnectFails, Ask, ClientSends, ClientReceives, ClientRepeats, ClientHandles, AskService,
             ServerReceives, VehicleAborts, ServerSends, Tick, ResourceChanges
    <2>2. asked \in Nat /\ answered \in Nat /\ stale \in Nat /\ vehicle \in BOOLEAN
      BY DEF DoipInv, DoipTypeOK
    <2>3. asked' \in Nat /\ answered' \in Nat /\ stale' \in Nat
      BY <2>1, <2>2
    <2>4. vehicle' \in BOOLEAN
      BY <2>1, <2>2, Zenon
    <2> QED
      BY <2>3, <2>4
  <1> QED
    BY <1>1, <1>2 DEF DoipInv, DoipTypeOK, RecentInv

\* The diagnostic manager, its bridges, DoipServer and its cache keep their types.
THEOREM DoipTypes == DoipSpec => []DoipTypeOK
  <1>1. DoipInit => DoipInv
    BY DoipStarts DEF DoipInv
  <1>2. DoipInv /\ [DoipNext]_doipVars => DoipInv'
    BY DoipStep
  <1>3. DoipInv => DoipTypeOK
    BY DEF DoipInv
  <1> QED
    BY <1>1, <1>2, <1>3, PTL DEF DoipSpec

\* DoipServer never answers a request for live data with a value that the vehicle
\* has not had within the lifetime of ReadDataByIdentifier's cache and the time of
\* a transfer from the web service, for all six pids, all values that fit their
\* bytes, and packets that are handled again.
THEOREM AnswersAreRecent == DoipSpec => AnswerIsRecent
  <1> DEFINE Recent ==
        Len(mSendQueue') > Len(mSendQueue) /\ Last(mSendQueue').is = "answer" =>
          \E v \in DOMAIN heldAgo : /\ heldAgo[v] < cCacheLifetime + MaxTransit
                                    /\ Reads(asking, Last(mSendQueue').bytes, v)
  <1>1. DoipInit => DoipInv
    BY DoipStarts DEF DoipInv
  <1>2. DoipInv /\ [DoipNext]_doipVars => DoipInv'
    BY DoipStep
  <1>3. DoipInv /\ [DoipNext]_doipVars => [Recent]_doipVars
    <2> SUFFICES ASSUME DoipInv, DoipNext, Len(mSendQueue') > Len(mSendQueue),
                        Last(mSendQueue').is = "answer"
                 PROVE  \E v \in DOMAIN heldAgo : /\ heldAgo[v] < cCacheLifetime + MaxTransit
                                                  /\ Reads(asking, Last(mSendQueue').bytes, v)
      OBVIOUS
    <2>1. mSendQueue \in Seq(Responses)
      BY DEF DoipInv, DoipTypeOK, BridgesTypeOK
    <2>2. mSendQueue' # mSendQueue /\ mSendQueue' # << >>
      BY <2>1
    <2>3. \E outcome \in tryGetResourceValue, packet \in Requests, again \in BOOLEAN :
             ServerReceives(outcome, packet, again)
      BY <2>2 DEF DoipNext, serverVars, MainStarts, checkServiceDiscovery, MainReturns, DestroyBridge,
             DestroyMonitor, SdClientStep, TimerExpires, EndpointFails, ConnectBridge, ConnectFails, Ask,
             ClientSends, ClientReceives, ClientRepeats, ClientHandles, AskService, VehicleAborts,
             ServerSends, Tick, ResourceChanges
    <2>4. PICK outcome \in tryGetResourceValue : HandleVehicleIdRequest \/ HandleDiagMessage(outcome)
      BY <2>3 DEF ServerReceives
    <2>5. ASSUME NEW r \in Responses, mSendQueue' = Append(mSendQueue, r)
          PROVE  Last(mSendQueue') = r
      BY <2>1, <2>5 DEF Last
    <2>6. ~HandleVehicleIdRequest
      <3>1. [is |-> "idResponse"] \in Responses
        BY DEF Responses
      <3> QED
        BY <2>5, <3>1 DEF HandleVehicleIdRequest
    <2>7. /\ HandleDiagMessage(outcome)
          /\ CacheTryGet(mCache) \/ (outcome = "value" <=> reading # Nothing)
      BY <2>4, <2>6 DEF HandleDiagMessage
    <2> DEFINE r == HandleMessage(outcome).response
    <2>8. r \in Responses /\ mSendQueue' = Append(mSendQueue, r)
      BY <2>2, <2>7, HandleMessageTypes DEF HandleDiagMessage, DoipInv, DoipTypeOK
    <2>9. RecentInv /\ r.is = "answer" /\ Last(mSendQueue') = r
      BY <2>5, <2>8 DEF DoipInv
    <2> QED
      BY <2>7, <2>9, HandledIsRecent
  <1> QED
    BY <1>1, <1>2, <1>3, PTL DEF DoipSpec, AnswerIsRecent

-----------------------------------------------------------------------------
(* AnsweredOnce *)

\* Where the packets are that a request or an answer may be among.
At(place, i) == place \in Places /\ i \in DOMAIN PacketsAt(place) /\ PacketsAt(place)[i].is = Awaited(place)

\* The members of Outstanding, before and after a step.
LEMMA OutstandingAt ==
    ASSUME NEW place, NEW i
    PROVE  /\ <<place, i>> \in Outstanding <=> At(place, i)
           /\ <<place, i>> \in Outstanding' <=> At(place, i)'
  BY DEF Outstanding, At
LEMMA OutstandingTriples ==
    ASSUME NEW e, e \in Outstanding \/ e \in Outstanding'
    PROVE  \E b, i : \/ \E kind \in {"queue", "up", "down"} : e = <<<<b, kind>>, i>>
                     \/ b = NoBridge /\ e = <<<<b, "mSendQueue">>, i>>
  BY DEF Outstanding, Places

\* The four kinds of places.
LEMMA AtPlaces ==
    ASSUME NEW b, NEW i
    PROVE  /\ At(<<b, "queue">>, i) <=> /\ b \in DOMAIN bridges /\ i \in DOMAIN bridges[b].queue
                                        /\ bridges[b].queue[i].is = "ask"
           /\ At(<<b, "up">>, i) <=> /\ b \in DOMAIN bridges /\ i \in DOMAIN bridges[b].up
                                     /\ bridges[b].up[i].is = "ask"
           /\ At(<<b, "down">>, i) <=> /\ b \in DOMAIN bridges /\ i \in DOMAIN bridges[b].down
                                       /\ bridges[b].down[i].is = "answer"
           /\ At(<<NoBridge, "mSendQueue">>, i) <=> i \in DOMAIN mSendQueue /\ mSendQueue[i].is = "answer"
  BY DEF At, Places, PacketsAt, Awaited
LEMMA AtPlacesAfter ==
    ASSUME NEW b, NEW i
    PROVE  /\ At(<<b, "queue">>, i)' <=> /\ b \in DOMAIN bridges' /\ i \in DOMAIN bridges'[b].queue
                                         /\ bridges'[b].queue[i].is = "ask"
           /\ At(<<b, "up">>, i)' <=> /\ b \in DOMAIN bridges' /\ i \in DOMAIN bridges'[b].up
                                      /\ bridges'[b].up[i].is = "ask"
           /\ At(<<b, "down">>, i)' <=> /\ b \in DOMAIN bridges' /\ i \in DOMAIN bridges'[b].down
                                        /\ bridges'[b].down[i].is = "answer"
           /\ At(<<NoBridge, "mSendQueue">>, i)' <=> i \in DOMAIN mSendQueue' /\ mSendQueue'[i].is = "answer"
  BY DEF At, Places, PacketsAt, Awaited

\* Counting what is at places, each a pair of a place and a position: the end of
\* one place may be what was at another one, and a head may be taken away.
LEMMA InjectionCounts ==
    ASSUME NEW S, NEW T, IsFiniteSet(T), NEW move \in [S -> T],
           \A e, f \in S : move[e] = move[f] => e = f
    PROVE  IsFiniteSet(S) /\ Cardinality(S) <= Cardinality(T)
  <1>1. move \in Injection(S, T)
    BY DEF Injection, IsInjective
  <1> QED
    BY <1>1, FS_Injection
LEMMA AppendedCounts ==
    ASSUME NEW S, NEW T, IsFiniteSet(T), NEW from, NEW to, NEW n \in Nat,
           \A e \in S : e = <<e[1], e[2]>> /\ e[2] \in Nat /\ e[1] # from,
           \A e \in S : IF e[1] = to /\ e[2] > n THEN <<from, e[2] - n>> \in T ELSE e \in T
    PROVE  IsFiniteSet(S) /\ Cardinality(S) <= Cardinality(T)
  <1> DEFINE move == [e \in S |-> IF e[1] = to /\ e[2] > n THEN <<from, e[2] - n>> ELSE e]
  <1>1. move \in [S -> T]
    OBVIOUS
  <1>2. ASSUME NEW e \in S, NEW f \in S, move[e] = move[f] PROVE e = f
    <2>1. CASE e[1] = to /\ e[2] > n /\ f[1] = to /\ f[2] > n
      <3>1. <<from, e[2] - n>> = <<from, f[2] - n>>
        BY <1>2, <2>1
      <3>2. e[2] - n = f[2] - n /\ e[2] \in Nat /\ f[2] \in Nat
        BY <3>1
      <3>3. e[2] = f[2]
        BY <3>2
      <3> QED
        BY <2>1, <3>3
    <2>2. CASE e[1] = to /\ e[2] > n /\ ~(f[1] = to /\ f[2] > n)
      <3>1. <<from, e[2] - n>> = f
        BY <1>2, <2>2
      <3> QED
        BY <3>1
    <2>3. CASE ~(e[1] = to /\ e[2] > n) /\ f[1] = to /\ f[2] > n
      <3>1. <<from, f[2] - n>> = e
        BY <1>2, <2>3
      <3> QED
        BY <3>1
    <2>4. CASE ~(e[1] = to /\ e[2] > n) /\ ~(f[1] = to /\ f[2] > n)
      BY <1>2, <2>4
    <2> QED
      BY <2>1, <2>2, <2>3, <2>4
  <1> HIDE DEF move
  <1> QED
    BY <1>1, <1>2, InjectionCounts
LEMMA TakenCounts ==
    ASSUME NEW S, NEW T, IsFiniteSet(T), NEW from,
           \A e \in S : e = <<e[1], e[2]>> /\ e[2] \in Nat \ {0},
           \A e \in S : IF e[1] = from THEN <<from, e[2] + 1>> \in T ELSE e \in T
    PROVE  IsFiniteSet(S) /\ Cardinality(S) <= Cardinality(T \ {<<from, 1>>})
  <1> DEFINE move == [e \in S |-> IF e[1] = from THEN <<from, e[2] + 1>> ELSE e]
             R == T \ {<<from, 1>>}
  <1>1. move \in [S -> R]
    <2> SUFFICES ASSUME NEW e \in S PROVE move[e] \in R
      OBVIOUS
    <2>1. CASE e[1] = from
      <3>1. e[2] + 1 # 1
        OBVIOUS
      <3>2. <<from, e[2] + 1>> # <<from, 1>>
        BY <3>1
      <3> QED
        BY <2>1, <3>2
    <2>2. CASE e[1] # from
      <3>1. e # <<from, 1>>
        BY <2>2
      <3> QED
        BY <2>2, <3>1
    <2> QED
      BY <2>1, <2>2
  <1>2. ASSUME NEW e \in S, NEW f \in S, move[e] = move[f] PROVE e = f
    <2>1. CASE e[1] = from /\ f[1] = from
      <3>1. <<from, e[2] + 1>> = <<from, f[2] + 1>>
        BY <1>2, <2>1
      <3>2. e[2] + 1 = f[2] + 1 /\ e[2] \in Nat /\ f[2] \in Nat
        BY <3>1
      <3>3. e[2] = f[2]
        BY <3>2
      <3> QED
        BY <2>1, <3>3
    <2>2. CASE e[1] # from /\ f[1] # from
      BY <1>2, <2>2
    <2>3. CASE e[1] = from /\ f[1] # from
      <3>1. <<from, e[2] + 1>> = f
        BY <1>2, <2>3
      <3> QED
        BY <2>3, <3>1
    <2>4. CASE e[1] # from /\ f[1] = from
      <3>1. <<from, f[2] + 1>> = e
        BY <1>2, <2>4
      <3> QED
        BY <2>4, <3>1
    <2> QED
      BY <2>1, <2>2, <2>3, <2>4
  <1>3. IsFiniteSet(R)
    BY FS_RemoveElement
  <1> HIDE DEF move, R
  <1>4. IsFiniteSet(S) /\ Cardinality(S) <= Cardinality(R)
    BY <1>1, <1>2, <1>3, InjectionCounts
  <1> QED
    BY <1>4 DEF R
LEMMA HandledCounts ==
    ASSUME NEW S, NEW T, IsFiniteSet(T), NEW from, NEW new,
           \A e \in S : e = <<e[1], e[2]>> /\ e[2] \in Nat \ {0},
           \A e \in S : IF e[1] = from THEN <<from, e[2] + 1>> \in T
                        ELSE IF e = new THEN <<from, 1>> \in T ELSE e \in T
    PROVE  IsFiniteSet(S) /\ Cardinality(S) <= Cardinality(T)
  <1> DEFINE S0 == {e \in S : e[1] = from \/ e # new}
             R == T \ {<<from, 1>>}
  <1>1. IsFiniteSet(S0) /\ Cardinality(S0) <= Cardinality(R)
    <2>1. \A e \in S0 : e = <<e[1], e[2]>> /\ e[2] \in Nat \ {0}
      OBVIOUS
    <2>2. \A e \in S0 : IF e[1] = from THEN <<from, e[2] + 1>> \in T ELSE e \in T
      OBVIOUS
    <2> HIDE DEF S0
    <2> QED
      BY <2>1, <2>2, TakenCounts
  <1>2. IsFiniteSet(R) /\ Cardinality(R) \in Nat /\ Cardinality(T) \in Nat
        /\ Cardinality(R) <= Cardinality(T)
        /\ (<<from, 1>> \in T => Cardinality(R) = Cardinality(T) - 1)
    <2>1. IsFiniteSet(R) /\ Cardinality(T) \in Nat
          /\ Cardinality(R) = IF <<from, 1>> \in T THEN Cardinality(T) - 1 ELSE Cardinality(T)
      BY FS_RemoveElement, FS_CardinalityType
    <2>2. Cardinality(R) \in Nat
      BY <2>1, FS_CardinalityType
    <2> HIDE DEF R
    <2> QED
      BY <2>1, <2>2
  <1>3. Cardinality(S0) \in Nat
    BY <1>1, FS_CardinalityType
  <1>4. CASE S = S0
    BY <1>1, <1>2, <1>3, <1>4
  <1>5. CASE S # S0
    <2>1. new \in S /\ new[1] # from
      BY <1>5
    <2>2. <<from, 1>> \in T
      BY <2>1
    <2>3. S = S0 \cup {new}
      BY <2>1
    <2> HIDE DEF S0, R
    <2>4. IsFiniteSet(S) /\ Cardinality(S) <= Cardinality(S0) + 1
      <3>1. /\ IsFiniteSet(S0 \cup {new})
            /\ Cardinality(S0 \cup {new}) = IF new \in S0 THEN Cardinality(S0) ELSE Cardinality(S0) + 1
        BY <1>1, FS_AddElement
      <3> QED
        BY <1>3, <2>3, <3>1
    <2>5. Cardinality(S) \in Nat
      BY <2>4, FS_CardinalityType
    <2> QED
      BY <1>1, <1>2, <1>3, <2>2, <2>4, <2>5
  <1> QED
    BY <1>4, <1>5

\* No request is answered twice, and there are finitely many on their way.
CountInv == IsFiniteSet(Outstanding) /\ AnsweredOnce

\* A step that leaves no more behind, and counts no answer, keeps the count.
LEMMA CountKept ==
    ASSUME DoipTypeOK, CountInv, IsFiniteSet(Outstanding'),
           Cardinality(Outstanding') <= Cardinality(Outstanding), UNCHANGED testerVars
    PROVE  CountInv'
  <1>1. Cardinality(Outstanding) \in Nat /\ Cardinality(Outstanding') \in Nat
    BY FS_CardinalityType DEF CountInv
  <1>2. /\ asked \in Nat /\ answered \in Nat /\ stale \in Nat
        /\ asked' = asked /\ answered' = answered /\ stale' = stale
    BY DEF DoipTypeOK, testerVars
  <1> QED
    BY <1>1, <1>2 DEF CountInv, AnsweredOnce

\* What is on its way is at a position of a sequence.
LEMMA OutstandingTyped == BridgesTypeOK => \A e \in Outstanding : e = <<e[1], e[2]>> /\ e[2] \in Nat \ {0}
  <1> SUFFICES ASSUME BridgesTypeOK, NEW e \in Outstanding
               PROVE  e = <<e[1], e[2]>> /\ e[2] \in Nat \ {0}
    OBVIOUS
  <1>1. PICK b, i : \/ \E kind \in {"queue", "up", "down"} : e = <<<<b, kind>>, i>>
                    \/ b = NoBridge /\ e = <<<<b, "mSendQueue">>, i>>
    BY OutstandingTriples
  <1>2. e = <<e[1], e[2]>> /\ e[2] = i
    BY <1>1
  <1>3. \A c \in DOMAIN bridges : bridges[c] \in Bridges
    BY DEF BridgesTypeOK
  <1>4. \A c \in DOMAIN bridges : /\ bridges[c].queue \in Seq(Requests) /\ bridges[c].up \in Seq(Requests)
                                  /\ bridges[c].down \in Seq(Responses)
    BY <1>3, BridgeParts
  <1>5. ASSUME NEW T, NEW q \in Seq(T), i \in DOMAIN q PROVE i \in Nat \ {0}
    BY <1>5
  <1>6. i \in Nat \ {0}
    <2>1. CASE e = <<<<b, "queue">>, i>>
      <3>1. At(<<b, "queue">>, i)
        BY <2>1, OutstandingAt
      <3> QED
        BY <1>4, <1>5, <3>1, AtPlaces
    <2>2. CASE e = <<<<b, "up">>, i>>
      <3>1. At(<<b, "up">>, i)
        BY <2>2, OutstandingAt
      <3> QED
        BY <1>4, <1>5, <3>1, AtPlaces
    <2>3. CASE e = <<<<b, "down">>, i>>
      <3>1. At(<<b, "down">>, i)
        BY <2>3, OutstandingAt
      <3> QED
        BY <1>4, <1>5, <3>1, AtPlaces
    <2>4. CASE e = <<<<NoBridge, "mSendQueue">>, i>>
      <3>1. At(<<NoBridge, "mSendQueue">>, i)
        BY <2>4, OutstandingAt
      <3> QED
        BY <1>5, <3>1, AtPlaces DEF BridgesTypeOK
    <2> QED
      BY <1>1, <2>1, <2>2, <2>3, <2>4
  <1> QED
    BY <1>2, <1>6
LEMMA OutstandingTypedAfter ==
    BridgesTypeOK' => \A e \in Outstanding' : e = <<e[1], e[2]>> /\ e[2] \in Nat \ {0}
  <1>1. (BridgesTypeOK => \A e \in Outstanding : e = <<e[1], e[2]>> /\ e[2] \in Nat \ {0})'
    BY OutstandingTyped, PTL
  <1> QED
    BY <1>1

\* What is outstanding, by the kind of its place.
LEMMA InQueue ==
    ASSUME NEW b \in DOMAIN bridges, NEW i \in DOMAIN bridges[b].queue, bridges[b].queue[i].is = "ask"
    PROVE  <<<<b, "queue">>, i>> \in Outstanding
  BY OutstandingAt, AtPlaces
LEMMA InUp ==
    ASSUME NEW b \in DOMAIN bridges, NEW i \in DOMAIN bridges[b].up, bridges[b].up[i].is = "ask"
    PROVE  <<<<b, "up">>, i>> \in Outstanding
  BY OutstandingAt, AtPlaces
LEMMA InDown ==
    ASSUME NEW b \in DOMAIN bridges, NEW i \in DOMAIN bridges[b].down, bridges[b].down[i].is = "answer"
    PROVE  <<<<b, "down">>, i>> \in Outstanding
  BY OutstandingAt, AtPlaces
LEMMA InSendQueue ==
    ASSUME NEW i \in DOMAIN mSendQueue, mSendQueue[i].is = "answer"
    PROVE  <<<<NoBridge, "mSendQueue">>, i>> \in Outstanding
  BY OutstandingAt, AtPlaces

AskedIn(queue, i) == i \in DOMAIN queue /\ queue[i].is = "ask"
AnsweredIn(queue, i) == i \in DOMAIN queue /\ queue[i].is = "answer"

\* What is outstanding after a step that changed one bridge.
LEMMA OneBridgeChanges ==
    ASSUME BridgesTypeOK, NEW b \in DOMAIN bridges, NEW new, bridges' = [bridges EXCEPT ![b] = new],
           NEW e \in Outstanding'
    PROVE  \/ \E i : e = <<<<b, "queue">>, i>> /\ AskedIn(new.queue, i)
           \/ \E i : e = <<<<b, "up">>, i>> /\ AskedIn(new.up, i)
           \/ \E i : e = <<<<b, "down">>, i>> /\ AnsweredIn(new.down, i)
           \/ \E i : e = <<<<NoBridge, "mSendQueue">>, i>> /\ AnsweredIn(mSendQueue', i)
           \/ e \in Outstanding /\ e[1][1] # b /\ e[1][1] # NoBridge
  <1>1. PICK c, i : \/ \E kind \in {"queue", "up", "down"} : e = <<<<c, kind>>, i>>
                    \/ c = NoBridge /\ e = <<<<c, "mSendQueue">>, i>>
    BY OutstandingTriples
  <1>2. DOMAIN bridges' = DOMAIN bridges /\ bridges'[b] = new /\ NoBridge \notin DOMAIN bridges
    BY DEF BridgesTypeOK, NoBridge
  <1>3. \A a \in DOMAIN bridges : a # b => bridges'[a] = bridges[a]
    BY DEF BridgesTypeOK
  <1>4. CASE e = <<<<c, "queue">>, i>>
    <2>1. c \in DOMAIN bridges /\ i \in DOMAIN bridges'[c].queue /\ bridges'[c].queue[i].is = "ask"
      BY <1>2, <1>4, OutstandingAt, AtPlacesAfter
    <2>2. CASE c = b
      BY <1>2, <1>4, <2>1, <2>2 DEF AskedIn
    <2>3. CASE c # b
      BY <1>2, <1>3, <1>4, <2>1, <2>3, InQueue
    <2> QED
      BY <2>2, <2>3
  <1>5. CASE e = <<<<c, "up">>, i>>
    <2>1. c \in DOMAIN bridges /\ i \in DOMAIN bridges'[c].up /\ bridges'[c].up[i].is = "ask"
      BY <1>2, <1>5, OutstandingAt, AtPlacesAfter
    <2>2. CASE c = b
      BY <1>2, <1>5, <2>1, <2>2 DEF AskedIn
    <2>3. CASE c # b
      BY <1>2, <1>3, <1>5, <2>1, <2>3, InUp
    <2> QED
      BY <2>2, <2>3
  <1>6. CASE e = <<<<c, "down">>, i>>
    <2>1. c \in DOMAIN bridges /\ i \in DOMAIN bridges'[c].down /\ bridges'[c].down[i].is = "answer"
      BY <1>2, <1>6, OutstandingAt, AtPlacesAfter
    <2>2. CASE c = b
      BY <1>2, <1>6, <2>1, <2>2 DEF AnsweredIn
    <2>3. CASE c # b
      BY <1>2, <1>3, <1>6, <2>1, <2>3, InDown
    <2> QED
      BY <2>2, <2>3
  <1>7. CASE e = <<<<NoBridge, "mSendQueue">>, i>>
    BY <1>7, OutstandingAt, AtPlacesAfter DEF AnsweredIn
  <1> QED
    BY <1>1, <1>4, <1>5, <1>6, <1>7

\* DestroyBridge forgets packets; nothing else is on its way.
LEMMA DestroyBridgeCounts ==
    ASSUME BridgesTypeOK, DestroyBridge
    PROVE  Outstanding' \subseteq Outstanding
  <1>1. CASE mObdToDoipConverter = NoBridge
    BY <1>1 DEF DestroyBridge, serverVars, Outstanding, Places, PacketsAt
  <1>2. CASE mObdToDoipConverter # NoBridge
    <2> DEFINE b == mObdToDoipConverter
               new == [bridges[b] EXCEPT !.alive = FALSE, !.queue = << >>, !.down = << >>]
    <2>1. b \in DOMAIN bridges
      BY <1>2 DEF BridgesTypeOK, NoBridge
    <2>2. bridges' = [bridges EXCEPT ![b] = new] /\ mSendQueue' = mSendQueue
      BY <1>2 DEF DestroyBridge, Forget, serverVars
    <2>3. new.queue = << >> /\ new.up = bridges[b].up /\ new.down = << >>
      BY <2>1 DEF BridgesTypeOK, Bridges
    <2>4. DOMAIN new.queue = {} /\ DOMAIN new.down = {}
      BY <2>3
    <2> HIDE DEF b, new
    <2> SUFFICES ASSUME NEW e \in Outstanding' PROVE e \in Outstanding
      OBVIOUS
    <2>5. \/ \E i : e = <<<<b, "up">>, i>> /\ AskedIn(new.up, i)
          \/ \E i : e = <<<<NoBridge, "mSendQueue">>, i>> /\ AnsweredIn(mSendQueue, i)
          \/ e \in Outstanding
      BY <2>1, <2>2, <2>4, OneBridgeChanges DEF AskedIn, AnsweredIn
    <2> QED
      BY <2>1, <2>3, <2>5, InUp, InSendQueue DEF AskedIn, AnsweredIn
  <1> QED
    BY <1>1, <1>2

\* A new bridge has sent no request for data.
LEMMA ConnectBridgeCounts ==
    ASSUME BridgesTypeOK, NEW hardware \in BOOLEAN, ConnectBridge(hardware)
    PROVE  Outstanding' \subseteq Outstanding
  <1> DEFINE n == Len(bridges) + 1
             new == NewBridge(hardware)
  <1>1. bridges' = Append(bridges, new) /\ mSendQueue' = mSendQueue
    BY DEF ConnectBridge
  <1>2. /\ DOMAIN bridges' = DOMAIN bridges \cup {n} /\ bridges'[n] = new
        /\ \A c \in DOMAIN bridges : bridges'[c] = bridges[c]
    BY <1>1 DEF BridgesTypeOK
  <1>3. /\ new.queue = << >> \/ new.queue = <<[is |-> "idRequest"]>>
        /\ new.up = << >> /\ new.down = << >>
    BY DEF NewBridge
  <1>4. /\ ~(\E i \in DOMAIN new.queue : new.queue[i].is = "ask")
        /\ DOMAIN new.up = {} /\ DOMAIN new.down = {}
    BY <1>3
  <1> HIDE DEF n, new
  <1> SUFFICES ASSUME NEW e \in Outstanding' PROVE e \in Outstanding
    OBVIOUS
  <1>5. PICK c, i : \/ \E kind \in {"queue", "up", "down"} : e = <<<<c, kind>>, i>>
                    \/ c = NoBridge /\ e = <<<<c, "mSendQueue">>, i>>
    BY OutstandingTriples
  <1>6. CASE e = <<<<c, "queue">>, i>>
    <2>1. c \in DOMAIN bridges' /\ i \in DOMAIN bridges'[c].queue /\ bridges'[c].queue[i].is = "ask"
      BY <1>6, OutstandingAt, AtPlacesAfter
    <2>2. c \in DOMAIN bridges /\ bridges'[c] = bridges[c]
      BY <1>2, <1>4, <2>1
    <2> QED
      BY <1>6, <2>1, <2>2, InQueue
  <1>7. CASE e = <<<<c, "up">>, i>>
    <2>1. c \in DOMAIN bridges' /\ i \in DOMAIN bridges'[c].up /\ bridges'[c].up[i].is = "ask"
      BY <1>7, OutstandingAt, AtPlacesAfter
    <2>2. c \in DOMAIN bridges /\ bridges'[c] = bridges[c]
      BY <1>2, <1>4, <2>1
    <2> QED
      BY <1>7, <2>1, <2>2, InUp
  <1>8. CASE e = <<<<c, "down">>, i>>
    <2>1. c \in DOMAIN bridges' /\ i \in DOMAIN bridges'[c].down /\ bridges'[c].down[i].is = "answer"
      BY <1>8, OutstandingAt, AtPlacesAfter
    <2>2. c \in DOMAIN bridges /\ bridges'[c] = bridges[c]
      BY <1>2, <1>4, <2>1
    <2> QED
      BY <1>8, <2>1, <2>2, InDown
  <1>9. CASE e = <<<<NoBridge, "mSendQueue">>, i>>
    BY <1>1, <1>9, OutstandingAt, AtPlacesAfter, InSendQueue
  <1> QED
    BY <1>5, <1>6, <1>7, <1>8, <1>9

\* A request of the tester is one more packet on its way.
LEMMA AskCounts ==
    ASSUME BridgesTypeOK, NEW b \in DOMAIN bridges, Ask(b)
    PROVE  Outstanding' \subseteq Outstanding \cup {<<<<b, "queue">>, Len(bridges[b].queue) + 1>>}
  <1> DEFINE q == bridges[b].queue
             new == [bridges[b] EXCEPT !.queue = Append(q, [is |-> "ask"])]
  <1>1. bridges' = [bridges EXCEPT ![b] = new] /\ mSendQueue' = mSendQueue
    BY DEF Ask, serverVars
  <1>2. bridges[b] \in Bridges
    BY DEF BridgesTypeOK
  <1>3. new.queue = Append(q, [is |-> "ask"]) /\ new.up = bridges[b].up /\ new.down = bridges[b].down
    BY <1>2 DEF Bridges
  <1>4. q \in Seq(Requests)
    BY <1>2, BridgeParts
  <1> HIDE DEF q, new
  <1>5. \A i \in DOMAIN new.queue : i = Len(q) + 1 \/ (i \in DOMAIN q /\ new.queue[i] = q[i])
    BY <1>3, <1>4
  <1> SUFFICES ASSUME NEW e \in Outstanding'
               PROVE  e \in Outstanding \/ e = <<<<b, "queue">>, Len(q) + 1>>
    BY DEF q
  <1>6. ASSUME NEW i, e = <<<<b, "queue">>, i>>, AskedIn(new.queue, i)
        PROVE  e \in Outstanding \/ e = <<<<b, "queue">>, Len(q) + 1>>
    BY <1>5, <1>6, InQueue DEF q, AskedIn
  <1>7. ASSUME NEW i, e = <<<<b, "up">>, i>>, AskedIn(new.up, i) PROVE e \in Outstanding
    BY <1>3, <1>7, InUp DEF AskedIn
  <1>8. ASSUME NEW i, e = <<<<b, "down">>, i>>, AnsweredIn(new.down, i) PROVE e \in Outstanding
    BY <1>3, <1>8, InDown DEF AnsweredIn
  <1>9. ASSUME NEW i, e = <<<<NoBridge, "mSendQueue">>, i>>, AnsweredIn(mSendQueue', i)
        PROVE  e \in Outstanding
    BY <1>1, <1>9, InSendQueue DEF AnsweredIn
  <1> QED
    BY <1>1, <1>6, <1>7, <1>8, <1>9, OneBridgeChanges

\* The positions of a concatenation are those of its parts.
LEMMA ConcatPositions ==
    ASSUME NEW T, NEW p \in Seq(T), NEW q \in Seq(T), NEW i \in DOMAIN (p \o q)
    PROVE  /\ i \in Nat
           /\ ~(i > Len(p)) => i \in DOMAIN p /\ (p \o q)[i] = p[i]
           /\ i > Len(p) => i - Len(p) \in DOMAIN q /\ (p \o q)[i] = q[i - Len(p)]
  OBVIOUS
LEMMA TailPositions ==
    ASSUME NEW T, NEW q \in Seq(T), q # << >>, NEW i \in DOMAIN Tail(q)
    PROVE  i + 1 \in DOMAIN q /\ Tail(q)[i] = q[i + 1]
  OBVIOUS

\* What DoipClient sends moves from its queue to the connection.
LEMMA ClientSendsCounts ==
    ASSUME BridgesTypeOK, BridgesTypeOK', IsFiniteSet(Outstanding), NEW b \in DOMAIN bridges, ClientSends(b)
    PROVE  IsFiniteSet(Outstanding') /\ Cardinality(Outstanding') <= Cardinality(Outstanding)
  <1> DEFINE q == bridges[b].queue
             u == bridges[b].up
             new == [bridges[b] EXCEPT !.queue = << >>, !.up = u \o q]
             from == <<b, "queue">>
             to == <<b, "up">>
             n == Len(u)
  <1>1. bridges' = [bridges EXCEPT ![b] = new] /\ mSendQueue' = mSendQueue
    BY DEF ClientSends, serverVars, BridgesTypeOK
  <1>2. bridges[b] \in Bridges
    BY DEF BridgesTypeOK
  <1>3. new.queue = << >> /\ new.up = u \o q /\ new.down = bridges[b].down
    BY <1>2 DEF Bridges
  <1>4. q \in Seq(Requests) /\ u \in Seq(Requests) /\ n \in Nat
    BY <1>2, BridgeParts
  <1>5. DOMAIN new.queue = {} /\ b # NoBridge
    BY <1>3 DEF BridgesTypeOK, NoBridge
  <1> HIDE DEF new
  <1>6. ASSUME NEW e \in Outstanding'
        PROVE  e[1] # from /\ IF e[1] = to /\ e[2] > n THEN <<from, e[2] - n>> \in Outstanding
                              ELSE e \in Outstanding
    <2>1. ASSUME NEW i, e = <<<<b, "queue">>, i>>, AskedIn(new.queue, i) PROVE FALSE
      BY <1>5, <2>1 DEF AskedIn
    <2>2. ASSUME NEW i, e = <<<<b, "up">>, i>>, AskedIn(new.up, i)
          PROVE  /\ e[1] = to /\ e[2] = i
                 /\ IF i > n THEN <<from, i - n>> \in Outstanding ELSE e \in Outstanding
      <3>1. i \in DOMAIN (u \o q) /\ (u \o q)[i].is = "ask"
        BY <1>3, <2>2 DEF AskedIn
      <3>2. CASE i > n
        <4>0. i - n \in DOMAIN q /\ (u \o q)[i] = q[i - n]
          <5> HIDE DEF u, q
          <5> QED
            BY <1>4, <3>1, <3>2, ConcatPositions
        <4>1. i - n \in DOMAIN q /\ q[i - n].is = "ask"
          BY <3>1, <4>0
        <4>2. <<from, i - n>> \in Outstanding
          BY <4>1, InQueue
        <4> QED
          BY <2>2, <3>2, <4>2
      <3>3. CASE ~(i > n)
        BY <1>4, <2>2, <3>1, <3>3, ConcatPositions, InUp
      <3> QED
        BY <2>2, <3>2, <3>3
    <2>3. ASSUME NEW i, e = <<<<b, "down">>, i>>, AnsweredIn(new.down, i)
          PROVE  e \in Outstanding /\ e[1] # from /\ e[1] # to
      BY <1>3, <2>3, InDown DEF AnsweredIn
    <2>4. ASSUME NEW i, e = <<<<NoBridge, "mSendQueue">>, i>>, AnsweredIn(mSendQueue', i)
          PROVE  e \in Outstanding /\ e[1] # from /\ e[1] # to
      BY <1>1, <2>4, InSendQueue DEF AnsweredIn
    <2>5. ASSUME e \in Outstanding, e[1][1] # b PROVE e[1] # from /\ e[1] # to
      BY <2>5
    <2>6. to # from
      OBVIOUS
    <2> HIDE DEF to, from, n
    <2> QED
      BY <1>1, <2>1, <2>2, <2>3, <2>4, <2>5, <2>6, OneBridgeChanges
  <1>7. \A e \in Outstanding' : e = <<e[1], e[2]>> /\ e[2] \in Nat
    BY OutstandingTypedAfter
  <1> HIDE DEF from, to, n
  <1> QED
    BY <1>4, <1>6, <1>7, AppendedCounts

\* What DoipClient receives leaves the connection; an answer is counted.
LEMMA ClientReceivesCounts ==
    ASSUME BridgesTypeOK, BridgesTypeOK', IsFiniteSet(Outstanding), NEW b \in DOMAIN bridges,
           ClientReceives(b)
    PROVE  /\ IsFiniteSet(Outstanding')
           /\ Cardinality(Outstanding') <= Cardinality(Outstanding \ {<<<<b, "down">>, 1>>})
           /\ Head(bridges[b].down).is = "answer" => <<<<b, "down">>, 1>> \in Outstanding
  <1> DEFINE d == bridges[b].down
             known == bridges[b].mLogicalAddress \/ Head(d).is = "idResponse"
             new == [bridges[b] EXCEPT !.down = Tail(d), !.mLogicalAddress = known]
             from == <<b, "down">>
  <1>1. bridges' = [bridges EXCEPT ![b] = new] /\ mSendQueue' = mSendQueue
    BY DEF ClientReceives, ClientHandles, serverVars, BridgesTypeOK
  <1>2. bridges[b] \in Bridges
    BY DEF BridgesTypeOK
  <1>3. new.queue = bridges[b].queue /\ new.up = bridges[b].up /\ new.down = Tail(d)
    BY <1>2 DEF Bridges
  <1>4. d \in Seq(Responses) /\ d # << >> /\ 1 \in DOMAIN d /\ Head(d) = d[1]
    BY <1>2, BridgeParts DEF ClientReceives
  <1> HIDE DEF new
  <1>5. ASSUME NEW e \in Outstanding'
        PROVE  IF e[1] = from THEN <<from, e[2] + 1>> \in Outstanding ELSE e \in Outstanding
    <2>1. ASSUME NEW i, e = <<<<b, "queue">>, i>>, AskedIn(new.queue, i)
          PROVE  e \in Outstanding /\ e[1] # from
      BY <1>3, <2>1, InQueue DEF AskedIn
    <2>2. ASSUME NEW i, e = <<<<b, "up">>, i>>, AskedIn(new.up, i)
          PROVE  e \in Outstanding /\ e[1] # from
      BY <1>3, <2>2, InUp DEF AskedIn
    <2>3. ASSUME NEW i, e = <<<<b, "down">>, i>>, AnsweredIn(new.down, i)
          PROVE  e[1] = from /\ <<from, e[2] + 1>> \in Outstanding
      <3>1. i + 1 \in DOMAIN d /\ d[i + 1].is = "answer"
        BY <1>3, <1>4, <2>3, TailPositions DEF AnsweredIn
      <3>2. <<from, i + 1>> \in Outstanding
        BY <3>1, InDown
      <3> QED
        BY <2>3, <3>2
    <2>4. ASSUME NEW i, e = <<<<NoBridge, "mSendQueue">>, i>>, AnsweredIn(mSendQueue', i)
          PROVE  e \in Outstanding /\ e[1] # from
      BY <1>1, <2>4, InSendQueue DEF AnsweredIn
    <2>5. ASSUME e \in Outstanding, e[1][1] # b PROVE e[1] # from
      BY <2>5
    <2> HIDE DEF from
    <2> QED
      BY <1>1, <2>1, <2>2, <2>3, <2>4, <2>5, OneBridgeChanges
  <1>6. \A e \in Outstanding' : e = <<e[1], e[2]>> /\ e[2] \in Nat \ {0}
    BY OutstandingTypedAfter
  <1>7. Head(d).is = "answer" => <<from, 1>> \in Outstanding
    BY <1>4, InDown
  <1> HIDE DEF from
  <1>8. IsFiniteSet(Outstanding') /\ Cardinality(Outstanding') <= Cardinality(Outstanding \ {<<from, 1>>})
    BY <1>5, <1>6, TakenCounts
  <1> QED
    BY <1>7, <1>8 DEF from

\* What a handled packet adds to the queue is one packet at the most, which is an
\* answer only to a request for data.
LEMMA QueuedAnswers ==
    ASSUME BridgesTypeOK, NEW outcome \in tryGetResourceValue, NEW packet \in Requests,
           NEW again \in BOOLEAN, ServerReceives(outcome, packet, again),
           NEW i, AnsweredIn(mSendQueue', i)
    PROVE  AnsweredIn(mSendQueue, i) \/ (i = Len(mSendQueue) + 1 /\ packet.is = "ask")
  <1>1. mSendQueue \in Seq(Responses)
    BY DEF BridgesTypeOK
  <1>2. CASE packet.is = "idRequest"
    <2>1. mSendQueue' = Append(mSendQueue, [is |-> "idResponse"])
      BY <1>2 DEF ServerReceives, HandleVehicleIdRequest
    <2>2. mSendQueue'[Len(mSendQueue) + 1].is # "answer"
      BY <1>1, <2>1
    <2>3. \A k \in DOMAIN mSendQueue' :
             k = Len(mSendQueue) + 1 \/ (k \in DOMAIN mSendQueue /\ mSendQueue'[k] = mSendQueue[k])
      BY <1>1, <2>1
    <2> QED
      BY <2>2, <2>3 DEF AnsweredIn
  <1>3. CASE packet.is # "idRequest"
    <2>1. packet.is = "ask"
      BY <1>3 DEF Requests
    <2>2. mSendQueue' = mSendQueue \/ \E r : mSendQueue' = Append(mSendQueue, r)
      BY <1>3 DEF ServerReceives, HandleDiagMessage
    <2>3. \A k \in DOMAIN mSendQueue' :
             k = Len(mSendQueue) + 1 \/ (k \in DOMAIN mSendQueue /\ mSendQueue'[k] = mSendQueue[k])
      BY <1>1, <2>2
    <2> QED
      BY <2>1, <2>3 DEF AnsweredIn
  <1> QED
    BY <1>2, <1>3

\* A packet that is handled again adds no more than its answer.
LEMMA ServerRepeatsCounts ==
    ASSUME BridgesTypeOK, NEW outcome \in tryGetResourceValue, NEW packet \in Requests,
           ServerReceives(outcome, packet, TRUE)
    PROVE  Outstanding' \subseteq Outstanding \cup {<<<<NoBridge, "mSendQueue">>, Len(mSendQueue) + 1>>}
  <1>1. bridges' = bridges
    BY DEF ServerReceives
  <1> SUFFICES ASSUME NEW e \in Outstanding'
               PROVE  e \in Outstanding \/ e = <<<<NoBridge, "mSendQueue">>, Len(mSendQueue) + 1>>
    OBVIOUS
  <1>2. PICK c, i : \/ \E kind \in {"queue", "up", "down"} : e = <<<<c, kind>>, i>>
                    \/ c = NoBridge /\ e = <<<<c, "mSendQueue">>, i>>
    BY OutstandingTriples
  <1>3. CASE e = <<<<c, "queue">>, i>>
    BY <1>1, <1>3, OutstandingAt, AtPlaces, AtPlacesAfter
  <1>4. CASE e = <<<<c, "up">>, i>>
    BY <1>1, <1>4, OutstandingAt, AtPlaces, AtPlacesAfter
  <1>5. CASE e = <<<<c, "down">>, i>>
    BY <1>1, <1>5, OutstandingAt, AtPlaces, AtPlacesAfter
  <1>6. CASE e = <<<<NoBridge, "mSendQueue">>, i>>
    <2>1. AnsweredIn(mSendQueue', i)
      BY <1>6, OutstandingAt, AtPlacesAfter DEF AnsweredIn
    <2>2. \A again \in BOOLEAN : ServerReceives(outcome, packet, again) =>
             AnsweredIn(mSendQueue, i) \/ (i = Len(mSendQueue) + 1 /\ packet.is = "ask")
      BY <2>1, QueuedAnswers
    <2>3. AnsweredIn(mSendQueue, i) \/ i = Len(mSendQueue) + 1
      BY <2>2
    <2> QED
      BY <1>6, <2>3, InSendQueue DEF AnsweredIn
  <1> QED
    BY <1>2, <1>3, <1>4, <1>5, <1>6

\* DoipServer answers with nothing but an answer or a refusal to a request for
\* data, which leaves the connection.
LEMMA ServerReceivesCounts ==
    ASSUME BridgesTypeOK, BridgesTypeOK', ResourceTypeOK, IsFiniteSet(Outstanding),
           NEW outcome \in tryGetResourceValue, NEW packet \in Requests,
           ServerReceives(outcome, packet, FALSE)
    PROVE  IsFiniteSet(Outstanding') /\ Cardinality(Outstanding') <= Cardinality(Outstanding)
  <1> DEFINE b == connection
             u == bridges[b].up
             new == [bridges[b] EXCEPT !.up = Tail(u)]
             from == <<b, "up">>
             item == <<<<NoBridge, "mSendQueue">>, Len(mSendQueue) + 1>>
  <1>1. b \in DOMAIN bridges
    BY DEF ServerReceives, Receives, BridgesTypeOK, NoBridge
  <1>2. bridges[b] \in Bridges
    BY <1>1 DEF BridgesTypeOK
  <1>3. new.queue = bridges[b].queue /\ new.up = Tail(u) /\ new.down = bridges[b].down
    BY <1>2 DEF Bridges
  <1>4. bridges' = [bridges EXCEPT ![b] = new]
    BY <1>1 DEF ServerReceives
  <1>5. u \in Seq(Requests) /\ u # << >> /\ 1 \in DOMAIN u /\ packet = u[1]
    BY <1>2, BridgeParts DEF ServerReceives, Receives
  <1>6. ASSUME NEW i, AnsweredIn(mSendQueue', i)
        PROVE  AnsweredIn(mSendQueue, i) \/ (i = Len(mSendQueue) + 1 /\ u[1].is = "ask")
    BY <1>5, <1>6, QueuedAnswers
  <1> HIDE DEF b, new
  <1>7. ASSUME NEW e \in Outstanding'
        PROVE  IF e[1] = from THEN <<from, e[2] + 1>> \in Outstanding
               ELSE IF e = item THEN <<from, 1>> \in Outstanding ELSE e \in Outstanding
    <2>1. ASSUME NEW i, e = <<<<b, "queue">>, i>>, AskedIn(new.queue, i)
          PROVE  e \in Outstanding /\ e[1] # from /\ e # item
      BY <1>1, <1>3, <2>1, InQueue DEF AskedIn
    <2>2. ASSUME NEW i, e = <<<<b, "up">>, i>>, AskedIn(new.up, i)
          PROVE  e[1] = from /\ <<from, e[2] + 1>> \in Outstanding
      <3>1. i + 1 \in DOMAIN u /\ u[i + 1].is = "ask"
        BY <1>3, <1>5, <2>2, TailPositions DEF AskedIn
      <3>2. <<from, i + 1>> \in Outstanding
        BY <1>1, <3>1, InUp
      <3> QED
        BY <2>2, <3>2
    <2>3. ASSUME NEW i, e = <<<<b, "down">>, i>>, AnsweredIn(new.down, i)
          PROVE  e \in Outstanding /\ e[1] # from /\ e # item
      BY <1>1, <1>3, <2>3, InDown DEF AnsweredIn
    <2>4. ASSUME NEW i, e = <<<<NoBridge, "mSendQueue">>, i>>, AnsweredIn(mSendQueue', i)
          PROVE  e[1] # from /\ (e \in Outstanding \/ e = item) /\ (e = item => <<from, 1>> \in Outstanding)
      <3>1. e[1] # from
        BY <2>4
      <3>2. CASE AnsweredIn(mSendQueue, i)
        <4>1. e \in Outstanding
          BY <2>4, <3>2, InSendQueue DEF AnsweredIn
        <4>2. i # Len(mSendQueue) + 1
          BY <3>2 DEF AnsweredIn, BridgesTypeOK
        <4> QED
          BY <2>4, <3>1, <4>1, <4>2
      <3>3. CASE i = Len(mSendQueue) + 1 /\ u[1].is = "ask"
        <4>1. <<from, 1>> \in Outstanding
          BY <1>1, <1>5, <3>3, InUp
        <4> QED
          BY <2>4, <3>1, <3>3, <4>1
      <3> QED
        BY <1>6, <2>4, <3>2, <3>3
    <2>5. ASSUME e \in Outstanding, e[1][1] # b, e[1][1] # NoBridge PROVE e[1] # from /\ e # item
      BY <2>5
    <2> HIDE DEF from, item
    <2> QED
      BY <1>1, <1>4, <2>1, <2>2, <2>3, <2>4, <2>5, OneBridgeChanges
  <1>8. \A e \in Outstanding' : e = <<e[1], e[2]>> /\ e[2] \in Nat \ {0}
    BY OutstandingTypedAfter
  <1> HIDE DEF from, item
  <1> QED
    BY <1>7, <1>8, HandledCounts

\* What DoipServer sends moves from its queue to the connection, or is lost.
LEMMA ServerSendsCounts ==
    ASSUME BridgesTypeOK, BridgesTypeOK', IsFiniteSet(Outstanding), ServerSends
    PROVE  IsFiniteSet(Outstanding') /\ Cardinality(Outstanding') <= Cardinality(Outstanding)
  <1> DEFINE b == connection
             d == bridges[b].down
             new == IF bridges[b].alive THEN [bridges[b] EXCEPT !.down = d \o mSendQueue] ELSE bridges[b]
             from == <<NoBridge, "mSendQueue">>
             to == <<b, "down">>
             n == Len(d)
  <1>1. b \in DOMAIN bridges
    BY DEF ServerSends, BridgesTypeOK, NoBridge
  <1>2. bridges[b] \in Bridges
    BY <1>1 DEF BridgesTypeOK
  <1>3. bridges' = [bridges EXCEPT ![b] = new]
    <2>1. CASE bridges[b].alive
      BY <2>1 DEF ServerSends
    <2>2. CASE ~bridges[b].alive
      <3>1. bridges = [bridges EXCEPT ![b] = bridges[b]]
        BY <1>1 DEF BridgesTypeOK
      <3> QED
        BY <2>2, <3>1, Zenon DEF ServerSends
    <2> QED
      BY <2>1, <2>2
  <1>4. /\ new.queue = bridges[b].queue /\ new.up = bridges[b].up
        /\ new.down = d \o mSendQueue \/ new.down = d
    BY <1>2 DEF Bridges
  <1>5. d \in Seq(Responses) /\ mSendQueue \in Seq(Responses) /\ n \in Nat
    BY <1>2, BridgeParts DEF BridgesTypeOK
  <1>6. DOMAIN mSendQueue' = {} /\ b # NoBridge
    BY <1>1 DEF ServerSends, BridgesTypeOK, NoBridge
  <1> HIDE DEF b, new
  <1>7. ASSUME NEW e \in Outstanding'
        PROVE  e[1] # from /\ IF e[1] = to /\ e[2] > n THEN <<from, e[2] - n>> \in Outstanding
                              ELSE e \in Outstanding
    <2>1. ASSUME NEW i, e = <<<<b, "queue">>, i>>, AskedIn(new.queue, i)
          PROVE  e \in Outstanding /\ e[1] # from /\ e[1] # to
      BY <1>1, <1>4, <2>1, InQueue DEF AskedIn
    <2>2. ASSUME NEW i, e = <<<<b, "up">>, i>>, AskedIn(new.up, i)
          PROVE  e \in Outstanding /\ e[1] # from /\ e[1] # to
      BY <1>1, <1>4, <2>2, InUp DEF AskedIn
    <2>3. ASSUME NEW i, e = <<<<b, "down">>, i>>, AnsweredIn(new.down, i)
          PROVE  /\ e[1] = to /\ e[2] = i
                 /\ IF i > n THEN <<from, i - n>> \in Outstanding ELSE e \in Outstanding
      <3>1. CASE new.down = d
        <4>1. i \in DOMAIN d /\ d[i].is = "answer"
          BY <2>3, <3>1 DEF AnsweredIn
        <4>2. ~(i > n)
          BY <1>5, <4>1
        <4>3. e \in Outstanding
          BY <1>1, <2>3, <4>1, InDown
        <4> QED
          BY <2>3, <4>2, <4>3
      <3>2. CASE new.down = d \o mSendQueue
        <4>1. i \in DOMAIN (d \o mSendQueue) /\ (d \o mSendQueue)[i].is = "answer"
          BY <2>3, <3>2 DEF AnsweredIn
        <4>2. CASE i > n
          <5>1. i - n \in DOMAIN mSendQueue /\ (d \o mSendQueue)[i] = mSendQueue[i - n]
            <6> HIDE DEF d
            <6> QED
              BY <1>5, <4>1, <4>2, ConcatPositions
          <5>2. <<from, i - n>> \in Outstanding
            BY <4>1, <5>1, InSendQueue
          <5> QED
            BY <2>3, <4>2, <5>2
        <4>3. CASE ~(i > n)
          <5>1. i \in DOMAIN d /\ (d \o mSendQueue)[i] = d[i]
            <6> HIDE DEF d
            <6> QED
              BY <1>5, <4>1, <4>3, ConcatPositions
          <5>2. e \in Outstanding
            BY <1>1, <2>3, <4>1, <5>1, InDown
          <5> QED
            BY <2>3, <4>3, <5>2
        <4> QED
          BY <4>2, <4>3
      <3> QED
        BY <1>4, <3>1, <3>2
    <2>4. ASSUME NEW i, e = <<<<NoBridge, "mSendQueue">>, i>>, AnsweredIn(mSendQueue', i) PROVE FALSE
      BY <1>6, <2>4 DEF AnsweredIn
    <2>5. ASSUME e \in Outstanding, e[1][1] # b, e[1][1] # NoBridge PROVE e[1] # from /\ e[1] # to
      BY <2>5
    <2>6. to # from
      OBVIOUS
    <2> HIDE DEF to, from, n
    <2>7. \/ \E i : e = <<<<b, "queue">>, i>> /\ AskedIn(new.queue, i)
          \/ \E i : e = <<<<b, "up">>, i>> /\ AskedIn(new.up, i)
          \/ \E i : e = <<<<b, "down">>, i>> /\ AnsweredIn(new.down, i)
          \/ \E i : e = <<<<NoBridge, "mSendQueue">>, i>> /\ AnsweredIn(mSendQueue', i)
          \/ e \in Outstanding /\ e[1][1] # b /\ e[1][1] # NoBridge
      BY <1>1, <1>3, OneBridgeChanges
    <2> QED
      BY <2>1, <2>2, <2>3, <2>4, <2>5, <2>6, <2>7
  <1>8. \A e \in Outstanding' : e = <<e[1], e[2]>> /\ e[2] \in Nat
    BY OutstandingTypedAfter
  <1> HIDE DEF from, to, n
  <1> QED
    BY <1>5, <1>7, <1>8, AppendedCounts

\* Every step keeps the count.
LEMMA CountStep ==
    ASSUME DoipInv, DoipInv', CountInv, [DoipNext]_doipVars
    PROVE  CountInv'
  <1> USE DEF DoipInv, DoipTypeOK
  <1>1. /\ IsFiniteSet(Outstanding) /\ Cardinality(Outstanding) \in Nat
        /\ asked \in Nat /\ answered \in Nat /\ stale \in Nat
    BY FS_CardinalityType DEF CountInv
  <1>2. ASSUME Outstanding' \subseteq Outstanding, UNCHANGED testerVars PROVE CountInv'
    BY <1>1, <1>2, FS_Subset, CountKept
  <1>3. CASE UNCHANGED <<bridges, mSendQueue, testerVars>>
    <2>1. Outstanding' = Outstanding
      BY <1>3 DEF Outstanding, Places, PacketsAt, Awaited
    <2> QED
      BY <1>2, <1>3, <2>1
  <1>4. CASE DestroyBridge
    BY <1>2, <1>4, DestroyBridgeCounts DEF DestroyBridge
  <1>5. ASSUME NEW hardware \in BOOLEAN, ConnectBridge(hardware) PROVE CountInv'
    BY <1>2, <1>5, ConnectBridgeCounts DEF ConnectBridge
  <1>6. ASSUME NEW x, Outstanding' \subseteq Outstanding \cup {x}, answered' = answered,
               asked' + stale' = asked + stale + 1, asked' \in Nat, stale' \in Nat
        PROVE  CountInv'
    <2>1. /\ IsFiniteSet(Outstanding \cup {x})
          /\ Cardinality(Outstanding \cup {x}) \in Nat
          /\ Cardinality(Outstanding \cup {x}) <= Cardinality(Outstanding) + 1
      <3>1. /\ IsFiniteSet(Outstanding \cup {x})
            /\ Cardinality(Outstanding \cup {x}) =
                  IF x \in Outstanding THEN Cardinality(Outstanding) ELSE Cardinality(Outstanding) + 1
        BY <1>1, FS_AddElement
      <3> QED
        BY <1>1, <3>1
    <2>2. IsFiniteSet(Outstanding') /\ Cardinality(Outstanding') <= Cardinality(Outstanding \cup {x})
      BY <1>6, <2>1, FS_Subset
    <2>3. Cardinality(Outstanding') \in Nat
      BY <2>2, FS_CardinalityType
    <2>4. answered + Cardinality(Outstanding) <= asked + stale
      BY DEF CountInv, AnsweredOnce
    <2>5. answered' + Cardinality(Outstanding') <= asked' + stale'
      <3>1. Cardinality(Outstanding') <= Cardinality(Outstanding) + 1
        BY <1>1, <2>1, <2>2, <2>3
      <3>2. asked' + stale' = asked + stale + 1 /\ answered' = answered
        BY <1>6
      <3>3. answered + Cardinality(Outstanding') <= answered + Cardinality(Outstanding) + 1
        BY <1>1, <2>3, <3>1
      <3>4. answered + Cardinality(Outstanding) + 1 <= asked + stale + 1
        BY <1>1, <2>4
      <3>5. answered + Cardinality(Outstanding') <= asked + stale + 1
        BY <1>1, <2>3, <3>3, <3>4
      <3> QED
        BY <3>2, <3>5
    <2> QED
      BY <2>2, <2>5 DEF CountInv, AnsweredOnce
  <1>7. ASSUME NEW b \in DOMAIN bridges, Ask(b) PROVE CountInv'
    <2>1. asked' = asked + 1 /\ answered' = answered /\ stale' = stale
      BY <1>7 DEF Ask
    <2>2. asked' + stale' = asked + stale + 1 /\ asked' \in Nat /\ stale' \in Nat
      BY <1>1, <2>1
    <2>3. Outstanding' \subseteq Outstanding \cup {<<<<b, "queue">>, Len(bridges[b].queue) + 1>>}
      BY <1>7, AskCounts
    <2> QED
      BY <1>6, <2>1, <2>2, <2>3
  <1>8. ASSUME NEW b \in DOMAIN bridges, ClientSends(b) PROVE CountInv'
    BY <1>1, <1>8, ClientSendsCounts, CountKept DEF ClientSends
  <1>9. ASSUME NEW b \in DOMAIN bridges, ClientReceives(b) PROVE CountInv'
    <2> DEFINE head == <<<<b, "down">>, 1>>
    <2>1. /\ IsFiniteSet(Outstanding')
          /\ Cardinality(Outstanding') <= Cardinality(Outstanding \ {head})
          /\ Head(bridges[b].down).is = "answer" => head \in Outstanding
      BY <1>1, <1>9, ClientReceivesCounts
    <2> HIDE DEF head
    <2>2. Cardinality(Outstanding \ {head}) =
             IF head \in Outstanding THEN Cardinality(Outstanding) - 1 ELSE Cardinality(Outstanding)
      BY <1>1, FS_RemoveElement
    <2>3. Cardinality(Outstanding') \in Nat
      BY <2>1, FS_CardinalityType
    <2>4. /\ asked' = asked /\ stale' = stale
          /\ answered' = IF Head(bridges[b].down).is = "answer" THEN answered + 1 ELSE answered
      BY <1>9 DEF ClientReceives, ClientHandles, tryParseUdsData
    <2> QED
      BY <1>1, <2>1, <2>2, <2>3, <2>4 DEF CountInv, AnsweredOnce
  <1>10. ASSUME NEW b \in DOMAIN bridges, ClientRepeats(b) PROVE CountInv'
    <2> DEFINE new == [bridges[b] EXCEPT
                          !.mLogicalAddress = bridges[b].mLogicalAddress \/ clientBuffer.is = "idResponse"]
    <2>1. bridges' = [bridges EXCEPT ![b] = new] /\ mSendQueue' = mSendQueue
      BY <1>10 DEF ClientRepeats, ClientHandles, serverVars, BridgesTypeOK
    <2>2. new.queue = bridges[b].queue /\ new.up = bridges[b].up /\ new.down = bridges[b].down
      BY DEF BridgesTypeOK, Bridges
    <2> HIDE DEF new
    <2>3. Outstanding' \subseteq Outstanding
      <3> SUFFICES ASSUME NEW e \in Outstanding' PROVE e \in Outstanding
        OBVIOUS
      <3>1. \/ \E i : e = <<<<b, "queue">>, i>> /\ AskedIn(bridges[b].queue, i)
            \/ \E i : e = <<<<b, "up">>, i>> /\ AskedIn(bridges[b].up, i)
            \/ \E i : e = <<<<b, "down">>, i>> /\ AnsweredIn(bridges[b].down, i)
            \/ \E i : e = <<<<NoBridge, "mSendQueue">>, i>> /\ AnsweredIn(mSendQueue, i)
            \/ e \in Outstanding
        BY <2>1, <2>2, OneBridgeChanges
      <3> QED
        BY <3>1, InQueue, InUp, InDown, InSendQueue DEF AskedIn, AnsweredIn
    <2>4. IsFiniteSet(Outstanding') /\ Cardinality(Outstanding') <= Cardinality(Outstanding)
      BY <1>1, <2>3, FS_Subset
    <2>5. Cardinality(Outstanding') \in Nat
      BY <2>4, FS_CardinalityType
    <2>6. asked' = asked /\ stale' = stale + 1 /\ answered' \in {answered, answered + 1}
      BY <1>10 DEF ClientRepeats, ClientHandles
    <2> QED
      BY <1>1, <2>4, <2>5, <2>6 DEF CountInv, AnsweredOnce
  <1>11. ASSUME NEW outcome \in tryGetResourceValue, NEW packet \in Requests, NEW again \in BOOLEAN,
                ServerReceives(outcome, packet, again)
         PROVE  CountInv'
    <2>1. CASE again = TRUE
      <3>1. asked' = asked /\ answered' = answered /\ stale' = stale + 1
        BY <1>11, <2>1 DEF ServerReceives
      <3>2. asked' + stale' = asked + stale + 1 /\ asked' \in Nat /\ stale' \in Nat
        BY <1>1, <3>1
      <3>3. Outstanding' \subseteq Outstanding \cup {<<<<NoBridge, "mSendQueue">>, Len(mSendQueue) + 1>>}
        BY <1>11, <2>1, ServerRepeatsCounts
      <3> QED
        BY <1>6, <3>1, <3>2, <3>3
    <2>2. CASE again = FALSE
      <3>1. UNCHANGED testerVars
        BY <1>11, <2>2 DEF ServerReceives, testerVars
      <3> QED
        BY <1>1, <1>11, <2>2, <3>1, ServerReceivesCounts, CountKept
    <2> QED
      BY <2>1, <2>2
  <1>12. CASE \E packet \in Requests, again \in BOOLEAN : VehicleAborts(packet, again)
    <2>1. bridges' = bridges /\ mSendQueue' = << >> /\ UNCHANGED testerVars
      BY <1>12 DEF VehicleAborts, bridgeVars
    <2>2. Outstanding' \subseteq Outstanding
      BY <2>1 DEF Outstanding, Places, PacketsAt, Awaited
    <2> QED
      BY <1>2, <2>1, <2>2
  <1>13. CASE ServerSends
    BY <1>1, <1>13, ServerSendsCounts, CountKept DEF ServerSends
  <1> QED
    BY <1>3, <1>4, <1>5, <1>7, <1>8, <1>9, <1>10, <1>11, <1>12, <1>13
       DEF DoipNext, doipVars, serverVars, bridgeVars, testerVars, MainStarts, checkServiceDiscovery,
           MainReturns, DestroyMonitor, SdClientStep, TimerExpires, EndpointFails, ConnectFails,
           AskService, Tick, ResourceChanges

\* However many bridges are made and left behind, and to whichever connection
\* DoipServer sends: the tester gets no more answers than it has asked for, and one
\* more at the most for each packet that a failed Receive has handled again.
THEOREM NoSecondAnswer == DoipSpec => []AnsweredOnce
  <1>1. DoipInit => DoipInv /\ CountInv
    <2> SUFFICES ASSUME DoipInit PROVE DoipInv /\ CountInv
      OBVIOUS
    <2>1. bridges = << >> /\ mSendQueue = << >> /\ asked = 0 /\ answered = 0 /\ stale = 0
      BY DEF DoipInit, ServerInit
    <2>2. Outstanding = {}
      BY <2>1 DEF Outstanding, Places, PacketsAt
    <2> QED
      BY <2>1, <2>2, DoipStarts, FS_EmptySet DEF DoipInv, CountInv, AnsweredOnce
  <1>2. DoipInv /\ CountInv /\ [DoipNext]_doipVars => DoipInv' /\ CountInv'
    BY DoipStep, CountStep
  <1>3. CountInv => AnsweredOnce
    BY DEF CountInv
  <1> QED
    BY <1>1, <1>2, <1>3, PTL DEF DoipSpec

=============================================================================
