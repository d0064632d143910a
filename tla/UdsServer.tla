----------------------------- MODULE UdsServer -----------------------------
(***************************************************************************)
(* The UDS server of ara::diag: a router hands each request to the service *)
(* of its id.  Security access gives out seeds, compares keys and delays   *)
(* after too many failures; download and upload configure the one transfer *)
(* that transfer data moves block by block and the exit ends; ECU reset    *)
(* remembers what was asked for.  Requests are handled one at a time, next *)
(* to the thread of the delay timer.                                       *)
(***************************************************************************)
EXTENDS Naturals

CONSTANTS
    Routers,           \* the services that a router may start with
    Managed,           \* the services that the owner may add, offer and withdraw
    Levels,            \* odd sub-functions that are not reserved
    MaxSeed,           \* 65535
    MaxByte,           \* 255
    PoolSize,          \* 1024
    ResetTypes,
    MetaInfos          \* what a request may come with

Services == {"SecurityAccess", "Download", "Upload", "TransferData", "TransferExit", "EcuReset",
             "GenericRoutine"}
Keys == {"Encryptor", "AttemptThreshold", "ExceededAttemptDelay", "MaxNumberOfBlockLength",
         "PowerDownTime"}

ASSUME ServiceAssumption ==
    /\ Routers \subseteq SUBSET Services /\ Managed \subseteq Services
    /\ MetaInfos \subseteq [keys : SUBSET Keys, threshold : Nat]
ASSUME WidthAssumption ==
    /\ MaxSeed \in Nat /\ MaxSeed > 0 /\ MaxByte \in Nat /\ MaxByte > 0
    /\ PoolSize \in Nat

VARIABLES
    mServices,              \* UdsServiceRouter::mServices
    mOffered,               \* of each RoutableUdsService
    response,               \* of the last request
    terminated,             \* whether the process has ended
    mSeed,                  \* SecurityAccess: the next seed
    mSecurityLevels,
    mFailedUnlockAttempt,
    mDelayTimer,            \* idle, starting, active, or finished and not joined
    spinning,               \* the request thread waits for the timer to start
    mTransferDirection,     \* TransferData
    mMemory,                \* mMemoryAddress and mMemorySize
    mCurrentBlockSequenceCounter,
    mNextBlockSequenceCounter,
    mResetType,             \* EcuResetRequest
    mRapidShutdownEnabled,
    wrong,                  \* history: wrong keys since the last delay, up to MaxByte + 1
    loosest,                \* history: the loosest limit that one of them came with
    moved                   \* history: the last block of this transfer

routerVars == <<mServices, mOffered>>
timerVars == <<mDelayTimer, spinning>>
securityVars == <<mSeed, mSecurityLevels, mFailedUnlockAttempt, timerVars, wrong, loosest>>
transferVars == <<mTransferDirection, mMemory, mCurrentBlockSequenceCounter,
                  mNextBlockSequenceCounter, moved>>
resetVars == <<mResetType, mRapidShutdownEnabled>>
vars == <<routerVars, response, terminated, securityVars, transferVars, resetVars>>

None == "none"
\* The table is indexed by the sub-function, whose suppress bit is kept.
SubFunctions == [level : Levels, suppress : BOOLEAN]
SecurityLevel == [Unlocked : BOOLEAN, Seed : 1 .. MaxSeed]
NoLevel == [Seed |-> 0]
Nrcs == {"ServiceNotSupported", "SubFunctionNotSupported", "IncorrectMessageLength",
         "RequestSequenceError", "InvalidKey", "ExceededNumberOfAttempts", "GeneralReject",
         "WrongBlockSequenceCounter", "UploadDownloadNotAccepted", "RequestOutOfRange"}

TypeOK ==
    /\ mServices \subseteq Services /\ mOffered \subseteq Services
    /\ response \in Nrcs \cup {"positive", "suppressed", "exception", None}
    /\ terminated \in BOOLEAN
    /\ mSeed \in 1 .. MaxSeed
    /\ mSecurityLevels \in [SubFunctions -> SecurityLevel \cup {NoLevel}]
    /\ mFailedUnlockAttempt \in 0 .. MaxByte
    /\ mDelayTimer \in {"idle", "starting", "active", "finished"} /\ spinning \in BOOLEAN
    /\ mTransferDirection \in {"Download", "Upload", None}
    /\ mMemory \in [address : 0 .. PoolSize, size : 0 .. PoolSize]
    /\ mCurrentBlockSequenceCounter \in 0 .. MaxByte
    /\ mNextBlockSequenceCounter \in 0 .. MaxByte
    /\ mResetType \in ResetTypes \cup {None} /\ mRapidShutdownEnabled \in BOOLEAN
    /\ wrong \in 0 .. MaxByte + 1 /\ loosest \in 0 .. MaxByte
    /\ moved \in 0 .. MaxByte \cup {MaxByte + 1}

NoBlock == MaxByte + 1

Init ==
    /\ mServices \in Routers /\ mOffered = Services
    /\ response = None /\ terminated = FALSE
    /\ mSeed = 1 /\ mSecurityLevels = [s \in SubFunctions |-> NoLevel]
    /\ mFailedUnlockAttempt = 0 /\ mDelayTimer = "idle" /\ spinning = FALSE
    /\ mTransferDirection = None /\ mMemory = [address |-> 0, size |-> 0]
    /\ mCurrentBlockSequenceCounter = 1 /\ mNextBlockSequenceCounter = 1
    /\ mResetType = None /\ mRapidShutdownEnabled = FALSE
    /\ wrong = 0 /\ loosest = 0 /\ moved = NoBlock

-----------------------------------------------------------------------------
(* RoutableUdsService and UdsServiceRouter *)

\* Offer refuses a service that is offered; whoever is offered is not removed.
Offer(s) ==
    /\ ~terminated /\ s \notin mOffered
    /\ mOffered' = mOffered \cup {s}
    /\ UNCHANGED <<mServices, response, terminated, securityVars, transferVars, resetVars>>

StopOffer(s) ==
    /\ ~terminated
    /\ mOffered' = mOffered \ {s}
    /\ UNCHANGED <<mServices, response, terminated, securityVars, transferVars, resetVars>>

AddService(s) ==
    /\ ~terminated
    /\ mServices' = mServices \cup {s}
    /\ UNCHANGED <<mOffered, response, terminated, securityVars, transferVars, resetVars>>

RemoveService(s) ==
    /\ ~terminated
    /\ mServices' = mServices \ {s}
    /\ UNCHANGED <<mOffered, response, terminated, securityVars, transferVars, resetVars>>

\* Route finds the service and calls HandleMessage, when the thread that handles
\* requests is not held up by the last one ...
Ready == ~terminated /\ ~spinning

Route(s) == Ready /\ s \in mServices \cap mOffered /\ UNCHANGED routerVars

GenerateNegativeResponse(nrc) == response' = nrc /\ UNCHANGED terminated

Respond(r) == response' = r /\ UNCHANGED terminated

\* ... answers for one that is not there, and throws for an empty request.
RouteNowhere ==
    /\ Ready
    /\ \/ mServices \cap mOffered # Services /\ GenerateNegativeResponse("ServiceNotSupported")
       \/ Respond("exception")
    /\ UNCHANGED <<routerVars, securityVars, transferVars, resetVars>>

\* Every service but the exit of a transfer wants more bytes than it indexes.
TooShort(s) ==
    /\ Route(s)
    /\ GenerateNegativeResponse("IncorrectMessageLength")
    /\ UNCHANGED <<securityVars, transferVars, resetVars>>

-----------------------------------------------------------------------------
(* SecurityAccess *)

\* hasProblem: the sub-function is reserved, or the delay is running.
hasProblem ==
    /\ Route("SecurityAccess")
    /\ \/ GenerateNegativeResponse("SubFunctionNotSupported")
       \/ mDelayTimer = "active" /\ GenerateNegativeResponse("ExceededNumberOfAttempts")
       \/ GenerateNegativeResponse("GeneralReject")   \* and the request was cancelled
    /\ UNCHANGED <<securityVars, transferVars, resetVars>>

\* tryFetchSeed: a level that has been asked for keeps its seed.
tryFetchSeed(s) == mSecurityLevels[s] # NoLevel

addLevel(s) ==
    /\ mSecurityLevels' = [mSecurityLevels EXCEPT ![s] = [Unlocked |-> FALSE, Seed |-> mSeed]]
    /\ mSeed' = IF mSeed = MaxSeed THEN 1 ELSE mSeed + 1

handleRequestSeed(s) ==
    /\ Route("SecurityAccess") /\ mDelayTimer # "active"
    /\ IF tryFetchSeed(s) THEN UNCHANGED <<mSecurityLevels, mSeed>> ELSE addLevel(s)
    /\ Respond(IF s.suppress THEN "suppressed" ELSE "positive")
    /\ UNCHANGED <<mFailedUnlockAttempt, timerVars, wrong, loosest, transferVars, resetVars>>

\* handleSendKey before the seed was asked for.
SendKeyFirst(s) ==
    /\ Route("SecurityAccess") /\ mDelayTimer # "active"
    /\ ~tryFetchSeed(s)
    /\ GenerateNegativeResponse("RequestSequenceError")
    /\ UNCHANGED <<securityVars, transferVars, resetVars>>

\* CompareKey: a key is written as the seed which it is the cipher of.
CompareKey(s, key, m) == "Encryptor" \in m.keys /\ key = mSecurityLevels[s].Seed

\* handlePassedAttempt means to lock the other levels, and locks copies of them.
handlePassedAttempt(s, m) ==
    /\ Route("SecurityAccess") /\ mDelayTimer # "active"
    /\ tryFetchSeed(s) /\ CompareKey(s, mSecurityLevels[s].Seed, m)
    /\ mSecurityLevels' = [mSecurityLevels EXCEPT ![s].Unlocked = TRUE]
    /\ Respond(IF s.suppress THEN "suppressed" ELSE "positive")
    /\ UNCHANGED <<mSeed, mFailedUnlockAttempt, timerVars, wrong, loosest, transferVars, resetVars>>

\* The threshold is read as an int and kept in eight bits.
HasThreshold(m) == {"AttemptThreshold", "ExceededAttemptDelay"} \subseteq m.keys

Threshold(m) == m.threshold % (MaxByte + 1)

\* History: a wrong key was refused that came with m.  Without a threshold
\* there is no limit; nor with the largest one, which no byte exceeds.
Refused(m) ==
    LET limit == IF HasThreshold(m) THEN Threshold(m) ELSE MaxByte
    IN  /\ wrong' = IF wrong > MaxByte THEN wrong ELSE wrong + 1
        /\ loosest' = IF limit > loosest THEN limit ELSE loosest

\* DelayTimer::Start makes a thread and spins until the timer is active.  The
\* thread of an earlier delay was never joined, and assigning to it ends the
\* process.
StartTimer ==
    /\ UNCHANGED response
    /\ IF mDelayTimer = "finished"
       THEN terminated' = TRUE /\ UNCHANGED timerVars
       ELSE mDelayTimer' = "starting" /\ spinning' = TRUE /\ UNCHANGED terminated

\* Mutant: the attempts are counted, and never compared.
handleFailedAttemptForgives(s, key, m) ==
    /\ Route("SecurityAccess") /\ mDelayTimer # "active"
    /\ tryFetchSeed(s) /\ ~CompareKey(s, key, m)
    /\ mFailedUnlockAttempt' = (mFailedUnlockAttempt + 1) % (MaxByte + 1)
    /\ GenerateNegativeResponse("InvalidKey")
    /\ Refused(m)
    /\ UNCHANGED <<mSeed, mSecurityLevels, timerVars, transferVars, resetVars>>

\* handleFailedAttempt counts when the meta-info says how often is too often.
handleFailedAttempt(s, key, m) ==
    /\ Route("SecurityAccess") /\ mDelayTimer # "active"
    /\ tryFetchSeed(s) /\ ~CompareKey(s, key, m)
    /\ mFailedUnlockAttempt' = IF HasThreshold(m) THEN (mFailedUnlockAttempt + 1) % (MaxByte + 1)
                                                  ELSE mFailedUnlockAttempt
    /\ IF HasThreshold(m) /\ mFailedUnlockAttempt' > Threshold(m)
       THEN StartTimer /\ wrong' = 0 /\ loosest' = 0
       ELSE GenerateNegativeResponse("InvalidKey") /\ Refused(m) /\ UNCHANGED timerVars
    /\ UNCHANGED <<mSeed, mSecurityLevels, transferVars, resetVars>>

\* The thread of the timer: it takes the lock, by which it is active, waits as
\* long as it was told, which may be no time at all, or until it is woken ...
delay ==
    /\ ~terminated
    /\ \/ mDelayTimer = "starting" /\ mDelayTimer' = "active"
       \/ mDelayTimer = "active" /\ mDelayTimer' = "finished"
    /\ UNCHANGED <<routerVars, response, terminated, mSeed, mSecurityLevels, mFailedUnlockAttempt,
                   spinning, wrong, loosest, transferVars, resetVars>>

\* ... and the request goes on if it looks in the meantime, forgets the failed
\* attempts, and looks again for its answer.  If it does not, it spins for ever.
TimerStarted ==
    /\ ~terminated /\ spinning /\ mDelayTimer = "active"
    /\ spinning' = FALSE /\ mFailedUnlockAttempt' = 0
    /\ \/ GenerateNegativeResponse("ExceededNumberOfAttempts") /\ UNCHANGED mDelayTimer
       \/ GenerateNegativeResponse("InvalidKey") /\ mDelayTimer' = "finished"
    /\ UNCHANGED <<routerVars, mSeed, mSecurityLevels, wrong, loosest, transferVars, resetVars>>

-----------------------------------------------------------------------------
(* RequestTransfer (DownloadService, UploadService), TransferData and exit *)

\* TryParseLengthFormat: compressed or encrypted, or other lengths than two.
TransferOutOfRange(s) ==
    /\ Route(s)
    /\ GenerateNegativeResponse("RequestOutOfRange")
    /\ UNCHANGED <<securityVars, transferVars, resetVars>>

FitsPool(address, size) == address < PoolSize /\ size > 0 /\ address + size <= PoolSize

TrySetTransferConfiguration(direction, address, size) ==
    /\ mTransferDirection = None /\ FitsPool(address, size)
    /\ mTransferDirection' = direction
    /\ mMemory' = [address |-> address, size |-> size]
    /\ moved' = NoBlock

\* RequestDataTransfer configures before the answer is put together: without
\* the maximum length of a block the answer is negative and the transfer open.
RequestDataTransfer(s, address, size, m) ==
    /\ Route(s)
    /\ \/ /\ TrySetTransferConfiguration(s, address, size)
          /\ Respond(IF "MaxNumberOfBlockLength" \in m.keys THEN "positive"
                                                              ELSE "UploadDownloadNotAccepted")
       \/ /\ ~(mTransferDirection = None /\ FitsPool(address, size))
          /\ GenerateNegativeResponse("UploadDownloadNotAccepted")
          /\ UNCHANGED <<mTransferDirection, mMemory, moved>>
    /\ UNCHANGED <<securityVars, mCurrentBlockSequenceCounter, mNextBlockSequenceCounter, resetVars>>

tryValidateSequenceCounter(counter) ==
    counter \in {mCurrentBlockSequenceCounter, mNextBlockSequenceCounter}

\* A block is moved.  A download takes mMemorySize bytes of the request, however
\* many there are.
tryTransfer(counter) ==
    /\ Route("TransferData")
    /\ mTransferDirection # None /\ tryValidateSequenceCounter(counter)
    /\ mCurrentBlockSequenceCounter' = counter
    /\ mNextBlockSequenceCounter' = (counter + 1) % (MaxByte + 1)
    /\ moved' = counter
    /\ \/ Respond("positive")
       \/ mTransferDirection = "Download" /\ terminated' = TRUE /\ UNCHANGED response
    /\ UNCHANGED <<mTransferDirection, mMemory, securityVars, resetVars>>

tryTransferFails(counter) ==
    /\ Route("TransferData")
    /\ \/ mTransferDirection = None /\ GenerateNegativeResponse("RequestSequenceError")
       \/ /\ mTransferDirection # None /\ ~tryValidateSequenceCounter(counter)
          /\ GenerateNegativeResponse("WrongBlockSequenceCounter")
    /\ UNCHANGED <<securityVars, transferVars, resetVars>>

\* Mutant: the counters stay where the transfer left them.
TryResetTransferConfigurationKeeps ==
    /\ Route("TransferExit") /\ mTransferDirection # None
    /\ mTransferDirection' = None
    /\ Respond("positive")
    /\ UNCHANGED <<securityVars, mMemory, mCurrentBlockSequenceCounter, mNextBlockSequenceCounter,
                   moved, resetVars>>

TryResetTransferConfiguration ==
    /\ Route("TransferExit") /\ mTransferDirection # None
    /\ mTransferDirection' = None
    /\ mCurrentBlockSequenceCounter' = 1 /\ mNextBlockSequenceCounter' = 1
    /\ Respond("positive")
    /\ UNCHANGED <<securityVars, mMemory, moved, resetVars>>

TransferExitFails ==
    /\ Route("TransferExit") /\ mTransferDirection = None
    /\ GenerateNegativeResponse("RequestSequenceError")
    /\ UNCHANGED <<securityVars, transferVars, resetVars>>

-----------------------------------------------------------------------------
(* EcuResetRequest and GenericRoutine *)

\* RequestReset: the first request stands; ExecuteReset only ever throws.
RequestReset(type) ==
    /\ Route("EcuReset")
    /\ IF mResetType = None
       THEN mResetType' = type /\ Respond("positive")
       ELSE GenerateNegativeResponse("SubFunctionNotSupported") /\ UNCHANGED mResetType
    /\ UNCHANGED <<securityVars, transferVars, mRapidShutdownEnabled>>

\* Enabling answers with the time of the power-down, and enables without it too.
EnableRapidShutdown(enable, m) ==
    /\ Route("EcuReset")
    /\ mRapidShutdownEnabled' = enable
    /\ Respond(IF enable /\ "PowerDownTime" \notin m.keys THEN "SubFunctionNotSupported"
                                                            ELSE "positive")
    /\ UNCHANGED <<securityVars, transferVars, mResetType>>

\* Another sub-function than those.
OtherSubFunction ==
    /\ Route("EcuReset")
    /\ GenerateNegativeResponse("SubFunctionNotSupported")
    /\ UNCHANGED <<securityVars, transferVars, resetVars>>

-----------------------------------------------------------------------------
(* GenericRoutine *)

\* HandleMessage chooses between start, stop and results, which the user of the
\* class defines, and refuses other sub-functions.
RoutineControl ==
    /\ Route("GenericRoutine")
    /\ GenerateNegativeResponse("SubFunctionNotSupported") \/ Respond("positive")
    /\ UNCHANGED <<securityVars, transferVars, resetVars>>

-----------------------------------------------------------------------------
Next ==
    \/ \E s \in Managed : Offer(s) \/ StopOffer(s) \/ AddService(s) \/ RemoveService(s)
    \/ RouteNowhere
    \/ \E s \in Services \ {"TransferExit"} : TooShort(s)
    \/ hasProblem \/ delay \/ TimerStarted
    \/ \E s \in SubFunctions : handleRequestSeed(s) \/ SendKeyFirst(s)
    \/ \E s \in SubFunctions, m \in MetaInfos :
          \/ handlePassedAttempt(s, m)
          \/ \E key \in 0 .. MaxSeed : handleFailedAttempt(s, key, m)
    \/ \E s \in {"Download", "Upload"} :
          \/ TransferOutOfRange(s)
          \/ \E a, n \in 0 .. PoolSize, m \in MetaInfos : RequestDataTransfer(s, a, n, m)
    \/ \E c \in 0 .. MaxByte : tryTransfer(c) \/ tryTransferFails(c)
    \/ TryResetTransferConfiguration \/ TransferExitFails
    \/ \E t \in ResetTypes : RequestReset(t)
    \/ \E b \in BOOLEAN, m \in MetaInfos : EnableRapidShutdown(b, m)
    \/ OtherSubFunction \/ RoutineControl
    \/ terminated /\ UNCHANGED vars

Spec == Init /\ [][Next]_vars

-----------------------------------------------------------------------------
(* Properties *)

\* However requests with their different meta-infos, delays and changes of the
\* offer are interleaved, the wrong keys refused between two delays are no more
\* than the loosest threshold that one of them came with: what is counted
\* survives seeds, successes, other services and a stricter or looser request.
\* As soon as one came without a threshold, or with the largest there is, they
\* are unlimited until the next delay.
FailuresAreLimited == loosest < MaxByte => wrong <= loosest

\* The blocks of a transfer begin with one, and each repeats or follows the one
\* before, through the wrap of the counter; nothing of an earlier transfer is
\* accepted.
BlocksInOrder ==
    [][moved' # moved /\ moved' # NoBlock =>
          moved' = IF moved = NoBlock THEN 1 ELSE (moved + 1) % (MaxByte + 1)]_vars

=============================================================================
