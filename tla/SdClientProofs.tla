--------------------------- MODULE SdClientProofs ---------------------------
(***************************************************************************)
(* Proofs about the service-discovery client, for every RepetitionsMax and *)
(* with or without spurious wakeups.                                       *)
(***************************************************************************)
EXTENDS SdClient, TLAPS

\* The points of waitForNextState, which only the four waiting states run.
Waiting ==
    pc \in {"test", "signal", "predicate", "blocking", "blocked", "expiration",
            "timed", "woken", "decide"}
    => mCurrentState \in {"ServiceNotSeen", "ServiceSeen", "ServiceReady", "Stopped"}

\* How far a search has got bounds the Finds it sent.
FindsOfPhase ==
    /\ mCurrentState = "InitialWaitPhase" => finds = 0
    /\ mCurrentState = "RepetitionPhase" => finds <= 1 + i
    /\ finds <= 1 + RepetitionsMax

\* The destructor disposes the entry state after it invalidated the client, and
\* only the disposed entry state ends the agent.
DisposedOnlyByDestructor ==
    /\ app = "disposeState" => ~mValidState
    /\ mNotseenDisposing => ~mValidState
    /\ pc = "exited" => mNotseenDisposing /\ mCurrentState = "ServiceNotSeen"

\* No setter is between its assignment and its signal.
NoSetterHalfway ==
    app \notin {"starting", "stopping", "cancelling"} /\ net # "signal"

\* From the test of the timer to the end of WaitForSignal a change of the timer
\* shows in the flag.
ChangeIsFlagged ==
    pc \in {"signal", "predicate", "blocking", "blocked"} /\ ~Stays /\ NoSetterHalfway
    => mSignalFlag

\* The inductive invariant.
IInv == TypeOK /\ Waiting /\ FindsOfPhase /\ DisposedOnlyByDestructor /\ ChangeIsFlagged

-----------------------------------------------------------------------------
(* The typing of the steps *)

\* A notify on either condition variable leaves the waiting thread well-formed.
LEMMA TypeNotify ==
    ASSUME TypeOK, NEW cv \in {"Offered", "Stopped"}, Notify(cv)
    PROVE  waiter' \in WaiterType
BY DEF TypeOK, Notify, WaiterType

\* Every step of the agent, the state machine of the client, keeps the types.
LEMMA TypeAgent == ASSUME TypeOK, Waiting, Agent PROVE TypeOK'
<1> USE DEF TypeOK, timerVars, ownerVars, Transit, SdClientState
<1>1. CASE RequestService
  BY <1>1 DEF RequestService
<1>2. CASE ActivateNotSeen
  <2>1. Notify("Stopped")
    BY <1>2 DEF ActivateNotSeen
  <2>2. waiter' \in WaiterType
    BY <2>1, TypeNotify
  <2> QED BY <1>2, <2>2 DEF ActivateNotSeen
<1>3. CASE ActivateWaiting
  <2>1. \E cv \in {"Offered", "Stopped"} : Notify(cv)
    BY <1>3 DEF ActivateWaiting
  <2>2. waiter' \in WaiterType
    BY <2>1, TypeNotify
  <2>3. expired' \in BOOLEAN
    BY <1>3 DEF ActivateWaiting
  <2> QED BY <1>3, <2>2, <2>3 DEF ActivateWaiting
<1>4. CASE TestTimer
  BY <1>4 DEF TestTimer
<1>5. CASE WaitForSignal
  BY <1>5 DEF WaitForSignal
<1>6. CASE TestFlag
  <2>1. mSignalFlag' \in BOOLEAN
    BY <1>6 DEF TestFlag
  <2> QED BY <1>6, <2>1 DEF TestFlag
<1>7. CASE Block
  BY <1>7 DEF Block
<1>8. CASE WaitForExpiration
  <2>1. expired' \in BOOLEAN
    BY <1>8 DEF WaitForExpiration
  <2> QED BY <1>8, <2>1 DEF WaitForExpiration
<1>9. CASE TtlTimeout
  <2>1. expired' \in BOOLEAN
    BY <1>9 DEF TtlTimeout
  <2>2. mSignalFlag' \in BOOLEAN
    BY <1>9 DEF TtlTimeout
  <2> QED BY <1>9, <2>1, <2>2 DEF TtlTimeout
<1>10. CASE TtlReset
  <2>1. expired' \in BOOLEAN
    BY <1>10 DEF TtlReset
  <2>2. mSignalFlag' \in BOOLEAN
    BY <1>10 DEF TtlReset
  <2> QED BY <1>10, <2>1, <2>2 DEF TtlReset
<1>11. CASE Decide
  <2>1. NextState \in SdClientState
    BY <1>11 DEF Waiting, NextState, NotSeenNext, SeenNext, ReadyNext, StoppedNext, Decide
  <2> QED BY <1>11, <2>1 DEF Decide
<1>12. CASE ActivateInitialWait
  BY <1>12, RepetitionsAssumption DEF ActivateInitialWait
<1>13. CASE ActivateRepetition
  BY <1>13, RepetitionsAssumption DEF ActivateRepetition, RepetitionsDone
<1> QED
  BY <1>1, <1>2, <1>3, <1>4, <1>5, <1>6, <1>7, <1>8, <1>9, <1>10, <1>11, <1>12, <1>13
  DEF Agent

\* Every step of the owning thread keeps the types.
LEMMA TypeOwner == ASSUME TypeOK, Owner PROVE TypeOK'
<1> USE DEF TypeOK, timerVars, agentVars, SdClientState
<1>1. CASE Start \/ Stop \/ Cancel
  <2>1. mRequested' \in BOOLEAN
    BY <1>1 DEF Start, Stop, Cancel
  <2> QED BY <1>1, <2>1 DEF Start, Stop, Cancel
<1>2. CASE StartSignal \/ StopSignal \/ CancelSignal
  <2>1. mSignalFlag' \in BOOLEAN
    BY <1>2 DEF StartSignal, StopSignal, CancelSignal, Signal
  <2> QED BY <1>2, <2>1 DEF StartSignal, StopSignal, CancelSignal, Signal
<1>3. CASE Launch
  BY <1>3 DEF Launch
<1>4. CASE TryGetOfferedEndpoint \/ GotEndpoint
  BY <1>4 DEF TryGetOfferedEndpoint, GotEndpoint
<1>5. CASE Destroy
  <2>1. waiter' \in WaiterType
    BY <1>5 DEF Destroy, WaiterType
  <2>2. mValidState' \in BOOLEAN
    BY <1>5 DEF Destroy
  <2> QED BY <1>5, <2>1, <2>2 DEF Destroy
<1>6. CASE DisposeState \/ DisposeTimer \/ Join
  <2>1. mNotseenDisposing' \in BOOLEAN /\ mDisposing' \in BOOLEAN
    BY <1>6 DEF DisposeState, DisposeTimer, Join
  <2> QED BY <1>6, <2>1 DEF DisposeState, DisposeTimer, Join
<1> QED BY <1>1, <1>2, <1>3, <1>4, <1>5, <1>6 DEF Owner

\* Every step of the network thread and of the waiting thread, and every
\* spurious wakeup, keeps the types.
LEMMA TypeOthers ==
    ASSUME TypeOK, Network \/ Waiter \/ SpuriousWakeup \/ WaiterSpurious
    PROVE  TypeOK'
<1> USE DEF TypeOK, timerVars, agentVars, ownerVars, SdClientState
<1>1. CASE Network
  <2>1. ASSUME NEW offered \in BOOLEAN, ReceiveOffer(offered) PROVE TypeOK'
    BY <2>1 DEF ReceiveOffer
  <2>2. CASE OfferSignal
    BY <2>2 DEF OfferSignal, Signal
  <2>3. CASE StoreEndpoint
    BY <2>3 DEF StoreEndpoint
  <2> QED BY <1>1, <2>1, <2>2, <2>3 DEF Network
<1>2. CASE Waiter \/ WaiterSpurious
  <2>1. waiter' \in WaiterType
    <3>1. ASSUME NEW cv \in {"Offered", "Stopped"}, TryWait(cv) PROVE waiter' \in WaiterType
      BY <3>1 DEF TryWait, WaiterType
    <3>2. CASE WaitTimeout \/ WaiterSpurious
      BY <3>2 DEF WaitTimeout, WaiterSpurious, WaiterType
    <3>3. CASE WaitReturns
      BY <3>3 DEF WaitReturns, WaiterType
    <3> QED BY <1>2, <3>1, <3>2, <3>3 DEF Waiter
  <2>2. UNCHANGED <<timerVars, agentVars, ownerVars, net>>
    BY <1>2 DEF Waiter, TryWait, WaitTimeout, WaitReturns, WaiterSpurious
  <2> QED BY <2>1, <2>2
<1>3. CASE SpuriousWakeup
  BY <1>3 DEF SpuriousWakeup
<1> QED BY <1>1, <1>2, <1>3

\* Every step of the specification keeps the types.
LEMMA TypeNext == ASSUME TypeOK, Waiting, [Next]_vars PROVE TypeOK'
<1>1. CASE UNCHANGED vars
  BY <1>1 DEF TypeOK, vars, timerVars, agentVars, ownerVars
<1> QED BY <1>1, TypeAgent, TypeOwner, TypeOthers DEF Next

-----------------------------------------------------------------------------
(* The inductive invariant *)

\* The initial states satisfy the invariant.
LEMMA IInvInit == Init => IInv
<1> SUFFICES ASSUME Init PROVE IInv
  OBVIOUS
<1>1. TypeOK
  <2>1. waiter \in WaiterType
    BY DEF Init, WaiterType
  <2>2. /\ expired \in BOOLEAN /\ mRequested \in BOOLEAN /\ mOffered \in BOOLEAN
        /\ mDisposing \in BOOLEAN /\ mNotseenDisposing \in BOOLEAN
        /\ mValidState \in BOOLEAN /\ mSignalFlag \in BOOLEAN
    BY DEF Init
  <2>3. /\ mCurrentState = "ServiceNotSeen" /\ pc = "none" /\ i = 0 /\ app = "ready"
        /\ net = "ready" /\ finds = 0
    BY DEF Init
  <2> QED BY <2>1, <2>2, <2>3, RepetitionsAssumption DEF TypeOK, SdClientState
<1>2. Waiting /\ FindsOfPhase /\ DisposedOnlyByDestructor /\ ChangeIsFlagged
  BY RepetitionsAssumption
  DEF Init, Waiting, FindsOfPhase, DisposedOnlyByDestructor, ChangeIsFlagged
<1> QED BY <1>1, <1>2 DEF IInv

\* A step of another thread leaves the state machine where it is; it can only
\* wake the agent or launch it.
LEMMA OthersWake ==
    ASSUME TypeOK, Owner \/ Network \/ Waiter \/ SpuriousWakeup \/ WaiterSpurious
    PROVE  /\ UNCHANGED <<mCurrentState, expired, i, finds>>
           /\ \/ pc' = pc
              \/ pc = "blocked" /\ pc' = "predicate"
              \/ pc = "timed" /\ pc' = "woken"
              \/ pc' = "started"
<1> USE DEF TypeOK, agentVars, Signal
<1>1. CASE Owner
  BY <1>1 DEF Owner, Start, StartSignal, Launch, Stop, StopSignal, TryGetOfferedEndpoint,
     GotEndpoint, Destroy, DisposeState, DisposeTimer, Cancel, CancelSignal, Join
<1>2. CASE Network
  BY <1>2 DEF Network, ReceiveOffer, OfferSignal, StoreEndpoint
<1>3. CASE Waiter \/ SpuriousWakeup \/ WaiterSpurious
  BY <1>3 DEF Waiter, TryWait, WaitTimeout, WaitReturns, SpuriousWakeup, WaiterSpurious
<1> QED BY <1>1, <1>2, <1>3

\* Only the four waiting states run waitForNextState.
LEMMA WaitingNext == ASSUME TypeOK, Waiting, [Next]_vars PROVE Waiting'
<1>1. CASE Agent
  BY <1>1 DEF TypeOK, Waiting, Agent, Transit, RequestService, ActivateNotSeen,
     ActivateWaiting, TestTimer, WaitForSignal, TestFlag, Block, WaitForExpiration,
     TtlTimeout, TtlReset, Decide, ActivateInitialWait, ActivateRepetition
<1>2. CASE Owner \/ Network \/ Waiter \/ SpuriousWakeup \/ WaiterSpurious
  BY <1>2, OthersWake DEF Waiting
<1>3. CASE UNCHANGED vars
  BY <1>3 DEF Waiting, vars, agentVars
<1> QED BY <1>1, <1>2, <1>3 DEF Next

\* The Finds of a search stay within the bound of its phase.
LEMMA FindsNext ==
    ASSUME TypeOK, Waiting, FindsOfPhase, [Next]_vars
    PROVE  FindsOfPhase'
<1> USE RepetitionsAssumption DEF FindsOfPhase
<1>1. CASE Agent
  <2> USE DEF TypeOK, Transit
  <2>1. CASE RequestService
    BY <2>1 DEF RequestService
  <2>2. CASE ActivateNotSeen \/ ActivateWaiting \/ TestTimer \/ WaitForSignal \/ TestFlag
              \/ Block \/ WaitForExpiration \/ TtlTimeout \/ TtlReset
    BY <2>2 DEF ActivateNotSeen, ActivateWaiting, TestTimer, WaitForSignal, TestFlag, Block,
       WaitForExpiration, TtlTimeout, TtlReset
  <2>3. CASE Decide
    <3>1. NextState # "RepetitionPhase"
      BY <2>3 DEF Decide, NextState, NotSeenNext, SeenNext, ReadyNext, StoppedNext, Waiting
    <3> QED BY <2>3, <3>1 DEF Decide
  <2>4. CASE ActivateInitialWait
    BY <2>4 DEF ActivateInitialWait
  <2>5. CASE ActivateRepetition
    BY <2>5 DEF ActivateRepetition, RepetitionsDone
  <2> QED BY <1>1, <2>1, <2>2, <2>3, <2>4, <2>5 DEF Agent
<1>2. CASE Owner \/ Network \/ Waiter \/ SpuriousWakeup \/ WaiterSpurious
  BY <1>2, OthersWake
<1>3. CASE UNCHANGED vars
  BY <1>3 DEF vars, agentVars
<1> QED BY <1>1, <1>2, <1>3 DEF Next

\* The entry state is disposed only by the destructor, and the agent ends only
\* when it is.
LEMMA DisposedNext ==
    ASSUME TypeOK, Waiting, DisposedOnlyByDestructor, [Next]_vars
    PROVE  DisposedOnlyByDestructor'
<1> USE DEF DisposedOnlyByDestructor
<1>1. CASE Agent
  <2>1. UNCHANGED <<app, mNotseenDisposing, mValidState>>
    BY <1>1 DEF Agent, ownerVars, RequestService, ActivateNotSeen, ActivateWaiting,
       TestTimer, WaitForSignal, TestFlag, Block, WaitForExpiration, TtlTimeout, TtlReset,
       Decide, ActivateInitialWait, ActivateRepetition
  <2>2. pc' = "exited" => mNotseenDisposing /\ mCurrentState' = "ServiceNotSeen"
    BY <1>1 DEF TypeOK, Agent, Transit, RequestService, ActivateNotSeen, ActivateWaiting,
       TestTimer, WaitForSignal, TestFlag, Block, WaitForExpiration, TtlTimeout, TtlReset,
       Decide, ActivateInitialWait, ActivateRepetition
  <2> QED BY <2>1, <2>2
<1>2. CASE Owner
  <2>1. /\ app' = "disposeState" => ~mValidState'
        /\ mNotseenDisposing' => ~mValidState'
        /\ mNotseenDisposing => mNotseenDisposing'
    BY <1>2 DEF TypeOK, Owner, Start, StartSignal, Launch, Stop, StopSignal,
       TryGetOfferedEndpoint, GotEndpoint, Destroy, DisposeState, DisposeTimer, Cancel,
       CancelSignal, Join
  <2> QED BY <1>2, <2>1, OthersWake
<1>3. CASE Network \/ Waiter \/ SpuriousWakeup \/ WaiterSpurious
  <2>1. UNCHANGED <<app, mNotseenDisposing, mValidState>>
    BY <1>3 DEF ownerVars, Network, ReceiveOffer, OfferSignal, StoreEndpoint, Waiter, TryWait, WaitTimeout, WaitReturns, SpuriousWakeup,
       WaiterSpurious
  <2> QED BY <1>3, <2>1, OthersWake
<1>4. CASE UNCHANGED vars
  BY <1>4 DEF vars, agentVars, ownerVars
<1> QED BY <1>1, <1>2, <1>3, <1>4 DEF Next

\* A change of the timer shows in the flag: the setters assign before they
\* raise it, and the agent clears it before it looks at the timer.
LEMMA FlagNext ==
    ASSUME TypeOK, Waiting, ChangeIsFlagged, [Next]_vars
    PROVE  ChangeIsFlagged'
<1> USE DEF ChangeIsFlagged, NoSetterHalfway, Stays
<1>1. CASE Agent
  <2>1. CASE TestTimer
    BY <1>1, <2>1 DEF TestTimer, timerVars, ownerVars, TypeOK, Waiting
  <2>2. CASE WaitForSignal
    BY <1>1, <2>2 DEF WaitForSignal, timerVars, ownerVars, TypeOK
  <2>3. CASE TestFlag
    BY <1>1, <2>3 DEF TestFlag, ownerVars, TypeOK
  <2>4. CASE Block
    BY <1>1, <2>4 DEF Block, timerVars, ownerVars, TypeOK
  <2>5. CASE ~(TestTimer \/ WaitForSignal \/ TestFlag \/ Block)
    <3>1. pc' \notin {"signal", "predicate", "blocking", "blocked"}
      BY <1>1, <2>5 DEF Agent, Transit, RequestService, ActivateNotSeen, ActivateWaiting,
         WaitForExpiration, TtlTimeout, TtlReset, Decide, ActivateInitialWait,
         ActivateRepetition, TypeOK
    <3> QED BY <3>1
  <2> QED BY <2>1, <2>2, <2>3, <2>4, <2>5
<1>2. CASE Owner
  <2>1. CASE Start \/ Stop \/ Cancel
    BY <2>1 DEF Start, Stop, Cancel
  <2>2. CASE StartSignal \/ StopSignal \/ CancelSignal
    BY <2>2 DEF StartSignal, StopSignal, CancelSignal, Signal
  <2>3. CASE Launch
    BY <2>3 DEF Launch
  <2>4. CASE TryGetOfferedEndpoint \/ GotEndpoint \/ Destroy \/ DisposeState
              \/ DisposeTimer \/ Join
    <3>1. UNCHANGED <<mCurrentState, pc, mRequested, mOffered, mSignalFlag, net>>
      BY <2>4 DEF TryGetOfferedEndpoint, GotEndpoint, Destroy, DisposeState, DisposeTimer,
         Join, timerVars, agentVars
    <3>2. app \notin {"starting", "stopping", "cancelling"}
      BY <2>4 DEF TryGetOfferedEndpoint, GotEndpoint, Destroy, DisposeState, DisposeTimer,
         Join
    <3> QED BY <3>1, <3>2
  <2> QED BY <1>2, <2>1, <2>2, <2>3, <2>4 DEF Owner
<1>3. CASE Network
  <2>1. CASE \E offered \in BOOLEAN : ReceiveOffer(offered)
    BY <2>1 DEF ReceiveOffer
  <2>2. CASE OfferSignal
    BY <2>2 DEF OfferSignal, Signal
  <2>3. CASE StoreEndpoint
    <3>1. UNCHANGED <<mCurrentState, pc, mRequested, mOffered, mSignalFlag, app>>
      BY <2>3 DEF StoreEndpoint, timerVars, agentVars, ownerVars
    <3>2. net # "signal"
      BY <2>3 DEF StoreEndpoint
    <3> QED BY <3>1, <3>2
  <2> QED BY <1>3, <2>1, <2>2, <2>3 DEF Network
<1>4. CASE Waiter \/ WaiterSpurious
  <2>1. UNCHANGED <<mCurrentState, pc, mRequested, mOffered, mSignalFlag, app, net>>
    BY <1>4 DEF Waiter, TryWait, WaitTimeout, WaitReturns, WaiterSpurious, timerVars,
       agentVars, ownerVars
  <2> QED BY <2>1
<1>5. CASE SpuriousWakeup
  BY <1>5 DEF SpuriousWakeup, timerVars, ownerVars
<1>6. CASE UNCHANGED vars
  BY <1>6 DEF vars, timerVars, agentVars, ownerVars
<1> QED BY <1>1, <1>2, <1>3, <1>4, <1>5, <1>6 DEF Next

\* The invariant holds in every behaviour of the client.
THEOREM Inductive == Spec => []IInv
<1>1. IInv /\ [Next]_vars => IInv'
  BY TypeNext, WaitingNext, FindsNext, DisposedNext, FlagNext DEF IInv
<1> QED BY <1>1, IInvInit, PTL DEF Spec

-----------------------------------------------------------------------------
(* The theorems *)

\* The variables of the client keep their types, whatever the threads do.
THEOREM TypeCorrect == Spec => []TypeOK
BY Inductive, PTL DEF IInv

\* For every repetition maximum, no search sends more Finds than
\* ClientInitialWaitState and ClientRepetitionState may.
THEOREM SearchIsBounded == Spec => []FindsBounded
<1>1. IInv => FindsBounded
  BY DEF IInv, FindsOfPhase, FindsBounded
<1> QED BY <1>1, Inductive, PTL

\* The agent thread that ServiceNotseenState runs ends only in the destructor.
THEOREM AgentEndsInDestructor == Spec => []AgentLivesWithClient
<1>1. IInv => AgentLivesWithClient
  BY DEF IInv, DisposedOnlyByDestructor, AgentLivesWithClient
<1> QED BY <1>1, Inductive, PTL

\* TtlTimer loses no change of its values, although it notifies without the
\* mutex: what can be lost is the wakeup only.
THEOREM NoChangeIsLost == Spec => []NoChangeUnseen
<1>1. IInv => NoChangeUnseen
  BY DEF IInv, ChangeIsFlagged, NoSetterHalfway, NoChangeUnseen
<1> QED BY <1>1, Inductive, PTL

=============================================================================
