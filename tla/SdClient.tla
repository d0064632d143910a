------------------------------ MODULE SdClient ------------------------------
(***************************************************************************)
(* The SOME/IP service-discovery client of ara::com.  Four threads share   *)
(* one TtlTimer: the agent, which runs the client's state machine; the     *)
(* application thread that owns the client (Start, Stop, the endpoint      *)
(* query, the destructor); another application thread that waits for the   *)
(* service to be offered or stopped; and the network thread, which applies *)
(* the offers it receives.  The endpoint of the offers, and its lock, are  *)
(* in OfferedEndpoint; here a thread that goes there may come back, throw, *)
(* or stay there for ever.                                                 *)
(*                                                                         *)
(* Nothing protects the timer: SetRequested and SetOffered write a value,  *)
(* then raise mSignalFlag and notify without holding the mutex of the      *)
(* condition variable.  So each of them is two steps here, and the agent's *)
(* test of the flag and its blocking are two steps as well.  A thread that *)
(* reads a plain member sees the last value written, which is what the     *)
(* build does: every read follows a call the compiler cannot see through.  *)
(***************************************************************************)
EXTENDS Naturals

CONSTANTS
    RepetitionsMax,     \* Finds sent in the repetition phase
    SpuriousWakeups     \* may a condition variable wake without a notify?

ASSUME RepetitionsAssumption == RepetitionsMax \in Nat
ASSUME SpuriousAssumption == SpuriousWakeups \in BOOLEAN

VARIABLES
    mCurrentState,      \* state of the FSM, changed by the agent only
    pc,                 \* where the agent thread is in Activate of that state
    expired,            \* _expired of waitForNextState
    i,                  \* the repetition counter
    mRequested,         \* TtlTimer::mRequested
    mOffered,           \* TtlTimer::mTtl > 0
    mSignalFlag,        \* TtlTimer::mSignalFlag
    mDisposing,         \* TtlTimer::mDisposing
    mNotseenDisposing,  \* ServiceNotseenState::mDisposing
    mValidState,        \* SomeIpSdClient::mValidState
    app,                \* where the owning thread is
    net,                \* where the network thread is in receiveSdMessage
    waiter,             \* the thread in TryWaitUntiServiceOffer{ed,Stopped}
    finds               \* history: Finds sent since the search began

timerVars == <<mRequested, mOffered, mSignalFlag, mDisposing>>
agentVars == <<mCurrentState, pc, expired, i, finds>>
ownerVars == <<app, mNotseenDisposing, mValidState>>
vars == <<timerVars, agentVars, ownerVars, net, waiter>>

SdClientState ==
    {"ServiceNotSeen", "ServiceSeen", "InitialWaitPhase", "RepetitionPhase",
     "ServiceReady", "Stopped"}

WaiterType ==
    [at : {"out", "waiting", "notified", "timeout"},
     for : {"Offered", "Stopped"},
     result : {"none", "true", "false"}]

TypeOK ==
    /\ mCurrentState \in SdClientState
    /\ pc \in {"none", "started", "activate", "test", "signal", "predicate",
               "blocking", "blocked", "expiration", "timed", "woken",
               "decide", "exited"}
    /\ expired \in BOOLEAN
    /\ i \in 0 .. RepetitionsMax
    /\ mRequested \in BOOLEAN /\ mOffered \in BOOLEAN
    /\ mSignalFlag \in BOOLEAN /\ mDisposing \in BOOLEAN
    /\ mNotseenDisposing \in BOOLEAN /\ mValidState \in BOOLEAN
    /\ app \in {"ready", "starting", "launching", "stopping", "reading", "threw",
                "disposeState", "disposeTimer", "cancel", "cancelling", "join",
                "destroyed"}
    /\ net \in {"ready", "signal", "store", "threw"}
    /\ waiter \in WaiterType
    /\ finds \in Nat

\* mSignalFlag is not initialised by the constructor of TtlTimer.
Init ==
    /\ mCurrentState = "ServiceNotSeen"
    /\ pc = "none"
    /\ expired = FALSE
    /\ i = 0
    /\ mRequested = FALSE
    /\ mOffered = FALSE
    /\ mSignalFlag \in BOOLEAN
    /\ mDisposing = FALSE
    /\ mNotseenDisposing = FALSE
    /\ mValidState = TRUE
    /\ app = "ready"
    /\ net = "ready"
    /\ waiter = [at |-> "out", for |-> "Offered", result |-> "none"]
    /\ finds = 0

-----------------------------------------------------------------------------
(* Condition variables *)

\* Mutant: a notify without the flag.
SignalNoFlag ==
    /\ pc' = CASE pc = "blocked" -> "predicate"
               [] pc = "timed"   -> "woken"
               [] OTHER          -> pc
    /\ UNCHANGED <<mSignalFlag, mCurrentState, expired, i, finds, mRequested, mOffered, mDisposing>>

\* The second half of SetRequested and SetOffered: raise the flag and notify.
\* Only an agent that already waits is woken.
Signal ==
    /\ mSignalFlag' = TRUE
    /\ pc' = CASE pc = "blocked" -> "predicate"
               [] pc = "timed"   -> "woken"
               [] OTHER          -> pc
    /\ UNCHANGED <<mCurrentState, expired, i, finds, mRequested, mOffered, mDisposing>>

\* notify_one on the offering or on the stop-offering condition variable.
Notify(cv) ==
    waiter' = IF waiter.at = "waiting" /\ waiter.for = cv
              THEN [waiter EXCEPT !.at = "notified"]
              ELSE waiter

-----------------------------------------------------------------------------
(* The agent thread: Activate of the current state *)

\* The current state hands over to s, whose Activate runs next.
Transit(s) ==
    /\ mCurrentState' = s
    /\ pc' = "activate"

\* Entry of the agent thread.
RequestService ==
    /\ pc = "started"
    /\ Transit("InitialWaitPhase")
    /\ finds' = 0
    /\ UNCHANGED <<expired, i, timerVars, ownerVars, net, waiter>>

\* Mutant: the disposed state keeps the flow in the loop.
ActivateNotSeenForever ==
    /\ pc = "activate" /\ mCurrentState = "ServiceNotSeen"
    /\ Notify("Stopped")
    /\ pc' = "test"
    /\ UNCHANGED <<mCurrentState, expired, i, finds, timerVars, ownerVars, net>>

\* ServiceNotSeen announces the stop and ends the thread once it is disposed.
ActivateNotSeen ==
    /\ pc = "activate" /\ mCurrentState = "ServiceNotSeen"
    /\ Notify("Stopped")
    /\ pc' = IF mNotseenDisposing THEN "exited" ELSE "test"
    /\ UNCHANGED <<mCurrentState, expired, i, finds, timerVars, ownerVars, net>>

\* The other waiting states announce themselves and start to watch the timer.
ActivateWaiting ==
    /\ pc = "activate" /\ mCurrentState \in {"ServiceSeen", "ServiceReady", "Stopped"}
    /\ Notify(IF mCurrentState = "Stopped" THEN "Stopped" ELSE "Offered")
    /\ pc' = "test"
    /\ expired' = FALSE
    /\ UNCHANGED <<mCurrentState, i, finds, timerVars, ownerVars, net>>

\* Mutant: a ready client looks at the offer only.
StaysUnrequested ==
    CASE mCurrentState = "ServiceNotSeen" -> ~mRequested /\ ~mOffered
      [] mCurrentState = "ServiceSeen"    -> ~mRequested /\ mOffered
      [] mCurrentState = "ServiceReady"   -> mOffered
      [] mCurrentState = "Stopped"        -> mRequested /\ ~mOffered

\* Each waiting state stays while requested and offered are as it needs them;
\* the seen states wait with the TTL, the others for a signal.
Stays ==
    CASE mCurrentState = "ServiceNotSeen" -> ~mRequested /\ ~mOffered
      [] mCurrentState = "ServiceSeen"    -> ~mRequested /\ mOffered
      [] mCurrentState = "ServiceReady"   -> mRequested /\ mOffered
      [] mCurrentState = "Stopped"        -> mRequested /\ ~mOffered

TestTimer ==
    /\ pc = "test"
    /\ pc' = IF ~Stays THEN "decide"
             ELSE IF mCurrentState \in {"ServiceSeen", "ServiceReady"}
                  THEN "expiration"
                  ELSE "signal"
    /\ UNCHANGED <<mCurrentState, expired, i, finds, timerVars, ownerVars, net, waiter>>

\* WaitForSignal returns at once when the timer is disposed.
WaitForSignal ==
    /\ pc = "signal"
    /\ pc' = IF mDisposing THEN "decide" ELSE "predicate"
    /\ UNCHANGED <<mCurrentState, expired, i, finds, timerVars, ownerVars, net, waiter>>

\* The predicate of the wait: leave when the flag is up, otherwise block.
TestFlag ==
    /\ pc = "predicate"
    /\ pc' = IF mSignalFlag THEN "decide" ELSE "blocking"
    /\ mSignalFlag' = FALSE
    /\ UNCHANGED <<mCurrentState, expired, i, finds, mRequested, mOffered, mDisposing,
                   ownerVars, net, waiter>>

\* The agent blocks; a notify that came since TestFlag is lost.
Block ==
    /\ pc = "blocking"
    /\ pc' = "blocked"
    /\ UNCHANGED <<mCurrentState, expired, i, finds, timerVars, ownerVars, net, waiter>>

\* WaitForExpiration: true at once without an offer or after Dispose,
\* otherwise a timed wait that has no predicate.
WaitForExpiration ==
    /\ pc = "expiration"
    /\ IF ~mOffered \/ mDisposing
       THEN pc' = "decide" /\ expired' = TRUE
       ELSE pc' = "timed" /\ UNCHANGED expired
    /\ UNCHANGED <<mCurrentState, i, finds, timerVars, ownerVars, net, waiter>>

\* The TTL runs out.  mTtl keeps its value; an Offer that the network thread
\* is just applying still counts as fresh.
TtlTimeout ==
    /\ pc = "timed"
    /\ pc' = "decide"
    /\ expired' = TRUE
    /\ mSignalFlag' = FALSE
    /\ UNCHANGED <<mCurrentState, i, finds, mRequested, mOffered, mDisposing, ownerVars,
                   net, waiter>>

\* The timed wait was notified: look at the timer again.
TtlReset ==
    /\ pc = "woken"
    /\ expired' = (~mOffered \/ mDisposing)
    /\ pc' = IF expired' THEN "decide" ELSE "test"
    /\ mSignalFlag' = FALSE
    /\ UNCHANGED <<mCurrentState, i, finds, mRequested, mOffered, mDisposing, ownerVars,
                   net, waiter>>

SpuriousWakeup ==
    /\ SpuriousWakeups
    /\ \/ pc = "blocked" /\ pc' = "predicate"
       \/ pc = "timed" /\ pc' = "woken"
    /\ UNCHANGED <<mCurrentState, expired, i, finds, timerVars, ownerVars, net, waiter>>

\* The result of waitForNextState in each of the four states.
NotSeenNext == IF mRequested THEN "InitialWaitPhase" ELSE "ServiceSeen"
SeenNext == IF mRequested THEN "ServiceReady" ELSE "ServiceNotSeen"
ReadyNext ==
    IF ~mRequested THEN "ServiceSeen"
    ELSE IF expired THEN "InitialWaitPhase" ELSE "Stopped"
StoppedNext == IF ~mRequested THEN "ServiceNotSeen" ELSE "ServiceReady"

NextState ==
    CASE mCurrentState = "ServiceNotSeen" -> NotSeenNext
      [] mCurrentState = "ServiceSeen"    -> SeenNext
      [] mCurrentState = "ServiceReady"   -> ReadyNext
      [] mCurrentState = "Stopped"        -> StoppedNext

Decide ==
    /\ pc = "decide"
    /\ Transit(NextState)
    /\ finds' = IF NextState = "InitialWaitPhase" THEN 0 ELSE finds
    /\ UNCHANGED <<expired, i, timerVars, ownerVars, net, waiter>>

\* The initial wait sleeps, then is ready if offered; otherwise it sends the
\* first Find and starts to repeat.
ActivateInitialWait ==
    /\ pc = "activate" /\ mCurrentState = "InitialWaitPhase"
    /\ IF mOffered
       THEN Transit("ServiceReady") /\ UNCHANGED finds
       ELSE Transit("RepetitionPhase") /\ finds' = finds + 1
    /\ i' = 0
    /\ UNCHANGED <<expired, timerVars, ownerVars, net, waiter>>

\* Mutant: one repetition too many.
RepetitionsDoneLate == i > RepetitionsMax

\* After the last repetition the client is stopped.
RepetitionsDone == i >= RepetitionsMax

\* One round of the repetition phase: sleep, then be ready if offered or send
\* another Find.
ActivateRepetition ==
    /\ pc = "activate" /\ mCurrentState = "RepetitionPhase"
    /\ \/ /\ RepetitionsDone
          /\ Transit("Stopped")
          /\ UNCHANGED <<i, finds>>
       \/ /\ ~RepetitionsDone
          /\ mOffered
          /\ Transit("ServiceReady")
          /\ UNCHANGED <<i, finds>>
       \/ /\ ~RepetitionsDone
          /\ ~mOffered
          /\ i' = i + 1
          /\ finds' = finds + 1
          /\ UNCHANGED <<mCurrentState, pc>>
    /\ UNCHANGED <<expired, timerVars, ownerVars, net, waiter>>

Agent ==
    \/ RequestService
    \/ ActivateNotSeen
    \/ ActivateWaiting
    \/ TestTimer
    \/ WaitForSignal
    \/ TestFlag
    \/ Block
    \/ WaitForExpiration
    \/ TtlTimeout
    \/ TtlReset
    \/ Decide
    \/ ActivateInitialWait
    \/ ActivateRepetition

-----------------------------------------------------------------------------
(* The thread that owns the client *)

\* Start throws while the agent has a future; otherwise it requests the
\* service, signals and launches the agent.
Start ==
    /\ app = "ready" /\ pc = "none"
    /\ mRequested' = TRUE
    /\ app' = "starting"
    /\ UNCHANGED <<mOffered, mSignalFlag, mDisposing, agentVars, mNotseenDisposing,
                   mValidState, net, waiter>>

StartSignal ==
    /\ app = "starting"
    /\ Signal
    /\ app' = "launching"
    /\ UNCHANGED <<mNotseenDisposing, mValidState, net, waiter>>

Launch ==
    /\ app = "launching"
    /\ pc' = "started"
    /\ app' = "ready"
    /\ UNCHANGED <<mCurrentState, expired, i, finds, timerVars, mNotseenDisposing,
                   mValidState, net, waiter>>

\* Stop may be called at any time, again and again, and leaves the agent
\* running.
Stop ==
    /\ app = "ready"
    /\ mRequested' = FALSE
    /\ app' = "stopping"
    /\ UNCHANGED <<mOffered, mSignalFlag, mDisposing, agentVars, mNotseenDisposing,
                   mValidState, net, waiter>>

StopSignal ==
    /\ app = "stopping"
    /\ Signal
    /\ app' = "ready"
    /\ UNCHANGED <<mNotseenDisposing, mValidState, net, waiter>>

\* The owner asks for the endpoint: its call returns or throws, if it ends.
TryGetOfferedEndpoint ==
    /\ app = "ready"
    /\ app' = "reading"
    /\ UNCHANGED <<timerVars, agentVars, mNotseenDisposing, mValidState, net, waiter>>

GotEndpoint ==
    /\ app = "reading"
    /\ app' \in {"ready", "threw"}
    /\ UNCHANGED <<timerVars, agentVars, mNotseenDisposing, mValidState, net, waiter>>

\* The destructor invalidates the client and releases a waiting thread, then
\* disposes the entry state and the timer, withdraws the request, and joins.
Destroy ==
    /\ app = "ready"
    /\ mValidState' = FALSE
    /\ waiter' = IF waiter.at = "waiting" THEN [waiter EXCEPT !.at = "notified"] ELSE waiter
    /\ app' = "disposeState"
    /\ UNCHANGED <<timerVars, agentVars, mNotseenDisposing, net>>

DisposeState ==
    /\ app = "disposeState"
    /\ mNotseenDisposing' = TRUE
    /\ app' = "disposeTimer"
    /\ UNCHANGED <<timerVars, agentVars, mValidState, net, waiter>>

DisposeTimer ==
    /\ app = "disposeTimer"
    /\ mDisposing' = TRUE
    /\ app' = "cancel"
    /\ UNCHANGED <<mRequested, mOffered, mSignalFlag, agentVars, mNotseenDisposing,
                   mValidState, net, waiter>>

Cancel ==
    /\ app = "cancel"
    /\ mRequested' = FALSE
    /\ app' = "cancelling"
    /\ UNCHANGED <<mOffered, mSignalFlag, mDisposing, agentVars, mNotseenDisposing,
                   mValidState, net, waiter>>

CancelSignal ==
    /\ app = "cancelling"
    /\ Signal
    /\ app' = "join"
    /\ UNCHANGED <<mNotseenDisposing, mValidState, net, waiter>>

\* Join waits for the agent if there is one.
Join ==
    /\ app = "join" /\ pc \in {"none", "exited"}
    /\ app' = "destroyed"
    /\ UNCHANGED <<timerVars, agentVars, mNotseenDisposing, mValidState, net, waiter>>

Owner ==
    \/ Start \/ StartSignal \/ Launch
    \/ Stop \/ StopSignal
    \/ TryGetOfferedEndpoint \/ GotEndpoint
    \/ Destroy \/ DisposeState \/ DisposeTimer \/ Cancel \/ CancelSignal \/ Join

-----------------------------------------------------------------------------
(* The network thread: receiveSdMessage *)

\* An offer (offered) or a stop-offer of the service arrives: the timer is set
\* and signalled first, the endpoint of the message is stored afterwards.
ReceiveOffer(offered) ==
    /\ net = "ready" /\ mValidState
    /\ mOffered' = offered
    /\ net' = "signal"
    /\ UNCHANGED <<mRequested, mSignalFlag, mDisposing, agentVars, ownerVars, waiter>>

OfferSignal ==
    /\ net = "signal"
    /\ Signal
    /\ net' = "store"
    /\ UNCHANGED <<ownerVars, waiter>>

\* The thread stores the endpoint of the offer, or throws on the way.
StoreEndpoint ==
    /\ net = "store"
    /\ net' \in {"ready", "threw"}
    /\ UNCHANGED <<timerVars, agentVars, ownerVars, waiter>>

Network ==
    \/ \E offered \in BOOLEAN : ReceiveOffer(offered)
    \/ OfferSignal
    \/ StoreEndpoint

-----------------------------------------------------------------------------
(* The waiting thread *)

\* TryWaitUntiServiceOffered (cv = "Offered") and TryWaitUntiServiceOfferStopped
\* (cv = "Stopped") wait without looking at the state first.
TryWait(cv) ==
    /\ waiter.at = "out" /\ app # "destroyed"
    /\ waiter' = IF mValidState
                 THEN [at |-> "waiting", for |-> cv, result |-> "none"]
                 ELSE [at |-> "out", for |-> cv, result |-> "false"]
    /\ UNCHANGED <<timerVars, agentVars, ownerVars, net>>

\* A wait with a positive duration ends without a notify.
WaitTimeout ==
    /\ waiter.at = "waiting"
    /\ waiter' = [waiter EXCEPT !.at = "timeout"]
    /\ UNCHANGED <<timerVars, agentVars, ownerVars, net>>

WaiterSpurious ==
    /\ SpuriousWakeups
    /\ waiter.at = "waiting"
    /\ waiter' = [waiter EXCEPT !.at = "notified"]
    /\ UNCHANGED <<timerVars, agentVars, ownerVars, net>>

\* States in which a wait for cv that timed out still reports success.
Reached(cv) ==
    IF cv = "Offered" THEN {"ServiceReady", "ServiceSeen"} ELSE {"Stopped", "ServiceNotSeen"}

WaitReturns ==
    /\ waiter.at \in {"notified", "timeout"}
    /\ waiter' =
        [waiter EXCEPT
           !.at = "out",
           !.result = IF mValidState /\ \/ waiter.at = "notified"
                                        \/ mCurrentState \in Reached(waiter.for)
                      THEN "true" ELSE "false"]
    /\ UNCHANGED <<timerVars, agentVars, ownerVars, net>>

Waiter ==
    \/ \E cv \in {"Offered", "Stopped"} : TryWait(cv)
    \/ WaitTimeout
    \/ WaitReturns

-----------------------------------------------------------------------------
Next == Agent \/ Owner \/ Network \/ Waiter \/ SpuriousWakeup \/ WaiterSpurious

Spec == Init /\ [][Next]_vars

\* A thread finishes the call it is in, unless it is at the endpoint, which may
\* be locked for ever; nobody has to make a call.  The agent is
\* never held up for ever: its sleeps and its timed waits end.
Fairness ==
    /\ WF_vars(Agent)
    /\ WF_vars(OfferSignal)
    /\ WF_vars(StartSignal \/ Launch \/ StopSignal)
    /\ WF_vars(DisposeState \/ DisposeTimer \/ Cancel \/ CancelSignal \/ Join)

FairSpec == Spec /\ Fairness

-----------------------------------------------------------------------------
(* Properties *)

\* A search sends at most one Find in the initial wait and RepetitionsMax in
\* the repetition phase, however often the service comes and goes.
FindsBounded == finds <= 1 + RepetitionsMax

\* The agent thread outlives every Stop: it ends only when the destructor has
\* disposed it, and then in ServiceNotSeen, so discovery never dies silently.
AgentLivesWithClient ==
    pc = "exited" => ~mValidState /\ mCurrentState = "ServiceNotSeen"

\* Writing the value before the flag and clearing the flag before reading the
\* value loses no change: an agent that sleeps in WaitForSignal although its
\* state should be left, with no setter half-way, still has the flag up, so
\* its next wakeup, of whatever kind, lets it go.
NoChangeUnseen ==
    /\ pc = "blocked" /\ ~Stays
    /\ app \notin {"starting", "stopping", "cancelling"} /\ net # "signal"
    => mSignalFlag

\* A ready client whose request is withdrawn or whose service is stopped
\* leaves ServiceReady, even when the notification is lost.
ReadyEnds ==
    mCurrentState = "ServiceReady" /\ ~(mRequested /\ mOffered)
        ~> mCurrentState # "ServiceReady" \/ (mRequested /\ mOffered)

\* The destructor returns unless the agent was between the test of the flag and
\* the blocking when it was cancelled: no other point of any state holds it up.
JoinEndsOutsideWindow ==
    app = "join" /\ pc \notin {"blocking", "blocked"} ~> app = "destroyed"

=============================================================================
