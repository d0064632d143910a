------------------------------ MODULE SdServer ------------------------------
(***************************************************************************)
(* The SOME/IP service-discovery server of ara::com: the agent thread that *)
(* runs NotReady -> InitialWait -> Repetition -> Main, the thread that     *)
(* starts and stops it, and the network thread that queues the Finds it    *)
(* receives.  Each timer state has its own mStopped flag, which the owner  *)
(* raises and the agent reads and resets, with nothing in between.  What   *)
(* the server sends goes to the queue of the network layer, which refuses  *)
(* a message while the poller holds the lock of the queue.                 *)
(***************************************************************************)
EXTENDS Naturals

CONSTANTS
    RepetitionsMax,   \* rounds of the repetition phase
    MaxFinds          \* bound: Finds received in a behaviour

ASSUME RepetitionsAssumption == RepetitionsMax \in Nat
ASSUME FindsAssumption == MaxFinds \in Nat

VARIABLES
    mCurrentState,    \* state of the FSM
    pc,               \* where the agent thread is
    i,                \* the repetition counter
    target,           \* the state setTimerBase has chosen to go to
    mStopped,         \* TimerSetState::mStopped of each timer state
    mMessageBuffer,   \* number of Finds queued for an answer
    app,              \* where the owning thread is
    announced,        \* history: the last message the queue has taken
    rejected,         \* history: the queue has refused a StopOffer since
    received          \* history: Finds received so far

agentVars == <<mCurrentState, pc, i, target>>
messageVars == <<announced, rejected>>
serverVars == <<agentVars, mStopped, mMessageBuffer, app, messageVars, received>>

TimerStates == {"InitialWaitPhase", "RepetitionPhase", "MainPhase"}
SdServerState == TimerStates \cup {"NotReady"}

ServerTypeOK ==
    /\ mCurrentState \in SdServerState
    /\ pc \in {"none", "started", "activate", "timer", "offer", "leave", "transit",
              "announce", "done"}
    /\ i \in 0 .. RepetitionsMax
    /\ target \in SdServerState
    /\ mStopped \in [TimerStates -> BOOLEAN]
    /\ mMessageBuffer \in 0 .. MaxFinds
    /\ app \in {"ready", "stopInitial", "stopRepetition", "stopMain", "join"}
    /\ announced \in {"none", "Offer", "StopOffer"}
    /\ rejected \in BOOLEAN
    /\ received \in 0 .. MaxFinds

ServerInit ==
    /\ mCurrentState = "NotReady"
    /\ pc = "none"
    /\ i = 0
    /\ target = "NotReady"
    /\ mStopped = [s \in TimerStates |-> FALSE]
    /\ mMessageBuffer = 0
    /\ app = "ready"
    /\ announced = "none"
    /\ rejected = FALSE
    /\ received = 0

-----------------------------------------------------------------------------
(* The agent thread *)

\* Send hands a message to the queue of the layer and ignores its refusal.
Send(message) ==
    \/ announced' = message /\ rejected' = FALSE
    \/ announced' = announced /\ rejected' = (rejected \/ message = "StopOffer")

\* ServiceActivated, the entry of the thread.
ServiceActivated ==
    /\ pc = "started"
    /\ mCurrentState' = "InitialWaitPhase"
    /\ pc' = "activate"
    /\ UNCHANGED <<i, target, mStopped, mMessageBuffer, app, messageVars, received>>

\* Activate does nothing, and so ends the thread, when the state is stopped.
Activate ==
    /\ pc = "activate"
    /\ pc' = IF mStopped[mCurrentState] THEN "done" ELSE "timer"
    /\ i' = 0
    /\ UNCHANGED <<mCurrentState, target, mStopped, mMessageBuffer, app, messageVars, received>>

\* Rounds left in SetTimer of the current state.
RoundsLeft == mCurrentState = "RepetitionPhase" => i < RepetitionsMax

\* Mutant: the flag is not looked at after a sleep.
TimerExpiresDeaf ==
    /\ pc = "timer" /\ RoundsLeft
    /\ pc' = "offer"
    /\ UNCHANGED <<mCurrentState, i, target, mStopped, mMessageBuffer, app, messageVars, received>>

\* A sleep of SetTimer is over: leave if interrupted, otherwise send offers.
TimerExpires ==
    /\ pc = "timer" /\ RoundsLeft
    /\ pc' = IF mStopped[mCurrentState] THEN "leave" ELSE "offer"
    /\ UNCHANGED <<mCurrentState, i, target, mStopped, mMessageBuffer, app, messageVars, received>>

RepetitionsDone ==
    /\ pc = "timer" /\ ~RoundsLeft
    /\ pc' = "leave"
    /\ UNCHANGED <<mCurrentState, i, target, mStopped, mMessageBuffer, app, messageVars, received>>

\* Mutant: the Find is looked at and not taken off the queue.
AnswerFindKeeps ==
    /\ pc = "offer" /\ mMessageBuffer > 0
    /\ Send("Offer")
    /\ pc' = "timer"
    /\ UNCHANGED <<mCurrentState, i, target, mMessageBuffer, mStopped, app, received>>

\* sendOffer sends an Offer for each of the queued Finds ...
AnswerFind ==
    /\ pc = "offer" /\ mMessageBuffer > 0
    /\ mMessageBuffer' = mMessageBuffer - 1
    /\ Send("Offer")
    /\ UNCHANGED <<agentVars, mStopped, app, received>>

\* ... until the queue is empty.
OffersDone ==
    /\ pc = "offer" /\ mMessageBuffer = 0
    /\ pc' = IF mCurrentState = "InitialWaitPhase" THEN "leave" ELSE "timer"
    /\ i' = IF mCurrentState = "RepetitionPhase" THEN i + 1 ELSE i
    /\ UNCHANGED <<mCurrentState, target, mStopped, mMessageBuffer, app, messageVars, received>>

NextPhase ==
    [InitialWaitPhase |-> "RepetitionPhase", RepetitionPhase |-> "MainPhase",
     MainPhase |-> "NotReady"]

\* setTimerBase looks at the flag to choose where to go.
Leave ==
    /\ pc = "leave"
    /\ target' = IF mStopped[mCurrentState] THEN "NotReady" ELSE NextPhase[mCurrentState]
    /\ pc' = "transit"
    /\ UNCHANGED <<mCurrentState, i, mStopped, mMessageBuffer, app, messageVars, received>>

\* Mutant: a service stopped before its main phase goes down without a word.
TransitSilently ==
    /\ pc = "transit"
    /\ mStopped' = [mStopped EXCEPT ![mCurrentState] = FALSE]
    /\ mCurrentState' = target
    /\ pc' = CASE target # "NotReady" -> "activate"
               [] mCurrentState = "MainPhase" -> "announce"
               [] OTHER -> "done"
    /\ UNCHANGED <<i, target, mMessageBuffer, app, messageVars, received>>

\* Deactivate resets the flag of the state that is left, and of no other; the
\* machine is in its next state before that state is activated.
Transit ==
    /\ pc = "transit"
    /\ mStopped' = [mStopped EXCEPT ![mCurrentState] = FALSE]
    /\ mCurrentState' = target
    /\ pc' = IF target = "NotReady" THEN "announce" ELSE "activate"
    /\ UNCHANGED <<i, target, mMessageBuffer, app, messageVars, received>>

\* Activate of NotReady sends the StopOffer, and the thread ends.
onServiceStopped ==
    /\ pc = "announce"
    /\ Send("StopOffer")
    /\ pc' = "done"
    /\ UNCHANGED <<mCurrentState, i, target, mStopped, mMessageBuffer, app, received>>

Agent ==
    \/ ServiceActivated \/ Activate \/ TimerExpires \/ RepetitionsDone
    \/ AnswerFind \/ OffersDone \/ Leave \/ Transit \/ onServiceStopped

-----------------------------------------------------------------------------
(* The owning thread *)

\* Start throws while there is a future; it launches the agent in NotReady.
Start ==
    /\ app = "ready" /\ pc = "none" /\ mCurrentState = "NotReady"
    /\ pc' = "started"
    /\ UNCHANGED <<mCurrentState, i, target, mStopped, mMessageBuffer, app, messageVars, received>>

\* Stop, which the destructor calls too, raises the flag of one state after
\* the other, whichever is current, and joins.
Stop ==
    /\ app = "ready"
    /\ app' = "stopInitial"
    /\ UNCHANGED <<agentVars, mStopped, mMessageBuffer, messageVars, received>>

ServiceStopped(at, state, next) ==
    /\ app = at
    /\ mStopped' = [mStopped EXCEPT ![state] = TRUE]
    /\ app' = next
    /\ UNCHANGED <<agentVars, mMessageBuffer, messageVars, received>>

StopStates ==
    \/ ServiceStopped("stopInitial", "InitialWaitPhase", "stopRepetition")
    \/ ServiceStopped("stopRepetition", "RepetitionPhase", "stopMain")
    \/ ServiceStopped("stopMain", "MainPhase", "join")

Join ==
    /\ app = "join" /\ pc \in {"none", "done"}
    /\ pc' = "none"
    /\ app' = "ready"
    /\ UNCHANGED <<mCurrentState, i, target, mStopped, mMessageBuffer, messageVars, received>>

-----------------------------------------------------------------------------
(* The network thread *)

\* A matching Find is queued, in every state of the server.
receiveFind ==
    /\ received < MaxFinds
    /\ received' = received + 1
    /\ mMessageBuffer' = mMessageBuffer + 1
    /\ UNCHANGED <<agentVars, mStopped, app, messageVars>>

-----------------------------------------------------------------------------
ServerNext == Agent \/ Start \/ Stop \/ StopStates \/ Join \/ receiveFind

ServerSpec == ServerInit /\ [][ServerNext]_serverVars

\* The agent's sleeps end, and a Stop that began goes on.
ServerFairness == WF_serverVars(Agent) /\ WF_serverVars(StopStates) /\ WF_serverVars(Join)

ServerFairSpec == ServerSpec /\ ServerFairness

-----------------------------------------------------------------------------
(* Properties *)

\* An agent may end in a timer state that was stopped before it was activated:
\* by a Stop that met the agent between two phases, or by the flag that an
\* earlier Stop raised in a phase the agent was not in.  It cannot be started
\* again.
Stranded == mCurrentState \in TimerStates /\ mStopped[mCurrentState]

\* A service whose agent has ended is not left announced: its Offer was
\* withdrawn, unless the queue refused the StopOffer or the agent is stranded.
\* (The StopOffer leaves after the state has changed, and only on the way into
\* NotReady.)
OfferIsWithdrawn ==
    pc \in {"none", "done"} /\ announced = "Offer" => rejected \/ Stranded

\* Stop returns, whatever phase the agent is in.
StopReturns == app = "join" ~> app = "ready"

\* A Find that reaches a server in its main phase is answered by an Offer handed
\* to the layer, unless the server is stopped first.
FindIsAnswered ==
    mCurrentState = "MainPhase" /\ mMessageBuffer > 0
        ~> mMessageBuffer = 0 \/ \E s \in TimerStates : mStopped[s]

=============================================================================
