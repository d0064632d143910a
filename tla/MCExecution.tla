---------------------------- MODULE MCExecution ----------------------------
(* State management and one process that the start-up state activates; or, in *)
(* a process of its own, the deterministic clients.                           *)
EXTENDS Execution

CONSTANTS Clients, Seeds

VARIABLES subject, mCounter, mRunning, mFuture, mSeed, mGenerator, mRandomNumber, pc, overlapped

MCActivatingStates == [p \in Processes |-> IF p = StateManagement THEN {} ELSE {"StartUp"}]

Det == INSTANCE DeterministicClient

cycleVars == <<mCounter, mRunning, mFuture, mSeed, mGenerator, mRandomNumber, pc, overlapped>>
mcVars == <<subject, vars, cycleVars>>

MCInit == subject \in {"execution", "cycle"} /\ Init /\ Det!DetInit

Executing == subject = "execution" /\ UNCHANGED <<subject, cycleVars>>

Cycling == subject = "cycle" /\ UNCHANGED <<subject, vars>>

MCNext ==
    \/ Next /\ Executing
    \/ Det!DetNext /\ Cycling

\* The threads of execution management run; so do the cycle and the calls of
\* the clients, none of which has to call anything.
MCSpec ==
    /\ MCInit /\ [][MCNext]_mcVars
    /\ WF_mcVars(EmMain /\ Executing) /\ WF_mcVars(Poller /\ Executing)
    /\ WF_mcVars(Det!activateCycle /\ Cycling)
    /\ \A c \in Clients : WF_mcVars(Det!ClientStep(c) /\ Cycling)

\* The calls of the deterministic clients return, unless two of these are made or
\* destroyed at a time.
CallsReturn == Det!CallsReturn

=============================================================================
