----------------------------- MODULE Execution -----------------------------
(***************************************************************************)
(* Execution management and state management.  Execution management spawns *)
(* the bootstrap process, answers its requests and spawns the processes a  *)
(* state of the machine activates; state management is the bootstrap       *)
(* process, and talks to it over TCP.  In execution management two threads *)
(* use the table of children without a lock: Main, which reaps, terminates *)
(* and kills, and the poller, which handles requests and spawns.           *)
(***************************************************************************)
EXTENDS Naturals, Sequences, FiniteSets

CONSTANTS
    Processes,         \* the PROCESSES of the manifest
    StateManagement,   \* the bootstrap process among them
    States,            \* of the machine function group
    InitialState,
    StartUp,           \* the state Main of state management asks for
    activatingStates,  \* of each process
    MaxCalls           \* bound: how often SetState is called, too few times to
                       \* enter a state twice

ASSUME ProcessAssumption == StateManagement \in Processes /\ "none" \notin Processes
ASSUME StateAssumption ==
    {InitialState, StartUp} \subseteq States /\ activatingStates \in [Processes -> SUBSET States]
ASSUME CallAssumption == MaxCalls \in 0 .. 2

VARIABLES
    em,             \* where Main, and then main, of execution management is
    destructing,    \* whether TerminateAll is the one of the destructor
    signalled,      \* main got SIGTERM or SIGINT
    mChildren,      \* ProcessManager::mChildren
    process,        \* each process, as the operating system sees it
    mCurrentState,  \* StateServer::mCurrentStates of the machine function group
    mInitialized,   \* StateServer::mInitialized
    mNotifier,      \* whether SetNotifier was called
    mExecutionState,\* whether ExecutionServer knows state management to run
    handling,       \* the request the poller is handling
    toSpawn,        \* processes onStateChange has not come to yet
    forked,         \* the process Spawn has forked and not recorded yet
    requests,       \* sent by state management and not handled yet
    responses,      \* sent by execution management and not received yet
    futures,        \* of the calls of each method, in order
    wanted,         \* the states SetState was called with
    reporting,      \* whether ReportExecutionState still has its client
    attempted,      \* history: processes that Spawn was called for
    late            \* history: children recorded after TerminateAll began

osVars == <<mChildren, process>>
stateVars == <<mCurrentState, mInitialized, mNotifier, mExecutionState>>
pollerVars == <<handling, toSpawn, forked>>
wireVars == <<requests, responses>>
clientVars == <<futures, wanted, reporting>>
historyVars == <<attempted, late>>
vars == <<em, destructing, signalled, osVars, stateVars, pollerVars, wireVars, clientVars,
          historyVars>>

Methods == {"SetState", "StateTransition", "Report"}
None == "none"
Unknown == "unknown"   \* a state the manifest does not declare
NoRequest == [method |-> "none"]
Requests == [method : Methods, state : States \cup {Unknown, None}]
Responses == [method : Methods, result : {"ok", "error"}]
Outcomes == {"pending", "ok", "error", "cancelled", "timeout"}

Terminating == {"terminating", "draining", "killed", "clearing"}
Serving == {"bootstrap", "recording", "up"} \cup Terminating

TypeOK ==
    /\ em \in Serving \cup {"off", "failed", "returned", "exited"}
    /\ destructing \in BOOLEAN /\ signalled \in BOOLEAN
    /\ mChildren \subseteq Processes
    /\ process \in [Processes -> {"none", "running", "zombie", "reaped"}]
    /\ mCurrentState \in States
    /\ mInitialized \in BOOLEAN /\ mNotifier \in BOOLEAN /\ mExecutionState \in BOOLEAN
    /\ reporting \in BOOLEAN
    /\ handling \in Requests \cup {NoRequest}
    /\ toSpawn \subseteq Processes /\ forked \in Processes \cup {None}
    /\ requests \in Seq(Requests) /\ responses \in Seq(Responses)
    /\ futures \in [Methods -> Seq(Outcomes)]
    /\ wanted \in Seq(States \cup {Unknown})
    /\ attempted \subseteq Processes /\ late \subseteq Processes

Init ==
    /\ em = "off" /\ destructing = FALSE /\ signalled = FALSE
    /\ mChildren = {} /\ process = [p \in Processes |-> "none"]
    /\ mCurrentState = InitialState
    /\ mInitialized = FALSE /\ mNotifier = FALSE /\ mExecutionState = FALSE
    /\ handling = NoRequest /\ toSpawn = {} /\ forked = None
    /\ requests = << >> /\ responses = << >>
    /\ futures = [m \in Methods |-> << >>] /\ wanted = << >> /\ reporting = FALSE
    /\ attempted = {} /\ late = {}

-----------------------------------------------------------------------------
(* ProcessManager *)

\* Spawn forks; when that fails, nobody is told ...
Fork(p) ==
    /\ attempted' = attempted \cup {p}
    /\ \/ /\ process' = [process EXCEPT ![p] = "running"]
          /\ forked' = p
       \/ UNCHANGED <<process, forked>>

\* ... and records the child.
Record(p) ==
    /\ mChildren' = mChildren \cup {p}
    /\ forked' = None
    /\ late' = IF em \in Terminating \/ em = "returned" THEN late \cup {p} ELSE late

\* ReapFinished takes the children that have ended, one by one.
ReapFinished ==
    \E p \in Processes :
        /\ process[p] = "zombie"
        /\ process' = [process EXCEPT ![p] = "reaped"]
        /\ mChildren' = mChildren \ {p}

-----------------------------------------------------------------------------
(* Main of execution management *)

\* Mutant: nobody is notified of a change of state.
EmConfigureSilent ==
    /\ em = "off"
    /\ em' = "bootstrap"
    /\ UNCHANGED <<destructing, signalled, osVars, stateVars, pollerVars, wireVars, clientVars,
                   historyVars>>

\* The servers are constructed from the manifest, and the notifier is set.
EmConfigure ==
    /\ em = "off"
    /\ em' = "bootstrap"
    /\ mNotifier' = TRUE
    /\ UNCHANGED <<destructing, signalled, osVars, mCurrentState, mInitialized, mExecutionState,
                   pollerVars, wireVars, clientVars, historyVars>>

\* The manifest is incomplete or the port is taken: Main returns.
EmConfigureFails ==
    /\ em = "off"
    /\ em' = "failed"
    /\ UNCHANGED <<destructing, signalled, osVars, stateVars, pollerVars, wireVars, clientVars,
                   historyVars>>

\* The bootstrap process is spawned, by Main itself.
EmBootstrap ==
    /\ \/ /\ em = "bootstrap"
          /\ attempted' = attempted \cup {StateManagement}
          /\ \/ /\ process' = [process EXCEPT ![StateManagement] = "running"]
                /\ em' = "recording"
             \/ em' = "up" /\ UNCHANGED process
          /\ UNCHANGED mChildren
       \/ /\ em = "recording"
          /\ em' = "up"
          /\ mChildren' = mChildren \cup {StateManagement}
          /\ UNCHANGED <<process, attempted>>
    /\ UNCHANGED <<destructing, signalled, stateVars, pollerVars, wireVars, clientVars, late>>

\* A turn of the loop, or of the one that drains.
EmReap ==
    /\ em \in {"up", "draining"}
    /\ ReapFinished
    /\ UNCHANGED <<em, destructing, signalled, stateVars, pollerVars, wireVars, clientVars,
                   historyVars>>

onSignal ==
    /\ ~signalled
    /\ signalled' = TRUE
    /\ UNCHANGED <<em, destructing, osVars, stateVars, pollerVars, wireVars, clientVars,
                   historyVars>>

\* Terminate has set the token, and the loop ends.
EmCancelled ==
    /\ em = "up" /\ signalled
    /\ em' = "terminating"
    /\ UNCHANGED <<destructing, signalled, osVars, stateVars, pollerVars, wireVars, clientVars,
                   historyVars>>

\* TerminateAll asks the children to end (they may, at any time, and may not) ...
EmSigterm ==
    /\ em = "terminating"
    /\ em' = "draining"
    /\ UNCHANGED <<destructing, signalled, osVars, stateVars, pollerVars, wireVars, clientVars,
                   historyVars>>

\* Mutant: a child that ignores SIGTERM is forgotten.
EmSigkillLeaves ==
    /\ em = "draining"
    /\ em' = "clearing"
    /\ UNCHANGED <<destructing, signalled, osVars, stateVars, pollerVars, wireVars, clientVars,
                   historyVars>>

\* Mutant: it is asked once more, and then waited for.
EmSigkillAsks ==
    /\ em = "draining"
    /\ em' = "killed"
    /\ UNCHANGED <<destructing, signalled, osVars, stateVars, pollerVars, wireVars, clientVars,
                   historyVars>>

\* ... and kills those left when none is left or the time is over ...
EmSigkill ==
    /\ em = "draining"
    /\ em' = "killed"
    /\ process' = [p \in Processes |->
                      IF p \in mChildren /\ process[p] = "running" THEN "zombie" ELSE process[p]]
    /\ UNCHANGED <<destructing, signalled, mChildren, stateVars, pollerVars, wireVars, clientVars,
                   historyVars>>

\* ... waits for each of them, whatever that takes ...
EmWait ==
    /\ em = "killed"
    /\ \A p \in mChildren : process[p] # "running"
    /\ em' = "clearing"
    /\ process' = [p \in Processes |-> IF p \in mChildren THEN "reaped" ELSE process[p]]
    /\ UNCHANGED <<destructing, signalled, mChildren, stateVars, pollerVars, wireVars, clientVars,
                   historyVars>>

\* ... and forgets them all.  Main returns, and with it ends the RPC server; or
\* it was the destructor, and main returns.
EmClear ==
    /\ em = "clearing"
    /\ mChildren' = {}
    /\ em' = IF destructing THEN "exited" ELSE "returned"
    /\ UNCHANGED <<destructing, signalled, process, stateVars, pollerVars, wireVars, clientVars,
                   historyVars>>

\* main stops the poller, waits for it and deletes execution management.
EmDelete ==
    /\ em \in {"returned", "failed"} /\ signalled /\ handling = NoRequest
    /\ em' = "terminating"
    /\ destructing' = TRUE
    /\ UNCHANGED <<signalled, osVars, stateVars, pollerVars, wireVars, clientVars, historyVars>>

EmMain ==
    \/ EmConfigure \/ EmConfigureFails \/ EmBootstrap \/ EmReap \/ EmCancelled \/ EmSigterm
    \/ EmSigkill \/ EmWait \/ EmClear \/ EmDelete

-----------------------------------------------------------------------------
(* The poller of execution management *)

\* SocketRpcServer::onReceive hands a request to its handler.
onReceive ==
    /\ handling = NoRequest /\ requests # << >>
    /\ em \in Serving /\ ~destructing
    /\ handling' = Head(requests)
    /\ requests' = Tail(requests)
    /\ UNCHANGED <<em, destructing, signalled, osVars, stateVars, toSpawn, forked, responses,
                   clientVars, historyVars>>

Respond(result) ==
    /\ responses' = Append(responses, [method |-> handling.method, result |-> result])
    /\ handling' = NoRequest

\* handleStateTransition: only the first one succeeds.
handleStateTransition ==
    /\ handling # NoRequest /\ handling.method = "StateTransition"
    /\ Respond(IF mInitialized THEN "error" ELSE "ok")
    /\ mInitialized' = TRUE
    /\ UNCHANGED <<em, destructing, signalled, osVars, mCurrentState, mNotifier, mExecutionState,
                   toSpawn, forked, requests, clientVars, historyVars>>

handleExecutionStateReport ==
    /\ handling # NoRequest /\ handling.method = "Report"
    /\ Respond(IF mExecutionState THEN "error" ELSE "ok")
    /\ mExecutionState' = TRUE
    /\ UNCHANGED <<em, destructing, signalled, osVars, mCurrentState, mInitialized, mNotifier,
                   toSpawn, forked, requests, clientVars, historyVars>>

\* handleSetState refuses the current state and one it does not know ...
handleSetStateRefuses ==
    /\ handling # NoRequest /\ handling.method = "SetState"
    /\ toSpawn = {} /\ forked = None
    /\ handling.state \notin States \ {mCurrentState}
    /\ Respond("error")
    /\ UNCHANGED <<em, destructing, signalled, osVars, stateVars, toSpawn, forked, requests,
                   clientVars, historyVars>>

\* The descriptors of the manifest: the bootstrap process is not one of them.
Activated(state) == {p \in Processes \ {StateManagement} : state \in activatingStates[p]}

NotifyState(state) ==
    IF mNotifier /\ Activated(state) # {}
    THEN toSpawn' = Activated(state) /\ UNCHANGED <<handling, responses>>
    ELSE Respond("ok") /\ UNCHANGED toSpawn

\* ... takes another one, and notifies: onStateChange looks for the processes.
handleSetState ==
    /\ handling # NoRequest /\ handling.method = "SetState"
    /\ toSpawn = {} /\ forked = None
    /\ handling.state \in States \ {mCurrentState}
    /\ mCurrentState' = handling.state
    /\ NotifyState(handling.state)
    /\ UNCHANGED <<em, destructing, signalled, osVars, mInitialized, mNotifier, mExecutionState,
                   forked, requests, clientVars, historyVars>>

\* onStateChange spawns them, one after the other, and the answer follows.
onStateChange ==
    /\ toSpawn # {} /\ forked = None
    /\ \E p \in toSpawn : Fork(p) /\ toSpawn' = toSpawn \ {p}
    /\ IF toSpawn' = {} /\ forked' = None THEN Respond("ok") ELSE UNCHANGED <<handling, responses>>
    /\ UNCHANGED <<em, destructing, signalled, mChildren, stateVars, requests, clientVars, late>>

SpawnRecords ==
    /\ forked # None
    /\ Record(forked)
    /\ IF toSpawn = {} THEN Respond("ok") ELSE UNCHANGED <<handling, responses>>
    /\ UNCHANGED <<em, destructing, signalled, process, stateVars, toSpawn, requests, clientVars,
                   attempted>>

Poller ==
    \/ onReceive \/ handleStateTransition \/ handleExecutionStateReport
    \/ handleSetStateRefuses \/ handleSetState \/ onStateChange \/ SpawnRecords

-----------------------------------------------------------------------------
(* The processes, and state management among them *)

\* A process ends: it is done, was asked to, crashed, or could not be executed.
ProcessEnds(p) ==
    /\ process[p] = "running"
    /\ process' = [process EXCEPT ![p] = "zombie"]
    /\ UNCHANGED <<em, destructing, signalled, mChildren, stateVars, pollerVars, wireVars,
                   clientVars, historyVars>>

Pending(m) == futures[m] # << >> /\ futures[m][Len(futures[m])] = "pending"

\* RpcClient::Send: the queue refuses the request when its lock is held.
Send(m, s) ==
    \/ requests' = Append(requests, [method |-> m, state |-> s])
    \/ UNCHANGED requests

\* StateClient::SetState cancels the call before.  Main calls it once, for the
\* start-up state, after GetInitialMachineStateTransitionResult; whoever calls
\* it again asks for any state.
SetState(s) ==
    /\ process[StateManagement] = "running" /\ Len(futures["SetState"]) < MaxCalls
    /\ futures["StateTransition"] # << >>
    /\ wanted = << >> => s = StartUp
    /\ Send("SetState", s)
    /\ LET before == [i \in DOMAIN futures["SetState"] |->
                         IF futures["SetState"][i] = "pending" THEN "cancelled"
                                                               ELSE futures["SetState"][i]]
       IN  futures' = [futures EXCEPT !["SetState"] = Append(before, "pending")]
    /\ wanted' = Append(wanted, s)
    /\ UNCHANGED <<em, destructing, signalled, osVars, stateVars, pollerVars, responses, reporting,
                   historyVars>>

GetInitialMachineStateTransitionResult ==
    /\ process[StateManagement] = "running" /\ futures["StateTransition"] = << >>
    /\ Send("StateTransition", None)
    /\ futures' = [futures EXCEPT !["StateTransition"] = <<"pending">>]
    /\ UNCHANGED <<em, destructing, signalled, osVars, stateVars, pollerVars, responses, wanted,
                   reporting, historyVars>>

ReportExecutionState ==
    /\ process[StateManagement] = "running" /\ futures["Report"] = << >>
    /\ Send("Report", None)
    /\ futures' = [futures EXCEPT !["Report"] = <<"pending">>]
    /\ reporting' = TRUE
    /\ UNCHANGED <<em, destructing, signalled, osVars, stateVars, pollerVars, responses, wanted,
                   historyVars>>

ReportTimeout ==
    /\ process[StateManagement] = "running" /\ Pending("Report")
    /\ futures' = [futures EXCEPT !["Report"] = <<"timeout">>]
    /\ UNCHANGED <<em, destructing, signalled, osVars, stateVars, pollerVars, wireVars, wanted,
                   reporting, historyVars>>

\* reportExecutionState returns and its ExecutionClient is gone; the RPC client
\* keeps the handler.
ReportReturns ==
    /\ process[StateManagement] = "running" /\ reporting /\ ~Pending("Report")
    /\ reporting' = FALSE
    /\ UNCHANGED <<em, destructing, signalled, osVars, stateVars, pollerVars, wireVars, futures,
                   wanted, historyVars>>

\* RpcClient::InvokeHandler: an answer settles the latest call of its method.
genericHandler ==
    /\ process[StateManagement] = "running" /\ responses # << >>
    /\ LET r == Head(responses) IN
       /\ Pending(r.method)
       /\ futures' = [futures EXCEPT ![r.method][Len(futures[r.method])] = r.result]
    /\ responses' = Tail(responses)
    /\ UNCHANGED <<em, destructing, signalled, osVars, stateVars, pollerVars, requests, wanted,
                   reporting, historyVars>>

\* An answer to a promise that is kept already is an exception nobody catches;
\* one to a client that is gone is undefined, and one that comes after the
\* timeout but before that is ignored.
genericHandlerFails ==
    /\ process[StateManagement] = "running" /\ responses # << >>
    /\ LET r == Head(responses) IN
       /\ ~Pending(r.method)
       /\ \/ process' = [process EXCEPT ![StateManagement] = "zombie"]
          \/ r.method = "Report" /\ UNCHANGED process
    /\ responses' = Tail(responses)
    /\ UNCHANGED <<em, destructing, signalled, mChildren, stateVars, pollerVars, requests,
                   clientVars, historyVars>>

Client ==
    \/ \E s \in States \cup {Unknown} : SetState(s)
    \/ GetInitialMachineStateTransitionResult \/ ReportExecutionState \/ ReportTimeout
    \/ ReportReturns \/ genericHandler \/ genericHandlerFails

-----------------------------------------------------------------------------
Done == em = "exited" /\ UNCHANGED vars

Next ==
    \/ EmMain \/ onSignal \/ Poller \/ Client
    \/ \E p \in Processes : ProcessEnds(p)
    \/ Done

Spec == Init /\ [][Next]_vars

\* Both threads of execution management run.  The processes owe it nothing: a
\* child may ignore SIGTERM for ever.
Fairness == WF_vars(EmMain) /\ WF_vars(Poller)

FairSpec == Spec /\ Fairness

-----------------------------------------------------------------------------
(* Properties *)

\* When the first call of SetState succeeds, the one StateManagement makes, an
\* attempt was made to start every process which that state activates: the
\* notifier was set before anybody could ask, and the answer follows the work.
SuccessMeansStarted ==
    futures["SetState"] # << >> /\ futures["SetState"][1] = "ok" =>
        \A p \in Processes \ {StateManagement} :
            wanted[1] \in activatingStates[p] => p \in attempted

\* A child that was recorded when TerminateAll began does not outlive execution
\* management, whether it obeys SIGTERM or not.
KnownChildrenEnd ==
    em = "exited" => \A p \in Processes : process[p] = "running" => p \in late

\* Execution management ends when it is signalled, unless a request that was
\* under way made it spawn a process in the middle of TerminateAll.
Terminates == signalled ~> em = "exited" \/ late # {}

=============================================================================
