--------------------------- MODULE ExecutionProofs ---------------------------
(***************************************************************************)
(* Proofs about Execution, for every set of processes and of states,       *)
(* every assignment of the ones to the others and every number of calls.   *)
(***************************************************************************)
EXTENDS Execution, TLAPS

Spawning == toSpawn # {} \/ forked # None

\* The poller spawns only within a request of SetState, and is gone when the
\* destructor runs: main waits for it first.
PollerInv ==
    /\ Spawning => handling # NoRequest /\ handling.method = "SetState"
    /\ destructing => handling = NoRequest
    /\ em = "exited" => destructing

\* A running process that was not recorded late is a child until TerminateAll has
\* waited for the children, unless the thread that forked it has yet to record it.
ChildrenInv ==
    \A p \in Processes : process[p] = "running" =>
        \/ p \in late \/ p = forked
        \/ p \in mChildren /\ em \notin {"clearing", "exited"}
        \/ p = StateManagement /\ em = "recording"

\* The notifier is set before anything can be asked.
NotifierInv ==
    /\ em \in Serving \cup {"returned"} /\ ~destructing => mNotifier
    /\ handling # NoRequest => mNotifier

Calls == Len(futures["SetState"])

AllAttempted == Activated(StartUp) \subseteq attempted

SuccessOf(m) == [method |-> m, result |-> "ok"]

\* Up to the second call of SetState, whatever is under way belongs to the first:
\* requests are for the start-up state, the work in progress is for it, and an
\* answer of success was sent when that was done.
UnderWay ==
    /\ \A k \in DOMAIN requests :
          requests[k].method = "SetState" => Calls = 1 /\ requests[k].state = StartUp
    /\ handling # NoRequest /\ handling.method = "SetState" =>
          Calls = 1 /\ handling.state = StartUp
    /\ \A k \in DOMAIN responses : responses[k] = SuccessOf("SetState") => AllAttempted
    /\ Spawning => Activated(StartUp) \subseteq attempted \cup toSpawn

FirstCallInv ==
    /\ Len(wanted) = Calls
    /\ Calls > 0 => wanted[1] = StartUp
    /\ Calls > 0 /\ futures["SetState"][1] = "ok" => AllAttempted
    /\ Calls <= 1 => UnderWay

-----------------------------------------------------------------------------
(* Types *)

LEMMA InitTypes == Init => TypeOK /\ PollerInv
  <1> SUFFICES ASSUME Init PROVE TypeOK /\ PollerInv
    OBVIOUS
  <1>1. mCurrentState \in States
    BY StateAssumption DEF Init
  <1>2. futures \in [Methods -> Seq(Outcomes)]
    BY DEF Init
  <1>3. em \in Serving \cup {"off", "failed", "returned", "exited"}
    BY DEF Init
  <1>4. PollerInv
    BY DEF Init, PollerInv, Spawning
  <1>5. /\ destructing \in BOOLEAN /\ signalled \in BOOLEAN /\ mInitialized \in BOOLEAN
        /\ mNotifier \in BOOLEAN /\ mExecutionState \in BOOLEAN /\ reporting \in BOOLEAN
    BY Zenon DEF Init
  <1>6. process \in [Processes -> {"none", "running", "zombie", "reaped"}]
    BY DEF Init
  <1>7. /\ mChildren \subseteq Processes /\ toSpawn \subseteq Processes
        /\ attempted \subseteq Processes /\ late \subseteq Processes
        /\ handling \in Requests \cup {NoRequest} /\ forked \in Processes \cup {None}
    BY DEF Init
  <1>8. requests \in Seq(Requests) /\ responses \in Seq(Responses) /\ wanted \in Seq(States \cup {Unknown})
    BY DEF Init
  <1> QED
    BY <1>1, <1>2, <1>3, <1>4, <1>5, <1>6, <1>7, <1>8 DEF TypeOK

\* NoRequest is no request.
LEMMA NoRequestIsNone == NoRequest \notin Requests
  BY DEF NoRequest, Requests, Methods

\* An answer has its type.
LEMMA RespondTypes ==
    ASSUME TypeOK, handling # NoRequest, NEW result \in {"ok", "error"}, Respond(result)
    PROVE  responses' \in Seq(Responses) /\ handling' = NoRequest
  <1>1. handling.method \in Methods
    BY DEF TypeOK, Requests
  <1>2. [method |-> handling.method, result |-> result] \in Responses
    BY <1>1 DEF Responses
  <1> QED
    BY <1>2 DEF Respond, TypeOK

LEMMA MainTypes == TypeOK /\ PollerInv /\ EmMain => TypeOK' /\ PollerInv'
  <1> SUFFICES ASSUME TypeOK, PollerInv, EmMain PROVE TypeOK' /\ PollerInv'
    OBVIOUS
  <1> USE DEF TypeOK, PollerInv, Spawning, osVars, stateVars, pollerVars, wireVars, clientVars,
             historyVars, Serving, Terminating
  <1>1. CASE EmConfigure
    BY <1>1 DEF EmConfigure
  <1>2. CASE EmConfigureFails
    BY <1>2 DEF EmConfigureFails
  <1>3. CASE EmBootstrap
    BY <1>3, ProcessAssumption DEF EmBootstrap
  <1>4. CASE EmReap
    BY <1>4 DEF EmReap, ReapFinished
  <1>5. CASE EmCancelled
    BY <1>5 DEF EmCancelled
  <1>6. CASE EmSigterm
    BY <1>6 DEF EmSigterm
  <1>7. CASE EmSigkill
    BY <1>7 DEF EmSigkill
  <1>8. CASE EmWait
    BY <1>8 DEF EmWait
  <1>9. CASE EmClear
    BY <1>9 DEF EmClear
  <1>10. CASE EmDelete
    BY <1>10 DEF EmDelete
  <1> QED
    BY <1>1, <1>2, <1>3, <1>4, <1>5, <1>6, <1>7, <1>8, <1>9, <1>10 DEF EmMain

LEMMA PollerTypes == TypeOK /\ PollerInv /\ Poller => TypeOK' /\ PollerInv'
  <1> SUFFICES ASSUME TypeOK, PollerInv, Poller PROVE TypeOK' /\ PollerInv'
    OBVIOUS
  <1> USE DEF osVars, stateVars, clientVars, historyVars, PollerInv, Spawning
  <1>1. CASE onReceive
    BY <1>1 DEF onReceive, TypeOK
  <1>2. CASE handleStateTransition
    <2>1. responses' \in Seq(Responses) /\ handling' = NoRequest
      BY <1>2, RespondTypes DEF handleStateTransition
    <2> QED
      BY <1>2, <2>1 DEF handleStateTransition, TypeOK
  <1>3. CASE handleExecutionStateReport
    <2>1. responses' \in Seq(Responses) /\ handling' = NoRequest
      BY <1>3, RespondTypes DEF handleExecutionStateReport
    <2> QED
      BY <1>3, <2>1 DEF handleExecutionStateReport, TypeOK
  <1>4. CASE handleSetStateRefuses
    <2>1. responses' \in Seq(Responses) /\ handling' = NoRequest
      BY <1>4, RespondTypes DEF handleSetStateRefuses
    <2> QED
      BY <1>4, <2>1 DEF handleSetStateRefuses, TypeOK
  <1>5. CASE handleSetState
    <2>1. \/ UNCHANGED <<handling, responses>>
          \/ responses' \in Seq(Responses) /\ handling' = NoRequest /\ UNCHANGED toSpawn
      BY <1>5, RespondTypes DEF handleSetState, NotifyState
    <2>2. toSpawn' \subseteq Processes /\ mCurrentState' \in States
      BY <1>5 DEF handleSetState, NotifyState, Activated, Respond, TypeOK
    <2> QED
      BY <1>5, <2>1, <2>2 DEF handleSetState, TypeOK
  <1>6. CASE onStateChange
    <2>1. handling # NoRequest
      BY <1>6 DEF onStateChange
    <2>2. \/ UNCHANGED <<handling, responses>>
          \/ responses' \in Seq(Responses) /\ handling' = NoRequest /\ toSpawn' = {} /\ forked' = None
      BY <1>6, <2>1, RespondTypes DEF onStateChange
    <2>3. PICK p \in toSpawn : Fork(p) /\ toSpawn' = toSpawn \ {p}
      BY <1>6 DEF onStateChange
    <2>4. toSpawn' \subseteq Processes /\ forked' \in Processes \cup {None} /\ attempted' \subseteq Processes
          /\ process' \in [Processes -> {"none", "running", "zombie", "reaped"}]
      BY <2>3 DEF Fork, TypeOK
    <2> QED
      BY <1>6, <2>1, <2>2, <2>4 DEF onStateChange, TypeOK
  <1>7. CASE SpawnRecords
    <2>1. handling # NoRequest
      BY <1>7 DEF SpawnRecords
    <2>2. \/ UNCHANGED <<handling, responses>>
          \/ responses' \in Seq(Responses) /\ handling' = NoRequest /\ toSpawn = {}
      BY <1>7, <2>1, RespondTypes DEF SpawnRecords
    <2> QED
      BY <1>7, <2>1, <2>2 DEF SpawnRecords, Record, TypeOK
  <1> QED
    BY <1>1, <1>2, <1>3, <1>4, <1>5, <1>6, <1>7 DEF Poller

\* A request has its type.
LEMMA SendTypes ==
    ASSUME TypeOK, NEW m \in Methods, NEW s \in States \cup {Unknown, None}, Send(m, s)
    PROVE  requests' \in Seq(Requests)
  <1>1. [method |-> m, state |-> s] \in Requests
    BY DEF Requests
  <1>2. requests \in Seq(Requests)
    BY DEF TypeOK
  <1>3. Append(requests, [method |-> m, state |-> s]) \in Seq(Requests)
    BY <1>1, <1>2
  <1> QED
    BY <1>2, <1>3, Zenon DEF Send

\* The outcomes that a step of the client leaves.
LEMMA CallTypes ==
    ASSUME TypeOK, NEW m \in Methods, NEW calls \in Seq(Outcomes),
           futures' = [futures EXCEPT ![m] = calls]
    PROVE  futures' \in [Methods -> Seq(Outcomes)]
  BY DEF TypeOK

LEMMA ClientTypes == TypeOK /\ PollerInv /\ Client => TypeOK' /\ PollerInv'
  <1> SUFFICES ASSUME TypeOK, PollerInv, Client PROVE TypeOK' /\ PollerInv'
    OBVIOUS
  <1> USE DEF osVars, stateVars, pollerVars, wireVars, clientVars, historyVars, PollerInv, Spawning
  <1>0. /\ "SetState" \in Methods /\ "StateTransition" \in Methods /\ "Report" \in Methods
        /\ <<"pending">> \in Seq(Outcomes) /\ <<"timeout">> \in Seq(Outcomes)
    BY DEF Methods, Outcomes
  <1>1. ASSUME NEW s \in States \cup {Unknown}, SetState(s) PROVE TypeOK' /\ PollerInv'
    <2> DEFINE before == [i \in DOMAIN futures["SetState"] |->
                            IF futures["SetState"][i] = "pending" THEN "cancelled"
                                                                  ELSE futures["SetState"][i]]
    <2>1. futures["SetState"] \in Seq(Outcomes)
      BY <1>0 DEF TypeOK
    <2>2. Append(before, "pending") \in Seq(Outcomes)
      BY <2>1 DEF Outcomes
    <2>3. futures' \in [Methods -> Seq(Outcomes)]
      BY <1>0, <1>1, <2>2, CallTypes DEF SetState
    <2>4. requests' \in Seq(Requests)
      BY <1>0, <1>1, SendTypes DEF SetState
    <2> QED
      BY <1>1, <2>3, <2>4 DEF SetState, TypeOK
  <1>2. CASE GetInitialMachineStateTransitionResult
    BY <1>0, <1>2, SendTypes, CallTypes DEF GetInitialMachineStateTransitionResult, TypeOK
  <1>3. CASE ReportExecutionState
    <2>1. requests' \in Seq(Requests) /\ futures' \in [Methods -> Seq(Outcomes)]
      BY <1>0, <1>3, SendTypes, CallTypes DEF ReportExecutionState
    <2> QED
      BY <1>3, <2>1 DEF ReportExecutionState, TypeOK
  <1>4. CASE ReportTimeout
    BY <1>0, <1>4, CallTypes DEF ReportTimeout, TypeOK
  <1>5. CASE ReportReturns
    BY <1>5 DEF ReportReturns, TypeOK
  <1>6. CASE genericHandler
    <2> DEFINE r == Head(responses)
    <2>1. r \in Responses /\ responses' \in Seq(Responses)
      BY <1>6 DEF genericHandler, TypeOK
    <2>2. r.method \in Methods /\ r.result \in Outcomes
      BY <2>1 DEF Responses, Outcomes
    <2>3. futures[r.method] \in Seq(Outcomes) /\ futures[r.method] # << >>
      BY <1>6, <2>2 DEF genericHandler, Pending, TypeOK
    <2>4. [futures[r.method] EXCEPT ![Len(futures[r.method])] = r.result] \in Seq(Outcomes)
      BY <2>2, <2>3
    <2>5. futures' = [futures EXCEPT ![r.method] =
                        [futures[r.method] EXCEPT ![Len(futures[r.method])] = r.result]]
      BY <1>6 DEF genericHandler
    <2>6. futures' \in [Methods -> Seq(Outcomes)]
      BY <2>2, <2>4, <2>5, CallTypes
    <2> QED
      BY <1>6, <2>1, <2>6 DEF genericHandler, TypeOK
  <1>7. CASE genericHandlerFails
    BY <1>7, ProcessAssumption DEF genericHandlerFails, TypeOK
  <1> QED
    BY <1>1, <1>2, <1>3, <1>4, <1>5, <1>6, <1>7 DEF Client

LEMMA NextTypes == TypeOK /\ PollerInv /\ [Next]_vars => TypeOK' /\ PollerInv'
  <1> SUFFICES ASSUME TypeOK, PollerInv, [Next]_vars PROVE TypeOK' /\ PollerInv'
    OBVIOUS
  <1> USE DEF osVars, stateVars, pollerVars, wireVars, clientVars, historyVars
  <1>1. CASE onSignal
    BY <1>1 DEF onSignal, TypeOK, PollerInv, Spawning
  <1>2. ASSUME NEW p \in Processes, ProcessEnds(p) PROVE TypeOK' /\ PollerInv'
    BY <1>2 DEF ProcessEnds, TypeOK, PollerInv, Spawning
  <1>3. CASE UNCHANGED vars
    BY <1>3 DEF vars, TypeOK, PollerInv, Spawning
  <1> QED
    BY <1>1, <1>2, <1>3, MainTypes, PollerTypes, ClientTypes DEF Next, Done

\* Execution management and its client keep their types, and the poller spawns
\* only for a request that it has not answered and never under the destructor.
THEOREM TypesHold == Spec => [](TypeOK /\ PollerInv)
  BY InitTypes, NextTypes, PTL DEF Spec

-----------------------------------------------------------------------------
(* Children *)

LEMMA InitChildren == Init => ChildrenInv
  BY DEF Init, ChildrenInv

\* No step of Main leaves a running process that it could forget.
LEMMA MainKeepsChildren ==
    TypeOK /\ PollerInv /\ ChildrenInv /\ EmMain => ChildrenInv'
  <1> SUFFICES ASSUME TypeOK, PollerInv, ChildrenInv, EmMain,
                      NEW p \in Processes, process'[p] = "running"
               PROVE  \/ p \in late' \/ p = forked'
                      \/ p \in mChildren' /\ em' \notin {"clearing", "exited"}
                      \/ p = StateManagement /\ em' = "recording"
    BY DEF ChildrenInv
  <1> USE DEF osVars, stateVars, pollerVars, wireVars, clientVars, historyVars
  <1>0. /\ process \in [Processes -> {"none", "running", "zombie", "reaped"}]
        /\ process[p] = "running" =>
              \/ p \in late \/ p = forked
              \/ p \in mChildren /\ em \notin {"clearing", "exited"}
              \/ p = StateManagement /\ em = "recording"
    BY DEF TypeOK, ChildrenInv
  <1>1. CASE EmConfigure
    BY <1>0, <1>1 DEF EmConfigure
  <1>2. CASE EmConfigureFails
    BY <1>0, <1>2 DEF EmConfigureFails
  <1>3. CASE EmBootstrap
    BY <1>0, <1>3, ProcessAssumption DEF EmBootstrap
  <1>4. CASE EmReap
    BY <1>0, <1>4 DEF EmReap, ReapFinished
  <1>5. CASE EmCancelled
    BY <1>0, <1>5 DEF EmCancelled
  <1>6. CASE EmSigterm
    BY <1>0, <1>6 DEF EmSigterm
  <1>7. CASE EmSigkill
    BY <1>0, <1>7 DEF EmSigkill
  <1>8. CASE EmWait
    BY <1>0, <1>8 DEF EmWait
  <1>9. CASE EmClear
    BY <1>0, <1>9 DEF EmClear
  <1>10. CASE EmDelete
    BY <1>0, <1>10 DEF EmDelete
  <1> QED
    BY <1>1, <1>2, <1>3, <1>4, <1>5, <1>6, <1>7, <1>8, <1>9, <1>10 DEF EmMain

\* A child that the poller records during TerminateAll is a late one.
LEMMA PollerKeepsChildren ==
    TypeOK /\ PollerInv /\ ChildrenInv /\ Poller => ChildrenInv'
  <1> SUFFICES ASSUME TypeOK, PollerInv, ChildrenInv, Poller,
                      NEW p \in Processes, process'[p] = "running"
               PROVE  \/ p \in late' \/ p = forked'
                      \/ p \in mChildren' /\ em' \notin {"clearing", "exited"}
                      \/ p = StateManagement /\ em' = "recording"
    BY DEF ChildrenInv
  <1> USE DEF osVars, stateVars, clientVars, historyVars
  <1>0. /\ process \in [Processes -> {"none", "running", "zombie", "reaped"}]
        /\ process[p] = "running" =>
              \/ p \in late \/ p = forked
              \/ p \in mChildren /\ em \notin {"clearing", "exited"}
              \/ p = StateManagement /\ em = "recording"
    BY DEF TypeOK, ChildrenInv
  <1>1. CASE onReceive
    BY <1>0, <1>1 DEF onReceive
  <1>2. CASE handleStateTransition
    BY <1>0, <1>2 DEF handleStateTransition
  <1>3. CASE handleExecutionStateReport
    BY <1>0, <1>3 DEF handleExecutionStateReport
  <1>4. CASE handleSetStateRefuses
    BY <1>0, <1>4 DEF handleSetStateRefuses
  <1>5. CASE handleSetState
    BY <1>0, <1>5 DEF handleSetState
  <1>6. CASE onStateChange
    <2>1. PICK q \in toSpawn : Fork(q)
      BY <1>6 DEF onStateChange
    <2>2. p # "none" /\ forked = None
      BY <1>6, ProcessAssumption DEF onStateChange
    <2>3. CASE p = q /\ forked' = q
      BY <2>3
    <2>4. CASE p # q \/ forked' # q
      <3>1. process'[p] = process[p]
        BY <1>0, <2>1, <2>4 DEF Fork
      <3> QED
        BY <1>0, <1>6, <2>2, <3>1 DEF onStateChange, None
    <2> QED
      BY <2>3, <2>4
  <1>7. CASE SpawnRecords
    <2>1. em # "exited"
      BY <1>7 DEF SpawnRecords, PollerInv, Spawning
    <2> QED
      BY <1>0, <1>7, <2>1 DEF SpawnRecords, Record, Terminating
  <1> QED
    BY <1>1, <1>2, <1>3, <1>4, <1>5, <1>6, <1>7 DEF Poller

LEMMA NextKeepsChildren ==
    TypeOK /\ PollerInv /\ ChildrenInv /\ [Next]_vars => ChildrenInv'
  <1> SUFFICES ASSUME TypeOK, PollerInv, ChildrenInv, [Next]_vars PROVE ChildrenInv'
    OBVIOUS
  <1> USE DEF osVars, stateVars, pollerVars, wireVars, clientVars, historyVars
  <1>1. CASE onSignal
    BY <1>1 DEF onSignal, ChildrenInv
  <1>2. ASSUME NEW p \in Processes, ProcessEnds(p) PROVE ChildrenInv'
    BY <1>2 DEF ProcessEnds, TypeOK, ChildrenInv
  <1>3. CASE UNCHANGED vars
    BY <1>3 DEF vars, ChildrenInv
  <1>4. ASSUME NEW s \in States \cup {Unknown}, SetState(s) PROVE ChildrenInv'
    BY <1>4 DEF SetState, ChildrenInv
  <1>5. CASE GetInitialMachineStateTransitionResult
    BY <1>5 DEF GetInitialMachineStateTransitionResult, ChildrenInv
  <1>6. CASE ReportExecutionState
    BY <1>6 DEF ReportExecutionState, ChildrenInv
  <1>7. CASE ReportTimeout
    BY <1>7 DEF ReportTimeout, ChildrenInv
  <1>8. CASE ReportReturns
    BY <1>8 DEF ReportReturns, ChildrenInv
  <1>9. CASE genericHandler
    BY <1>9 DEF genericHandler, ChildrenInv
  <1>10. CASE genericHandlerFails
    BY <1>10, ProcessAssumption DEF genericHandlerFails, TypeOK, ChildrenInv
  <1> QED
    BY <1>1, <1>2, <1>3, <1>4, <1>5, <1>6, <1>7, <1>8, <1>9, <1>10,
       MainKeepsChildren, PollerKeepsChildren DEF Next, Client, Done

\* No child that TerminateAll knew outlives execution management, whichever
\* requests the poller was handling meanwhile.
THEOREM ChildrenDoNotOutlive == Spec => []KnownChildrenEnd
  <1>1. TypeOK /\ PollerInv /\ ChildrenInv => KnownChildrenEnd
    <2> SUFFICES ASSUME PollerInv, ChildrenInv, em = "exited",
                        NEW p \in Processes, process[p] = "running"
                 PROVE  p \in late
      BY DEF KnownChildrenEnd
    <2>1. forked = None /\ p # None
      BY ProcessAssumption DEF PollerInv, Spawning, None
    <2> QED
      BY <2>1 DEF ChildrenInv
  <1> QED
    BY <1>1, InitTypes, NextTypes, InitChildren, NextKeepsChildren, PTL DEF Spec

-----------------------------------------------------------------------------
(* The first call of SetState *)

LEMMA InitNotifier == Init => NotifierInv
  BY DEF Init, NotifierInv, Serving, Terminating

LEMMA NextKeepsNotifier ==
    TypeOK /\ PollerInv /\ NotifierInv /\ [Next]_vars => NotifierInv'
  <1> SUFFICES ASSUME TypeOK, PollerInv, NotifierInv, [Next]_vars PROVE NotifierInv'
    OBVIOUS
  <1> USE DEF NotifierInv, osVars, stateVars, pollerVars, wireVars, clientVars, historyVars
  <1>1. CASE EmMain
    BY <1>1 DEF EmMain, EmConfigure, EmConfigureFails, EmBootstrap, EmReap, EmCancelled, EmSigterm,
                EmSigkill, EmWait, EmClear, EmDelete, Serving, Terminating, PollerInv
  <1>2. CASE onReceive
    BY <1>2 DEF onReceive
  <1>3. CASE \/ handleStateTransition \/ handleExecutionStateReport \/ handleSetStateRefuses
             \/ handleSetState \/ onStateChange \/ SpawnRecords
    <2>1. UNCHANGED <<em, destructing, mNotifier>>
      BY <1>3 DEF handleStateTransition, handleExecutionStateReport, handleSetStateRefuses,
                  handleSetState, onStateChange, SpawnRecords
    <2>2. handling # NoRequest
      BY <1>3 DEF handleStateTransition, handleExecutionStateReport, handleSetStateRefuses,
                  handleSetState, onStateChange, SpawnRecords, PollerInv, Spawning
    <2> QED
      BY <2>1, <2>2
  <1>4. CASE Client
    BY <1>4 DEF Client, SetState, GetInitialMachineStateTransitionResult, ReportExecutionState,
                ReportTimeout, ReportReturns, genericHandler, genericHandlerFails
  <1>5. CASE onSignal \/ (\E p \in Processes : ProcessEnds(p)) \/ UNCHANGED vars
    BY <1>5 DEF onSignal, ProcessEnds, vars
  <1> QED
    BY <1>1, <1>2, <1>3, <1>4, <1>5 DEF Next, Poller, Done

LEMMA InitFirstCall == Init => FirstCallInv
  BY DEF Init, FirstCallInv, UnderWay, Calls, Spawning, Methods

\* What FirstCallInv reads does not change.
LEMMA FirstCallFrame ==
    ASSUME FirstCallInv,
           UNCHANGED <<futures, wanted, attempted, requests, responses, handling, toSpawn, forked>>
    PROVE  FirstCallInv'
  BY DEF FirstCallInv, UnderWay, Calls, Spawning, AllAttempted

\* An answer is sent when the poller has nothing left to spawn.
LEMMA RespondKeepsFirst ==
    ASSUME TypeOK, FirstCallInv, handling # NoRequest, NEW result \in {"ok", "error"},
           Respond(result), toSpawn' = {}, forked' = None,
           UNCHANGED <<futures, wanted, requests>>, attempted \subseteq attempted',
           Calls = 1 /\ handling.method = "SetState" /\ result = "ok" => AllAttempted'
    PROVE  FirstCallInv'
  <1>1. Calls' = Calls /\ (AllAttempted => AllAttempted')
    BY DEF Calls, AllAttempted
  <1>2. ASSUME Calls <= 1 PROVE UnderWay'
    <2>1. UnderWay
      BY <1>2 DEF FirstCallInv
    <2>2. ASSUME NEW k \in DOMAIN responses', responses'[k] = SuccessOf("SetState")
          PROVE  AllAttempted'
      <3>1. CASE k \in DOMAIN responses
        <4>1. responses'[k] = responses[k]
          BY <3>1 DEF Respond, TypeOK
        <4> QED
          BY <1>1, <2>1, <2>2, <3>1, <4>1 DEF UnderWay
      <3>2. CASE k \notin DOMAIN responses
        <4>1. responses'[k] = [method |-> handling.method, result |-> result]
          BY <2>2, <3>2 DEF Respond, TypeOK
        <4>2. handling.method = "SetState" /\ result = "ok"
          BY <2>2, <4>1 DEF SuccessOf
        <4>3. Calls = 1
          BY <2>1, <4>2 DEF UnderWay
        <4> QED
          BY <4>2, <4>3
      <3> QED
        BY <3>1, <3>2
    <2> QED
      BY <1>1, <2>1, <2>2 DEF UnderWay, Respond, Spawning
  <1> QED
    BY <1>1, <1>2 DEF FirstCallInv

LEMMA PollerKeepsFirst ==
    TypeOK /\ PollerInv /\ NotifierInv /\ FirstCallInv /\ Poller => FirstCallInv'
  <1> SUFFICES ASSUME TypeOK, PollerInv, NotifierInv, FirstCallInv, Poller PROVE FirstCallInv'
    OBVIOUS
  <1> USE DEF osVars, stateVars, clientVars, historyVars
  <1>1. CASE onReceive
    <2>1. Calls' = Calls /\ AllAttempted' = AllAttempted
      BY <1>1 DEF onReceive, Calls, AllAttempted
    <2>2. ~Spawning /\ ~Spawning'
      BY <1>1 DEF onReceive, PollerInv, Spawning
    <2>3. /\ handling' = requests[1] /\ 1 \in DOMAIN requests
          /\ \A k \in DOMAIN requests' : k + 1 \in DOMAIN requests /\ requests'[k] = requests[k + 1]
      BY <1>1 DEF onReceive, TypeOK
    <2>4. UnderWay => UnderWay'
      BY <1>1, <2>1, <2>2, <2>3 DEF UnderWay, onReceive
    <2> QED
      BY <1>1, <2>1, <2>4 DEF FirstCallInv, onReceive
  <1>2. CASE handleStateTransition
    BY <1>2, RespondKeepsFirst DEF handleStateTransition, PollerInv, Spawning
  <1>3. CASE handleExecutionStateReport
    BY <1>3, RespondKeepsFirst DEF handleExecutionStateReport, PollerInv, Spawning
  <1>4. CASE handleSetStateRefuses
    BY <1>4, RespondKeepsFirst DEF handleSetStateRefuses
  <1>5. CASE handleSetState
    <2>1. mNotifier /\ handling # NoRequest
      BY <1>5 DEF NotifierInv, handleSetState
    <2>2. Calls = 1 => handling.state = StartUp
      BY <1>5 DEF FirstCallInv, UnderWay, handleSetState
    <2>3. CASE Activated(handling.state) = {}
      <3>1. Calls = 1 => AllAttempted'
        BY <2>2, <2>3 DEF AllAttempted
      <3>2. Respond("ok") /\ UNCHANGED toSpawn
        BY <1>5, <2>3 DEF handleSetState, NotifyState
      <3> QED
        BY <1>5, <3>1, <3>2, RespondKeepsFirst DEF handleSetState
    <2>4. CASE Activated(handling.state) # {}
      <3>1. toSpawn' = Activated(handling.state) /\ UNCHANGED <<handling, responses>>
        BY <1>5, <2>1, <2>4 DEF handleSetState, NotifyState
      <3>2. Calls' = Calls /\ AllAttempted' = AllAttempted
        BY <1>5 DEF handleSetState, Calls, AllAttempted
      <3>3. handling.method = "SetState"
        BY <1>5 DEF handleSetState
      <3>4. UnderWay => UnderWay'
        BY <1>5, <2>1, <2>2, <3>1, <3>2, <3>3 DEF UnderWay, handleSetState
      <3> QED
        BY <1>5, <3>2, <3>4 DEF FirstCallInv, handleSetState
    <2> QED
      BY <2>3, <2>4
  <1>6. CASE onStateChange
    <2>1. PICK p \in toSpawn : Fork(p) /\ toSpawn' = toSpawn \ {p}
      BY <1>6 DEF onStateChange
    <2>2. attempted' = attempted \cup {p}
      BY <2>1 DEF Fork
    <2>3. Spawning /\ handling # NoRequest /\ handling.method = "SetState"
      BY <1>6 DEF onStateChange, PollerInv, Spawning
    <2>4. Calls' = Calls /\ (AllAttempted => AllAttempted')
      BY <1>6, <2>2 DEF onStateChange, Calls, AllAttempted
    <2>5. Calls <= 1 => Activated(StartUp) \subseteq attempted' \cup toSpawn'
      BY <2>1, <2>2, <2>3 DEF FirstCallInv, UnderWay
    <2>6. CASE toSpawn' = {} /\ forked' = None
      <3>1. Respond("ok")
        BY <1>6, <2>6 DEF onStateChange
      <3>2. Calls <= 1 => AllAttempted'
        BY <2>5, <2>6 DEF AllAttempted
      <3>3. Calls = 1 => AllAttempted'
        BY <3>2
      <3> QED
        BY <1>6, <2>2, <2>3, <2>6, <3>1, <3>3, RespondKeepsFirst DEF onStateChange
    <2>7. CASE ~(toSpawn' = {} /\ forked' = None)
      <3>1. UNCHANGED <<handling, responses>>
        BY <1>6, <2>7 DEF onStateChange
      <3>2. Calls <= 1 => UnderWay'
        BY <1>6, <2>4, <2>5, <3>1 DEF UnderWay, FirstCallInv, onStateChange
      <3> QED
        BY <1>6, <2>4, <3>2 DEF FirstCallInv, onStateChange
    <2> QED
      BY <2>6, <2>7
  <1>7. CASE SpawnRecords
    <2>1. Spawning /\ handling # NoRequest /\ handling.method = "SetState"
      BY <1>7 DEF SpawnRecords, PollerInv, Spawning
    <2>2. Calls' = Calls /\ AllAttempted' = AllAttempted /\ forked' = None
      BY <1>7 DEF SpawnRecords, Record, Calls, AllAttempted
    <2>3. CASE toSpawn = {}
      <3>1. Respond("ok") /\ toSpawn' = {}
        BY <1>7, <2>3 DEF SpawnRecords
      <3>2. Calls = 1 => AllAttempted'
        BY <2>1, <2>2, <2>3 DEF FirstCallInv, UnderWay, AllAttempted
      <3> QED
        BY <1>7, <2>1, <2>2, <3>1, <3>2, RespondKeepsFirst DEF SpawnRecords
    <2>4. CASE toSpawn # {}
      <3>1. UNCHANGED <<handling, responses>>
        BY <1>7, <2>4 DEF SpawnRecords
      <3>2. Calls <= 1 => UnderWay'
        BY <1>7, <2>1, <2>2, <3>1 DEF UnderWay, FirstCallInv, SpawnRecords
      <3> QED
        BY <1>7, <2>2, <3>2 DEF FirstCallInv, SpawnRecords
    <2> QED
      BY <2>3, <2>4
  <1> QED
    BY <1>1, <1>2, <1>3, <1>4, <1>5, <1>6, <1>7 DEF Poller

\* A request that is not one of SetState, or one of the first call, is no news.
LEMMA SendKeepsFirst ==
    ASSUME TypeOK, UnderWay, NEW m \in Methods, NEW s, Send(m, s),
           m = "SetState" => s = StartUp /\ Calls' = 1,
           m # "SetState" => Calls' = Calls, Calls' <= 1, Calls \in {0, Calls'},
           UNCHANGED <<attempted, responses, handling, toSpawn, forked>>
    PROVE  UnderWay'
  <1>1. AllAttempted' = AllAttempted /\ Spawning' = Spawning
    BY DEF AllAttempted, Spawning
  <1>2. ASSUME NEW k \in DOMAIN requests', requests'[k].method = "SetState"
        PROVE  Calls' = 1 /\ requests'[k].state = StartUp
    <2>1. CASE k \in DOMAIN requests
      <3>1. requests \in Seq(Requests)
        BY DEF TypeOK
      <3>2. requests'[k] = requests[k]
        <4>1. CASE requests' = Append(requests, [method |-> m, state |-> s])
          BY <2>1, <3>1, <4>1
        <4> QED
          BY <4>1 DEF Send
      <3> QED
        BY <1>2, <2>1, <3>2 DEF UnderWay
    <2>2. CASE k \notin DOMAIN requests
      <3>1. requests \in Seq(Requests) /\ requests' = Append(requests, [method |-> m, state |-> s])
        BY <1>2, <2>2 DEF Send, TypeOK
      <3>2. requests'[k] = [method |-> m, state |-> s]
        BY <1>2, <2>2, <3>1
      <3> QED
        BY <1>2, <3>2
    <2> QED
      BY <2>1, <2>2
  <1> QED
    BY <1>1, <1>2 DEF UnderWay

\* A sequence of which some elements are replaced is as long as before.
LEMMA Replaced ==
    ASSUME NEW S, NEW s \in Seq(S), NEW a, NEW b \in S
    PROVE  /\ [k \in DOMAIN s |-> IF s[k] = a THEN b ELSE s[k]] \in Seq(S)
           /\ Len([k \in DOMAIN s |-> IF s[k] = a THEN b ELSE s[k]]) = Len(s)
  <1>1. DOMAIN s = 1 .. Len(s) /\ Len(s) \in Nat
    OBVIOUS
  <1>2. \A k \in 1 .. Len(s) : (IF s[k] = a THEN b ELSE s[k]) \in S
    OBVIOUS
  <1> QED
    BY <1>1, <1>2

LEMMA ClientKeepsFirst == TypeOK /\ FirstCallInv /\ Client => FirstCallInv'
  <1> SUFFICES ASSUME TypeOK, FirstCallInv, Client PROVE FirstCallInv'
    OBVIOUS
  <1> USE DEF osVars, stateVars, pollerVars, wireVars, clientVars, historyVars
  <1>0. /\ "SetState" \in Methods /\ "StateTransition" \in Methods /\ "Report" \in Methods
        /\ futures["SetState"] \in Seq(Outcomes) /\ Calls \in Nat
        /\ futures \in [Methods -> Seq(Outcomes)]
    BY DEF Methods, TypeOK, Calls
  <1>1. ASSUME NEW s \in States \cup {Unknown}, SetState(s) PROVE FirstCallInv'
    <2> DEFINE before == [k \in DOMAIN futures["SetState"] |->
                            IF futures["SetState"][k] = "pending" THEN "cancelled"
                                                                  ELSE futures["SetState"][k]]
    <2>1. /\ futures'["SetState"] = Append(before, "pending")
          /\ before \in Seq(Outcomes) /\ Len(before) = Calls
      <3>1. before \in Seq(Outcomes) /\ Len(before) = Calls
        <4>1. "cancelled" \in Outcomes
          BY DEF Outcomes
        <4> QED
          BY <1>0, <4>1, Replaced DEF Calls
      <3>2. futures' = [futures EXCEPT !["SetState"] = Append(before, "pending")]
        BY <1>1 DEF SetState
      <3> QED
        BY <1>0, <3>1, <3>2
    <2>2. Calls' = Calls + 1
      BY <2>1 DEF Calls
    <2>3. wanted' = Append(wanted, s) /\ wanted \in Seq(States \cup {Unknown}) /\ Len(wanted) = Calls
      BY <1>1 DEF SetState, TypeOK, FirstCallInv
    <2>4. Len(wanted') = Calls'
      BY <2>2, <2>3
    <2>5. Calls = 0 => s = StartUp
      <3>1. Calls = 0 => wanted = << >>
        BY <2>3
      <3> QED
        BY <1>1, <3>1 DEF SetState
    <2>6. wanted'[1] = StartUp
      <3>1. CASE Calls = 0
        BY <2>3, <2>5, <3>1
      <3>2. CASE Calls > 0
        BY <1>0, <2>3, <3>2 DEF FirstCallInv
      <3> QED
        BY <1>0, <3>1, <3>2
    <2>7. ASSUME futures'["SetState"][1] = "ok" PROVE AllAttempted'
      <3>1. Calls > 0
        <4>1. CASE Calls = 0
          BY <2>1, <2>7, <4>1
        <4> QED
          BY <1>0, <4>1
      <3>2. futures["SetState"][1] = "ok"
        <4>1. 1 \in DOMAIN futures["SetState"] /\ futures'["SetState"][1] = before[1]
          BY <1>0, <2>1, <3>1 DEF Calls
        <4> QED
          BY <2>7, <4>1
      <3> QED
        BY <1>1, <3>1, <3>2 DEF FirstCallInv, AllAttempted, SetState
    <2>8. ASSUME Calls' <= 1 PROVE UnderWay'
      <3>1. Calls = 0 /\ Calls' = 1 /\ UnderWay
        BY <1>0, <2>2, <2>8 DEF FirstCallInv
      <3> QED
        BY <1>0, <1>1, <2>5, <3>1, SendKeepsFirst DEF SetState
    <2> QED
      BY <2>4, <2>6, <2>7, <2>8 DEF FirstCallInv
  <1>2. CASE GetInitialMachineStateTransitionResult
    <2>1. futures'["SetState"] = futures["SetState"]
      BY <1>0, <1>2 DEF GetInitialMachineStateTransitionResult
    <2>2. Calls' = Calls
      BY <2>1 DEF Calls
    <2>3. Calls <= 1 => UnderWay'
      BY <1>0, <1>2, <2>2, SendKeepsFirst DEF GetInitialMachineStateTransitionResult, FirstCallInv
    <2> QED
      BY <1>2, <2>1, <2>2, <2>3 DEF FirstCallInv, AllAttempted, GetInitialMachineStateTransitionResult
  <1>3. CASE ReportExecutionState
    <2>1. futures'["SetState"] = futures["SetState"]
      BY <1>0, <1>3 DEF ReportExecutionState
    <2>2. Calls' = Calls
      BY <2>1 DEF Calls
    <2>3. Calls <= 1 => UnderWay'
      BY <1>0, <1>3, <2>2, SendKeepsFirst DEF ReportExecutionState, FirstCallInv
    <2> QED
      BY <1>3, <2>1, <2>2, <2>3 DEF FirstCallInv, AllAttempted, ReportExecutionState
  <1>4. CASE ReportTimeout
    <2>1. futures'["SetState"] = futures["SetState"]
      BY <1>0, <1>4 DEF ReportTimeout
    <2> QED
      BY <1>4, <2>1 DEF ReportTimeout, FirstCallInv, UnderWay, AllAttempted, Spawning, Calls
  <1>5. CASE ReportReturns
    BY <1>5, FirstCallFrame DEF ReportReturns
  <1>6. CASE genericHandler
    <2> DEFINE r == Head(responses)
    <2>1. /\ responses \in Seq(Responses) /\ responses # << >> /\ responses' = Tail(responses)
          /\ UNCHANGED <<attempted, wanted, requests, handling, toSpawn, forked>>
      BY <1>6 DEF genericHandler, TypeOK
    <2>2. r \in Responses /\ r = responses[1] /\ 1 \in DOMAIN responses
      BY <2>1
    <2>3. r.method \in Methods /\ r = [method |-> r.method, result |-> r.result]
      BY <2>2 DEF Responses
    <2>4. futures[r.method] \in Seq(Outcomes) /\ futures[r.method] # << >>
      BY <1>0, <1>6, <2>3 DEF genericHandler, Pending
    <2>5. futures' = [futures EXCEPT ![r.method] =
                        [futures[r.method] EXCEPT ![Len(futures[r.method])] = r.result]]
      BY <1>6 DEF genericHandler
    <2>6. Calls' = Calls
      BY <1>0, <2>3, <2>4, <2>5 DEF Calls
    <2>7. AllAttempted' = AllAttempted /\ Spawning' = Spawning
      BY <2>1 DEF AllAttempted, Spawning
    <2>8. ASSUME Calls > 0, futures'["SetState"][1] = "ok" PROVE AllAttempted
      <3>1. CASE futures["SetState"][1] = "ok"
        BY <2>8, <3>1 DEF FirstCallInv
      <3>2. CASE futures["SetState"][1] # "ok"
        <4>1. r.method = "SetState"
          BY <1>0, <2>3, <2>5, <2>8, <3>2
        <4>2. futures'["SetState"] = [futures["SetState"] EXCEPT ![Calls] = r.result]
          BY <1>0, <2>5, <4>1 DEF Calls
        <4>3. Calls = 1 /\ r.result = "ok"
          BY <1>0, <2>8, <3>2, <4>2 DEF Calls
        <4>4. responses[1] = SuccessOf("SetState")
          BY <2>2, <2>3, <4>1, <4>3 DEF SuccessOf
        <4> QED
          BY <2>2, <4>3, <4>4 DEF FirstCallInv, UnderWay
      <3> QED
        BY <3>1, <3>2
    <2>9. \A k \in DOMAIN responses' : k + 1 \in DOMAIN responses /\ responses'[k] = responses[k + 1]
      BY <2>1
    <2>10. Calls <= 1 => UnderWay'
      BY <2>1, <2>6, <2>7, <2>9 DEF FirstCallInv, UnderWay
    <2> QED
      BY <2>1, <2>6, <2>7, <2>8, <2>10 DEF FirstCallInv
  <1>7. CASE genericHandlerFails
    <2>1. /\ responses \in Seq(Responses) /\ responses # << >> /\ responses' = Tail(responses)
          /\ UNCHANGED <<futures, attempted, wanted, requests, handling, toSpawn, forked>>
      BY <1>7 DEF genericHandlerFails, TypeOK
    <2>2. \A k \in DOMAIN responses' : k + 1 \in DOMAIN responses /\ responses'[k] = responses[k + 1]
      BY <2>1
    <2> QED
      BY <2>1, <2>2 DEF FirstCallInv, UnderWay, AllAttempted, Spawning, Calls
  <1> QED
    BY <1>1, <1>2, <1>3, <1>4, <1>5, <1>6, <1>7 DEF Client

LEMMA NextKeepsFirst ==
    TypeOK /\ PollerInv /\ NotifierInv /\ FirstCallInv /\ [Next]_vars => FirstCallInv'
  <1> SUFFICES ASSUME TypeOK, PollerInv, NotifierInv, FirstCallInv, [Next]_vars
               PROVE  FirstCallInv'
    OBVIOUS
  <1> USE DEF osVars, stateVars, pollerVars, wireVars, clientVars, historyVars
  <1>1. CASE EmBootstrap
    <2>1. attempted \subseteq attempted' /\
          UNCHANGED <<futures, wanted, requests, responses, handling, toSpawn, forked>>
      BY <1>1 DEF EmBootstrap
    <2> QED
      BY <2>1 DEF FirstCallInv, UnderWay, Calls, Spawning, AllAttempted
  <1>2. CASE \/ EmConfigure \/ EmConfigureFails \/ EmReap \/ EmCancelled \/ EmSigterm
             \/ EmSigkill \/ EmWait \/ EmClear \/ EmDelete \/ onSignal
             \/ (\E p \in Processes : ProcessEnds(p)) \/ UNCHANGED vars
    <2>1. UNCHANGED <<futures, wanted, attempted, requests, responses, handling, toSpawn, forked>>
      BY <1>2 DEF EmConfigure, EmConfigureFails, EmReap, EmCancelled, EmSigterm, EmSigkill, EmWait,
                  EmClear, EmDelete, onSignal, ProcessEnds, vars
    <2> QED
      BY <2>1, FirstCallFrame
  <1> QED
    BY <1>1, <1>2, PollerKeepsFirst, ClientKeepsFirst DEF Next, EmMain, Done

\* When the call that state management makes succeeds, execution management has
\* tried to start every process of that state.
THEOREM FirstSuccessIsEarned == Spec => []SuccessMeansStarted
  <1>1. TypeOK /\ FirstCallInv => SuccessMeansStarted
    <2> SUFFICES ASSUME TypeOK, FirstCallInv, futures["SetState"] # << >>,
                        futures["SetState"][1] = "ok",
                        NEW p \in Processes \ {StateManagement}, wanted[1] \in activatingStates[p]
                 PROVE  p \in attempted
      BY DEF SuccessMeansStarted
    <2>1. Calls > 0
      BY DEF TypeOK, Calls, Methods
    <2> QED
      BY <2>1 DEF FirstCallInv, AllAttempted, Activated
  <1> QED
    BY <1>1, InitTypes, NextTypes, InitNotifier, NextKeepsNotifier, InitFirstCall, NextKeepsFirst, PTL
       DEF Spec

=============================================================================
