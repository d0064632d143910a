-------------------------- MODULE HealthManagement --------------------------
(***************************************************************************)
(* Platform health management: an alive and a deadline supervision, each   *)
(* with a worker thread of its own, the global supervision that their      *)
(* callbacks update, and the application that wires them together while    *)
(* the alive worker already runs.  Nothing locks the global supervision:   *)
(* a worker writes its status, computes the global update, and applies it, *)
(* and the other worker may act between these steps.                       *)
(*                                                                         *)
(* Time is the phase of a checkpoint transition: before the minimum        *)
(* deadline ("early"), up to the maximum ("inTime"), after it ("late").    *)
(***************************************************************************)
EXTENDS Naturals

CONSTANTS
    ExpectedAliveIndicationsMin, ExpectedAliveIndicationsMax,
    FailedReferenceCyclesTolerance,
    IndicationsLimit         \* numeric_limits<uint16_t>::max()

ASSUME AliveAssumption ==
    /\ ExpectedAliveIndicationsMin \in Nat \ {0}
    /\ ExpectedAliveIndicationsMax \in Nat
    /\ ExpectedAliveIndicationsMin < ExpectedAliveIndicationsMax
    /\ FailedReferenceCyclesTolerance \in Nat \ {0}
    /\ IndicationsLimit \in Nat

VARIABLES
    status,              \* mStatus of each elementary supervision
    reporting,           \* what each worker is doing inside Report
    mStatus,             \* mStatus of the global supervision
    main,                \* how far PlatformHealthManagement::Main is
    recovered,           \* supervision types the recovery handler was given
    alive,               \* where the alive worker is
    mAliveIndications,
    mAliveCounter,
    deadline,            \* where the deadline worker is
    mTargetIsReached,
    phase                \* time since the source checkpoint

aliveVars == <<alive, mAliveIndications, mAliveCounter>>
deadlineVars == <<deadline, mTargetIsReached, phase>>
globalVars == <<mStatus, main, recovered>>
vars == <<status, reporting, globalVars, aliveVars, deadlineVars>>

\* SupervisionStatus, in the order the code compares.
kDeactivated == 0
kOk == 1
kFailed == 2
kExpired == 3
SupervisionStatus == kDeactivated .. kExpired

Supervisions == {"Alive", "Deadline"}
Phases == {"early", "inTime", "late"}

TypeOK ==
    /\ status \in [Supervisions -> SupervisionStatus]
    /\ reporting \in [Supervisions ->
           [at : {"no", "callback", "update"}, status : SupervisionStatus, type : Supervisions]]
    /\ mStatus \in SupervisionStatus
    /\ main \in {"configure", "construct", "hookAlive", "hookDeadline", "setCallback", "ready"}
    /\ recovered \subseteq Supervisions
    /\ alive \in {"sleep", "good", "bad", "stopped"}
    /\ mAliveIndications \in 0 .. IndicationsLimit
    /\ mAliveCounter \in 0 .. FailedReferenceCyclesTolerance
    /\ deadline \in {"none", "starting", "waiting", "woken", "finished"}
    /\ mTargetIsReached \in BOOLEAN
    /\ phase \in Phases

\* The application has configured the alive supervision, whose worker runs.
\* mTargetIsReached is not initialised.
Init ==
    /\ status = [s \in Supervisions |-> kDeactivated]
    /\ reporting = [s \in Supervisions |->
                      [at |-> "no", status |-> kDeactivated, type |-> "Alive"]]
    /\ mStatus = kDeactivated
    /\ main = "configure"
    /\ recovered = {}
    /\ alive = "sleep"
    /\ mAliveIndications = 0
    /\ mAliveCounter = 0
    /\ deadline = "none"
    /\ mTargetIsReached \in BOOLEAN
    /\ phase = "early"

-----------------------------------------------------------------------------
(* Elementary and global supervision *)

\* Has the global supervision set its callback on s?
Hooked(s) ==
    IF s = "Alive" THEN main \in {"hookDeadline", "setCallback", "ready"}
                   ELSE main \in {"setCallback", "ready"}

\* Report: a changed status is stored, unless s has expired, and the callback
\* is called if there is one.
Report(s, new) ==
    LET changes == new # status[s] /\ (new = kExpired \/ status[s] # kExpired)
    IN  /\ status' = IF changes THEN [status EXCEPT ![s] = new] ELSE status
        /\ reporting' = IF changes /\ Hooked(s)
                        THEN [reporting EXCEPT ![s].at = "callback"]
                        ELSE reporting

\* Mutant: the type is that of the first supervision.
GlobalUpdateFirst ==
    [status |-> IF status["Deadline"] > status["Alive"] THEN status["Deadline"] ELSE status["Alive"],
     type |-> "Alive"]

\* getGlobalUpdate: the worst status, and the first supervision that has it.
GlobalUpdate ==
    IF status["Deadline"] > status["Alive"]
    THEN [status |-> status["Deadline"], type |-> "Deadline"]
    ELSE [status |-> status["Alive"], type |-> "Alive"]

\* onElementaryStatusChanged computes the update ...
ComputeUpdate(s) ==
    /\ reporting[s].at = "callback"
    /\ reporting' = [reporting EXCEPT
                       ![s] = [at |-> "update", status |-> GlobalUpdate.status,
                               type |-> GlobalUpdate.type]]
    /\ UNCHANGED <<status, globalVars, aliveVars, deadlineVars>>

\* Mutant: only a status worse than before is announced.
ApplyUpdateWorse(s) ==
    /\ reporting[s].at = "update"
    /\ mStatus' = reporting[s].status
    /\ recovered' = IF /\ reporting[s].status = kExpired
                       /\ mStatus = kFailed
                       /\ main = "ready"
                    THEN recovered \cup {reporting[s].type}
                    ELSE recovered
    /\ reporting' = [reporting EXCEPT ![s].at = "no"]
    /\ UNCHANGED <<status, main, aliveVars, deadlineVars>>

\* ... and applies it; onGlobalStatusChanged calls the recovery handler when
\* the update is an expiry.
ApplyUpdate(s) ==
    /\ reporting[s].at = "update"
    /\ mStatus' = reporting[s].status
    /\ recovered' = IF /\ reporting[s].status = kExpired
                       /\ mStatus # kExpired
                       /\ main = "ready"
                    THEN recovered \cup {reporting[s].type}
                    ELSE recovered
    /\ reporting' = [reporting EXCEPT ![s].at = "no"]
    /\ UNCHANGED <<status, main, aliveVars, deadlineVars>>

Callbacks == \E s \in Supervisions : ComputeUpdate(s) \/ ApplyUpdate(s)

-----------------------------------------------------------------------------
(* PlatformHealthManagement::Main *)

Configured ==
    /\ main = "configure"
    /\ main' = "construct"
    /\ UNCHANGED <<status, reporting, mStatus, recovered, aliveVars, deadlineVars>>

\* The global supervision takes its first status, then sets its callbacks one
\* by one; its own callback is set last.
ConstructGlobal ==
    /\ main = "construct"
    /\ mStatus' = GlobalUpdate.status
    /\ main' = "hookAlive"
    /\ UNCHANGED <<status, reporting, recovered, aliveVars, deadlineVars>>

Hook ==
    /\ \/ main = "hookAlive" /\ main' = "hookDeadline"
       \/ main = "hookDeadline" /\ main' = "setCallback"
       \/ main = "setCallback" /\ main' = "ready"
    /\ UNCHANGED <<status, reporting, mStatus, recovered, aliveVars, deadlineVars>>

Main == Configured \/ ConstructGlobal \/ Hook

-----------------------------------------------------------------------------
(* Alive supervision *)

\* A checkpoint is reported; the counter saturates.
ReportAliveness ==
    /\ mAliveIndications' = IF mAliveIndications < IndicationsLimit
                            THEN mAliveIndications + 1 ELSE mAliveIndications
    /\ UNCHANGED <<status, reporting, globalVars, alive, mAliveCounter, deadlineVars>>

\* The end of a reference cycle: the indications are compared ...
CycleEnds ==
    /\ alive = "sleep" /\ reporting["Alive"].at = "no"
    /\ alive' = IF mAliveIndications \in
                     ExpectedAliveIndicationsMin .. ExpectedAliveIndicationsMax
                THEN "good" ELSE "bad"
    /\ UNCHANGED <<status, reporting, globalVars, mAliveIndications, mAliveCounter, deadlineVars>>

\* ... and then reset, with what was reported in between.
GoodCycle ==
    /\ alive = "good"
    /\ mAliveIndications' = 0
    /\ mAliveCounter' = IF mAliveCounter > 0 THEN mAliveCounter - 1 ELSE 0
    /\ Report("Alive", kOk)
    /\ alive' = "sleep"
    /\ UNCHANGED <<globalVars, deadlineVars>>

BadCycle ==
    /\ alive = "bad"
    /\ mAliveIndications' = 0
    /\ mAliveCounter' = mAliveCounter + 1
    /\ IF mAliveCounter + 1 < FailedReferenceCyclesTolerance
       THEN Report("Alive", kFailed) /\ alive' = "sleep"
       ELSE Report("Alive", kExpired) /\ alive' = "stopped"
    /\ UNCHANGED <<globalVars, deadlineVars>>

AliveWorker == CycleEnds \/ GoodCycle \/ BadCycle

-----------------------------------------------------------------------------
(* Deadline supervision *)

Notified == IF deadline = "waiting" THEN "woken" ELSE deadline

\* The first source checkpoint starts the worker; any other one, also after
\* the worker has finished, only notifies.
ReportSourceCheckpoint ==
    /\ main # "configure"
    /\ phase' = "early"
    /\ mTargetIsReached' = FALSE
    /\ deadline' = IF deadline = "none" THEN "starting" ELSE Notified
    /\ UNCHANGED <<status, reporting, globalVars, aliveVars>>

ReportTargetCheckpoint ==
    /\ main # "configure"
    /\ mTargetIsReached' = TRUE
    /\ deadline' = Notified
    /\ UNCHANGED <<status, reporting, globalVars, aliveVars, phase>>

\* Time goes by.
Tick ==
    /\ \/ phase = "early" /\ phase' = "inTime"
       \/ phase = "inTime" /\ phase' = "late"
    /\ UNCHANGED <<status, reporting, globalVars, aliveVars, deadline, mTargetIsReached>>

WorkerWaits ==
    /\ deadline = "starting"
    /\ deadline' = "waiting"
    /\ UNCHANGED <<status, reporting, globalVars, aliveVars, mTargetIsReached, phase>>

\* Mutant: the wait has no limit.
DeadlineTimeoutNever ==
    /\ FALSE
    /\ UNCHANGED vars

\* The wait, which began after the source checkpoint, reaches its limit; a
\* worker woken so late takes it for a timeout too.
DeadlineTimeout ==
    /\ deadline \in {"waiting", "woken"} /\ phase = "late"
    /\ deadline' = "finished"
    /\ Report("Deadline", kExpired)
    /\ UNCHANGED <<globalVars, aliveVars, mTargetIsReached, phase>>

\* The wait has no predicate: it may end for no reason.
SpuriousWakeup ==
    /\ deadline = "waiting"
    /\ deadline' = "woken"
    /\ UNCHANGED <<status, reporting, globalVars, aliveVars, mTargetIsReached, phase>>

WorkerWoken ==
    /\ deadline = "woken"
    /\ deadline' = "finished"
    /\ Report("Deadline", IF mTargetIsReached /\ phase # "early" THEN kOk ELSE kExpired)
    /\ UNCHANGED <<globalVars, aliveVars, mTargetIsReached, phase>>

DeadlineWorker == WorkerWaits \/ DeadlineTimeout \/ WorkerWoken

-----------------------------------------------------------------------------
Next ==
    \/ Main
    \/ AliveWorker
    \/ DeadlineWorker
    \/ Callbacks
    \/ ReportAliveness
    \/ ReportSourceCheckpoint
    \/ ReportTargetCheckpoint
    \/ Tick
    \/ SpuriousWakeup

Spec == Init /\ [][Next]_vars

\* The threads of the platform run and time goes by; the supervised entity
\* need not report anything.
Fairness ==
    /\ WF_vars(Main)
    /\ WF_vars(AliveWorker)
    /\ WF_vars(DeadlineWorker)
    /\ \A s \in Supervisions : WF_vars(ComputeUpdate(s) \/ ApplyUpdate(s))
    /\ WF_vars(Tick)

FairSpec == Spec /\ Fairness

-----------------------------------------------------------------------------
(* Properties *)

\* The recovery handler is told of a supervision that really expired.
BlamedIsExpired == \A s \in recovered : status[s] = kExpired

\* An expiry that is reported to a platform that is up reaches the recovery
\* handler, whatever the other worker reports meanwhile.
ExpiryIsRecovered ==
    \A s \in Supervisions :
        main = "ready" /\ mStatus # kExpired /\ status[s] = kExpired
            /\ reporting[s].at = "callback"
        ~> recovered # {}

\* A started deadline supervision comes to a verdict, although notifications
\* may be lost and source checkpoints may move the time reference.
DeadlineSettles == deadline = "starting" ~> deadline = "finished"

=============================================================================
