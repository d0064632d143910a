------------------------- MODULE DiagnosticMonitor -------------------------
(***************************************************************************)
(* A diagnostic monitor, its debouncer and the event it reports to.  A     *)
(* counter-based debouncer counts the reports; a timer-based one starts a  *)
(* thread that waits for a time and then declares the test passed or       *)
(* failed, unless a report of the opposite freezes it first.               *)
(***************************************************************************)
EXTENDS Integers

CONSTANTS
    Values,    \* CounterBased: the parameters of the counter
    passedMs,  \* TimeBased
    failedMs,
    Words      \* 2^32: how many values a uint32_t has

ASSUME CounterAssumption ==
    /\ Values.passedThreshold \in Int /\ Values.failedThreshold \in Int
    /\ Values.passedThreshold < 0 /\ 0 < Values.failedThreshold
    /\ Values.passedStepsize \in Nat \ {0} /\ Values.failedStepsize \in Nat \ {0}
    /\ Values.passedJumpValue \in Int /\ Values.failedJumpValue \in Int
    /\ Values.useJumpToPassed \in BOOLEAN /\ Values.useJumpToFailed \in BOOLEAN
ASSUME TimeAssumption ==
    /\ passedMs \in Nat \ {0} /\ failedMs \in Nat \ {0} /\ Words \in Nat
    /\ passedMs + 1 < Words /\ failedMs + 1 < Words

VARIABLES
    kind,          \* which debouncer the monitor was constructed with
    mOffered,      \* Monitor
    mEvent,        \* whether an event is attached
    mEventStatus,  \* Debouncer
    mFdc,          \* CounterBasedDebouncer
    mElapsedMs,    \* TimerBasedDebouncer
    mIsPassing,    \* never initialized
    thread,        \* its mThread: the state of tick, and its arguments
    caller,        \* the report under way, and how far it has come
    status,        \* Event::mEventStatus and mFdc
    reported,      \* history: the last report, when it decided the test
    cleared,       \* history: kResetTestFailed was used, or the event came late
    nudged         \* history: the steps towards each verdict since it was far

monitorVars == <<kind, mOffered, mEvent>>
timerVars == <<mElapsedMs, mIsPassing, thread>>
vars == <<monitorVars, mEventStatus, mFdc, timerVars, caller, status, reported, cleared, nudged>>

Verdicts == {"Passed", "Failed"}
Actions == {"Passed", "Failed", "Prepassed", "Prefailed", "Freeze", "Reset", "ResetTestFailed",
            "Delete"}
NoThread == [at |-> "none"]
\* at "done" the thread can still be joined
Threads == [at : {"created", "locked", "waiting", "expired", "woken", "done"},
            duration : 1 .. Words - 1, passing : BOOLEAN]
Idle == [at |-> "idle"]
Gone == [at |-> "gone"]
Callers == [at : {"notify", "join", "act", "start"}, action : Actions]
           \cup [at : {"check", "rejoin", "launch", "spin"}, duration : 0 .. Words - 1]
           \cup [at : {"write"}, old : BOOLEAN]
\* The jump values may lie beyond the thresholds, and the counter with them.
Lower(x, y) == IF x < y THEN x ELSE y
Higher(x, y) == IF x < y THEN y ELSE x
Fdcs == Lower(Values.passedThreshold, Values.passedJumpValue) ..
        Higher(Values.failedThreshold, Values.failedJumpValue)
\* Between the thresholds: as many steps as are counted.
Way == Values.failedThreshold - Values.passedThreshold
\* The bits of the status, and the fault detection counter, which is only ever
\* 0, 127 or -128.
Statuses == [TestFailed : BOOLEAN, TestNotCompleted : BOOLEAN, Fdc : {0, 127, -128}]

TypeOK ==
    /\ kind \in {"counter", "timer"} /\ mOffered \in BOOLEAN /\ mEvent \in BOOLEAN
    /\ mEventStatus \in Verdicts \cup {"Pending"}
    /\ mFdc \in Fdcs
    /\ mElapsedMs \in 0 .. Words - 1 /\ mIsPassing \in BOOLEAN
    /\ thread \in Threads \cup {NoThread}
    /\ caller \in Callers \cup {Idle, Gone}
    /\ status \in Statuses
    /\ reported \in Verdicts \cup {"none"} /\ cleared \in BOOLEAN
    /\ nudged \in [Verdicts -> 0 .. Way]

Init ==
    /\ kind \in {"counter", "timer"} /\ mOffered = FALSE /\ mEvent = FALSE
    /\ mEventStatus = "Pending" /\ mFdc = 0
    /\ mElapsedMs = 0 /\ mIsPassing \in BOOLEAN /\ thread = NoThread
    /\ caller = Idle
    /\ status = [TestFailed |-> FALSE, TestNotCompleted |-> TRUE, Fdc |-> 0]
    /\ reported = "none" /\ cleared = FALSE /\ nudged = [v \in Verdicts |-> 0]

-----------------------------------------------------------------------------
(* Debouncer and Event *)

onEventStatusChanged(verdict) ==
    IF mEvent
    THEN status' = [TestFailed |-> verdict = "Failed", TestNotCompleted |-> FALSE,
                    Fdc |-> IF verdict = "Failed" THEN 127 ELSE -128]
    ELSE UNCHANGED status

\* SetEventStatus tells the monitor when the test is decided differently.
SetEventStatus(s) ==
    /\ mEventStatus' = s
    /\ IF s # mEventStatus /\ s \in Verdicts THEN onEventStatusChanged(s) ELSE UNCHANGED status

-----------------------------------------------------------------------------
(* Monitor *)

\* Offer and StopOffer, each of which calls mInitMonitor.
Offer ==
    /\ caller = Idle
    /\ mOffered' = ~mOffered
    /\ UNCHANGED <<kind, mEvent, mEventStatus, mFdc, timerVars, caller, status, reported, cleared,
                   nudged>>

\* An event that is attached after the test was decided hears of the next change.
AttachEvent ==
    /\ caller = Idle /\ ~mEvent
    /\ mEvent' = TRUE
    /\ cleared' = (cleared \/ mEventStatus # "Pending")
    /\ UNCHANGED <<kind, mOffered, mEventStatus, mFdc, timerVars, caller, status, reported, nudged>>

\* ReportMonitorAction, to a timer-based debouncer or of kResetTestFailed; and
\* the destructor, which resets.
ReportMonitorAction(a) ==
    /\ caller = Idle
    /\ a = "Delete" \/ (mOffered /\ (kind = "timer" \/ a = "ResetTestFailed"))
    /\ IF a = "ResetTestFailed"
       THEN mEvent /\ caller' = [at |-> "write", old |-> status.TestNotCompleted]
       ELSE IF kind = "counter" THEN caller' = Gone
       ELSE LET Opposite == CASE a = "Prepassed" -> ~mIsPassing
                              [] a = "Prefailed" -> mIsPassing
                              [] OTHER -> TRUE
            IN  caller' = [at |-> IF Opposite THEN "notify" ELSE "start", action |-> a]
    /\ reported' = IF a = "ResetTestFailed" THEN reported ELSE "none"
    /\ UNCHANGED <<monitorVars, mEventStatus, mFdc, timerVars, status, cleared, nudged>>

\* kResetTestFailed has read the bits of the event and writes them back, while
\* tick may have written them.
SetEventStatusBits ==
    /\ caller.at = "write"
    /\ status' = [status EXCEPT !.TestFailed = FALSE, !.TestNotCompleted = caller.old]
    /\ caller' = Idle
    /\ cleared' = TRUE
    /\ UNCHANGED <<monitorVars, mEventStatus, mFdc, timerVars, reported, nudged>>

-----------------------------------------------------------------------------
(* CounterBasedDebouncer *)

CountsReport == kind = "counter" /\ caller = Idle /\ mOffered

\* History: another step towards the verdict v.
Nudge(v, step) == nudged' = [nudged EXCEPT ![v] = Lower(Way, @ + step)]

\* History: the verdict v, from which it is far to the other one.
Settle(v) == nudged' = [x \in Verdicts |-> IF x = v THEN nudged[v] ELSE 0]

\* ReportPassed and ReportFailed.
CounterDecides(verdict) ==
    /\ CountsReport
    /\ mFdc' = IF verdict = "Passed" THEN Values.passedThreshold ELSE Values.failedThreshold
    /\ SetEventStatus(verdict) /\ Settle(verdict)
    /\ reported' = verdict
    /\ UNCHANGED <<monitorVars, timerVars, caller, cleared>>

\* Mutant: a jump is made wherever the counter is, and then the step.
CounterPrepassedSkips ==
    /\ CountsReport
    /\ LET from == IF Values.useJumpToPassed /\ mFdc > Values.passedJumpValue
                   THEN Values.passedJumpValue ELSE mFdc
           steps == Lower(Way, nudged.Passed + Values.passedStepsize)
       IN  IF from - Values.passedStepsize - 1 <= Values.passedThreshold
           THEN /\ mFdc' = Values.passedThreshold
                /\ SetEventStatus("Passed")
                /\ nudged' = [Passed |-> steps, Failed |-> 0]
           ELSE /\ mFdc' = from - Values.passedStepsize
                /\ nudged' = [nudged EXCEPT !.Passed = steps]
                /\ UNCHANGED <<mEventStatus, status>>
    /\ reported' = "none"
    /\ UNCHANGED <<monitorVars, timerVars, caller, cleared>>

\* A step that reaches the threshold decides; one that does not may jump first,
\* wherever that leads to.
CounterPrepassed ==
    /\ CountsReport
    /\ \/ /\ mFdc - Values.passedStepsize <= Values.passedThreshold
          /\ mFdc' = Values.passedThreshold
          /\ SetEventStatus("Passed")
          /\ nudged' = [Passed |-> Lower(Way, nudged.Passed + Values.passedStepsize), Failed |-> 0]
       \/ /\ mFdc - Values.passedStepsize > Values.passedThreshold
          /\ UNCHANGED <<mEventStatus, status>>
          /\ IF Values.useJumpToPassed /\ mFdc > Values.passedJumpValue
             THEN mFdc' = Values.passedJumpValue /\ UNCHANGED nudged
             ELSE mFdc' = mFdc - Values.passedStepsize /\ Nudge("Passed", Values.passedStepsize)
    /\ reported' = "none"
    /\ UNCHANGED <<monitorVars, timerVars, caller, cleared>>

CounterPrefailed ==
    /\ CountsReport
    /\ \/ /\ mFdc + Values.failedStepsize >= Values.failedThreshold
          /\ mFdc' = Values.failedThreshold
          /\ SetEventStatus("Failed")
          /\ nudged' = [Failed |-> Lower(Way, nudged.Failed + Values.failedStepsize), Passed |-> 0]
       \/ /\ mFdc + Values.failedStepsize < Values.failedThreshold
          /\ UNCHANGED <<mEventStatus, status>>
          /\ IF Values.useJumpToFailed /\ mFdc < Values.failedJumpValue
             THEN mFdc' = Values.failedJumpValue /\ UNCHANGED nudged
             ELSE mFdc' = mFdc + Values.failedStepsize /\ Nudge("Failed", Values.failedStepsize)
    /\ reported' = "none"
    /\ UNCHANGED <<monitorVars, timerVars, caller, cleared>>

\* Freeze and Reset.
CounterReset ==
    /\ CountsReport
    /\ mFdc' = 0
    /\ SetEventStatus("Pending") /\ nudged' = [v \in Verdicts |-> 0]
    /\ reported' = "none"
    /\ UNCHANGED <<monitorVars, timerVars, caller, cleared>>

-----------------------------------------------------------------------------
(* TimerBasedDebouncer: the thread that reports *)

At(place) == caller.at = place

Goto(place) == caller' = [caller EXCEPT !.at = place]

\* owns_lock: the thread has the mutex, or waits with it.
OwnsLock == thread.at \in {"locked", "waiting"}

\* Mutant: the thread is told, and not waited for.
FreezeForgets ==
    /\ At("notify")
    /\ thread' = IF thread.at = "waiting" THEN [thread EXCEPT !.at = "woken"] ELSE thread
    /\ Goto("act")
    /\ UNCHANGED <<monitorVars, mEventStatus, mFdc, mElapsedMs, mIsPassing, status, reported,
                   cleared, nudged>>

\* Freeze notifies a thread that waits; one that does not wait yet misses it ...
Freeze ==
    /\ At("notify")
    /\ thread' = IF thread.at = "waiting" THEN [thread EXCEPT !.at = "woken"] ELSE thread
    /\ Goto(IF thread = NoThread THEN "act" ELSE "join")
    /\ UNCHANGED <<monitorVars, mEventStatus, mFdc, mElapsedMs, mIsPassing, status, reported,
                   cleared, nudged>>

\* ... and joins it, however long that takes.
Join ==
    /\ At("join") \/ At("rejoin")
    /\ thread.at = "done"
    /\ thread' = NoThread
    /\ Goto(IF caller.at = "join" THEN "act" ELSE "launch")
    /\ UNCHANGED <<monitorVars, mEventStatus, mFdc, mElapsedMs, mIsPassing, status, reported,
                   cleared, nudged>>

\* The rest of each report.
Act ==
    /\ At("act")
    /\ LET a == caller.action IN
       /\ mElapsedMs' = CASE a = "Passed" -> passedMs
                          [] a = "Failed" -> failedMs
                          [] a = "Freeze" -> mElapsedMs
                          [] OTHER -> 0
       /\ mIsPassing' = CASE a \in {"Passed", "Prepassed"} -> TRUE
                          [] a \in {"Failed", "Prefailed"} -> FALSE
                          [] OTHER -> mIsPassing
       /\ IF a \in Verdicts THEN SetEventStatus(a) /\ reported' = a
          ELSE /\ UNCHANGED reported
               /\ IF a \in {"Reset", "Delete"} THEN SetEventStatus("Pending")
                                               ELSE UNCHANGED <<mEventStatus, status>>
       /\ caller' = CASE a \in {"Prepassed", "Prefailed"} -> [caller EXCEPT !.at = "start"]
                      [] a = "Delete" -> Gone
                      [] OTHER -> Idle
    /\ UNCHANGED <<monitorVars, mFdc, thread, cleared, nudged>>

\* start reads how long the test already lasted, once ...
start ==
    /\ At("start")
    /\ LET threshold == IF caller.action = "Prepassed" THEN passedMs ELSE failedMs
       IN  caller' = [at |-> "check", duration |-> (threshold - mElapsedMs) % Words]
    /\ UNCHANGED <<monitorVars, mEventStatus, mFdc, timerVars, status, reported, cleared, nudged>>

\* Mutant: a thread that is done is not joined, but waited for to be gone.
CheckRetries ==
    /\ At("check")
    /\ IF OwnsLock \/ caller.duration = 0 THEN caller' = Idle
       ELSE IF thread # NoThread THEN UNCHANGED caller ELSE Goto("launch")
    /\ UNCHANGED <<monitorVars, mEventStatus, mFdc, timerVars, status, reported, cleared, nudged>>

\* ... has nothing to do when a thread waits or no time is left, joins the last
\* thread, which may decide the test in the meantime ...
Check ==
    /\ At("check")
    /\ IF OwnsLock \/ caller.duration = 0 THEN caller' = Idle
       ELSE Goto(IF thread # NoThread THEN "rejoin" ELSE "launch")
    /\ UNCHANGED <<monitorVars, mEventStatus, mFdc, timerVars, status, reported, cleared, nudged>>

\* ... has another one wait for as long as was left before that ...
Launch ==
    /\ At("launch")
    /\ thread' = [at |-> "created", duration |-> caller.duration, passing |-> mIsPassing]
    /\ Goto("spin")
    /\ UNCHANGED <<monitorVars, mEventStatus, mFdc, mElapsedMs, mIsPassing, status, reported,
                   cleared, nudged>>

\* ... and spins until that one waits.
Spin ==
    /\ At("spin") /\ OwnsLock
    /\ caller' = Idle
    /\ UNCHANGED <<monitorVars, mEventStatus, mFdc, timerVars, status, reported, cleared, nudged>>

\* The thread waited between two looks of the one who spins.
SpinsForEver == At("spin") /\ thread.at \in {"expired", "woken", "done"}

-----------------------------------------------------------------------------
(* TimerBasedDebouncer::tick *)

TickWaits ==
    /\ \/ thread.at = "created" /\ thread' = [thread EXCEPT !.at = "locked"]
       \/ thread.at = "locked" /\ thread' = [thread EXCEPT !.at = "waiting"]
    /\ UNCHANGED <<monitorVars, mEventStatus, mFdc, mElapsedMs, mIsPassing, caller, status,
                   reported, cleared, nudged>>

\* The time is over, whether or not the one who spins has looked meanwhile.
TickTimeout ==
    /\ thread.at = "waiting"
    /\ thread' = [thread EXCEPT !.at = "expired"]
    /\ UNCHANGED <<monitorVars, mEventStatus, mFdc, mElapsedMs, mIsPassing, caller, status,
                   reported, cleared, nudged>>

\* Nothing but the standard library woke the thread.
SpuriousWakeup ==
    /\ thread.at = "waiting"
    /\ thread' = [thread EXCEPT !.at = "woken"]
    /\ UNCHANGED <<monitorVars, mEventStatus, mFdc, mElapsedMs, mIsPassing, caller, status,
                   reported, cleared, nudged>>

TickDecides ==
    /\ thread.at = "expired"
    /\ SetEventStatus(IF thread.passing THEN "Passed" ELSE "Failed")
    /\ mElapsedMs' = IF thread.passing THEN passedMs ELSE failedMs
    /\ thread' = [thread EXCEPT !.at = "done"]
    /\ UNCHANGED <<monitorVars, mFdc, mIsPassing, caller, reported, cleared, nudged>>

\* The clock is read after the wait: it may show a little more than the wait.
TickFrozen ==
    /\ thread.at = "woken"
    /\ \E t \in 0 .. (thread.duration + 1) : t < Words /\ mElapsedMs' = t
    /\ thread' = [thread EXCEPT !.at = "done"]
    /\ UNCHANGED <<monitorVars, mEventStatus, mFdc, mIsPassing, caller, status, reported, cleared,
                   nudged>>

tick == TickWaits \/ TickTimeout \/ TickDecides \/ TickFrozen

CallerStep == SetEventStatusBits \/ Freeze \/ Join \/ Act \/ start \/ Check \/ Launch \/ Spin

-----------------------------------------------------------------------------
Next ==
    \/ Offer \/ AttachEvent
    \/ \E a \in Actions : ReportMonitorAction(a)
    \/ \E v \in Verdicts : CounterDecides(v)
    \/ CounterPrepassed \/ CounterPrefailed \/ CounterReset
    \/ CallerStep
    \/ tick \/ SpuriousWakeup
    \/ (caller = Gone \/ SpinsForEver) /\ UNCHANGED vars

Spec == Init /\ [][Next]_vars

\* The thread that reports and the one of the timer run.
FairSpec == Spec /\ WF_vars(CallerStep) /\ WF_vars(tick)

-----------------------------------------------------------------------------
(* Properties *)

\* The debouncer keeps what was reported.
ReportKept == reported # "none" /\ caller = Idle => mEventStatus = reported

\* The event agrees with the debouncer on a test that is decided, in both of its
\* records, unless its bit was reset or it was attached in the middle.
EventAgrees ==
    mEvent /\ ~cleared /\ mEventStatus \in Verdicts =>
        /\ status.TestFailed = (mEventStatus = "Failed") /\ ~status.TestNotCompleted
        /\ status.Fdc = IF mEventStatus = "Failed" THEN 127 ELSE -128

\* A report of passed or failed stands until the next report, in the debouncer
\* and in the event: no thread of an earlier report is left to overrule it.
ReportStands == ReportKept /\ EventAgrees

\* Where the counter was at the last verdict or reset, or what it may have
\* jumped to from there.
FailedBase ==
    LET last == IF mEventStatus = "Passed" THEN Values.passedThreshold ELSE 0
    IN  IF Values.useJumpToFailed THEN Higher(last, Values.failedJumpValue) ELSE last

PassedBase ==
    LET last == IF mEventStatus = "Failed" THEN Values.failedThreshold ELSE 0
    IN  IF Values.useJumpToPassed THEN Lower(last, Values.passedJumpValue) ELSE last

\* The counter debounces: pre-failed reports turn a test that passed, or is open,
\* into a failed one only when their steps since then make up the whole way to
\* the threshold, less what the configured jump spares, and however many
\* pre-passed reports came between; and the other way round.  A jump to the
\* threshold or beyond spares it all, and the next report decides.
Debounced ==
    [][kind = "counter" /\ reported' = "none" =>
          /\ mEventStatus # "Failed" /\ mEventStatus' = "Failed" =>
                 nudged'.Failed >= Lower(Way, Values.failedThreshold - FailedBase)
          /\ mEventStatus # "Passed" /\ mEventStatus' = "Passed" =>
                 nudged'.Passed >= Lower(Way, PassedBase - Values.passedThreshold)]_vars

\* A report returns, and so does the destructor, although each may wait for a
\* thread that missed what it was told; unless the report spins on a thread that
\* has already waited.
ReportReturns ==
    caller # Idle /\ caller # Gone ~> caller = Idle \/ caller = Gone \/ SpinsForEver

=============================================================================
