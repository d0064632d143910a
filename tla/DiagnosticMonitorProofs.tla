----------------------- MODULE DiagnosticMonitorProofs -----------------------
(***************************************************************************)
(* Proofs about DiagnosticMonitor, for every set of counter parameters and *)
(* every pair of times.                                                    *)
(***************************************************************************)
EXTENDS DiagnosticMonitor, TLAPS

ReportPlaces == {"notify", "join", "act", "start"}
WaitPlaces == {"check", "rejoin", "launch", "spin"}

\* A report of a timer-based debouncer on its way, without and with the time
\* that start has read.
Reports == [at : ReportPlaces, action : Actions]
Waits == [at : WaitPlaces, duration : Int]
Ticks == [at : {"created", "locked", "waiting", "expired", "woken", "done"},
          duration : Int, passing : BOOLEAN]

\* The caller and the thread, as far as the proofs look at them.
ShapesOK ==
    /\ caller \in Reports \cup Waits \cup {Idle, Gone} \/ caller.at = "write"
    /\ thread = NoThread \/ thread \in Ticks
    /\ mElapsedMs \in Int /\ mIsPassing \in BOOLEAN
    /\ kind \in {"counter", "timer"}

\* Where a record of the caller or of the thread stands tells what it is.
LEMMA Shapes ==
    /\ Idle.at = "idle" /\ Gone.at = "gone" /\ NoThread.at = "none"
    /\ \A t \in Ticks : t.at # "none"
    /\ \A c \in Reports : c.at \in ReportPlaces
    /\ \A c \in Waits : c.at \in WaitPlaces
  BY DEF Idle, Gone, NoThread, Ticks, Reports, Waits

\* Moving the caller or the thread on.
LEMMA MovedReport ==
    ASSUME NEW c \in Reports, NEW p \in ReportPlaces
    PROVE  [c EXCEPT !.at = p] \in Reports /\ [c EXCEPT !.at = p].at = p
  BY DEF Reports

LEMMA MovedWait ==
    ASSUME NEW c \in Waits, NEW p \in WaitPlaces
    PROVE  [c EXCEPT !.at = p] \in Waits /\ [c EXCEPT !.at = p].at = p
  BY DEF Waits

LEMMA MovedThread ==
    ASSUME NEW t \in Ticks, NEW p \in {"created", "locked", "waiting", "expired", "woken", "done"}
    PROVE  [t EXCEPT !.at = p] \in Ticks /\ [t EXCEPT !.at = p].at = p
  BY DEF Ticks

-----------------------------------------------------------------------------
(* The counter *)

\* How far the counter can have come towards a verdict that it has not reached.
NoFurther ==
    /\ mEventStatus # "Failed" => mFdc <= FailedBase + nudged.Failed \/ nudged.Failed >= Way
    /\ mEventStatus # "Passed" => mFdc >= PassedBase - nudged.Passed \/ nudged.Passed >= Way

\* The counter has gone no further than its steps lead; and a counter-based
\* debouncer has no thread.
CounterInv ==
    /\ mEventStatus \in Verdicts \cup {"Pending"}
    /\ mFdc \in Int
    /\ nudged \in [Verdicts -> Nat]
    /\ kind = "counter" =>
           thread.at = "none" /\ caller.at \in {"idle", "gone", "write"}
    /\ kind = "counter" => NoFurther

\* What Debounced says of a step.
DebouncedStep ==
    kind = "counter" /\ reported' = "none" =>
        /\ mEventStatus # "Failed" /\ mEventStatus' = "Failed" =>
               nudged'.Failed >= Lower(Way, Values.failedThreshold - FailedBase)
        /\ mEventStatus # "Passed" /\ mEventStatus' = "Passed" =>
               nudged'.Passed >= Lower(Way, PassedBase - Values.passedThreshold)

\* Way is a number, and both of the sums that the verdicts start from.
LEMMA Bases ==
    /\ Way \in Nat /\ FailedBase \in Int /\ PassedBase \in Int
    /\ mEventStatus # "Passed" => 0 <= FailedBase
    /\ mEventStatus # "Failed" => PassedBase <= 0
    /\ Values.passedThreshold <= FailedBase /\ PassedBase <= Values.failedThreshold
    /\ Values.useJumpToFailed => Values.failedJumpValue <= FailedBase
    /\ Values.useJumpToPassed => PassedBase <= Values.passedJumpValue
  BY CounterAssumption DEF Way, FailedBase, PassedBase, Lower, Higher

\* The same in the next state.
LEMMA BasesNext ==
    /\ FailedBase' \in Int /\ PassedBase' \in Int
    /\ mEventStatus' # "Passed" => 0 <= FailedBase'
    /\ mEventStatus' # "Failed" => PassedBase' <= 0
    /\ Values.passedThreshold <= FailedBase' /\ PassedBase' <= Values.failedThreshold
    /\ mEventStatus' = mEventStatus => FailedBase' = FailedBase /\ PassedBase' = PassedBase
  BY CounterAssumption DEF FailedBase, PassedBase, Lower, Higher

\* The history in numbers.
LEMMA Nudges ==
    ASSUME nudged \in [Verdicts -> Nat]
    PROVE  /\ nudged.Failed \in Nat /\ nudged.Passed \in Nat
           /\ \A f, p \in Nat : /\ [Failed |-> f, Passed |-> p] \in [Verdicts -> Nat]
                                /\ [Passed |-> p, Failed |-> f] \in [Verdicts -> Nat]
           /\ \A n \in Nat : /\ [nudged EXCEPT !["Failed"] = n] \in [Verdicts -> Nat]
                             /\ [nudged EXCEPT !["Failed"] = n].Failed = n
                             /\ [nudged EXCEPT !["Failed"] = n].Passed = nudged.Passed
                             /\ [nudged EXCEPT !["Passed"] = n] \in [Verdicts -> Nat]
                             /\ [nudged EXCEPT !["Passed"] = n].Passed = n
                             /\ [nudged EXCEPT !["Passed"] = n].Failed = nudged.Failed
  BY DEF Verdicts

LEMMA InitCounter == Init => CounterInv
  <1> SUFFICES ASSUME Init PROVE CounterInv
    OBVIOUS
  <1>1. nudged \in [Verdicts -> Nat]
    BY DEF Init
  <1>2. NoFurther
    BY Bases, <1>1, Nudges DEF Init, NoFurther, Verdicts
  <1> QED
    BY <1>1, <1>2, Shapes DEF Init, CounterInv

\* A step of the counter that does not decide the test, down by at most the
\* steps that it counts towards passed, or to where it jumps.
LEMMA Undecided ==
    ASSUME CounterInv, kind = "counter", UNCHANGED <<kind, mEventStatus>>, mFdc' \in Int,
           NEW f \in Nat, NEW p \in Nat, nudged'.Failed = f, nudged'.Passed = p,
           \/ mFdc' <= mFdc /\ f = nudged.Failed
           \/ Values.useJumpToFailed /\ mFdc' = Values.failedJumpValue
           \/ mFdc' - mFdc <= f - nudged.Failed
           \/ f >= Way,
           \/ mFdc' >= mFdc /\ p = nudged.Passed
           \/ Values.useJumpToPassed /\ mFdc' = Values.passedJumpValue
           \/ mFdc - mFdc' <= p - nudged.Passed
           \/ p >= Way,
           f >= nudged.Failed, p >= nudged.Passed
    PROVE  NoFurther' /\ DebouncedStep
  <1>1. nudged.Failed \in Nat /\ nudged.Passed \in Nat /\ mFdc \in Int
    BY Nudges DEF CounterInv
  <1>2. NoFurther
    BY DEF CounterInv
  <1>3. FailedBase' = FailedBase /\ PassedBase' = PassedBase
    BY BasesNext
  <1>4. Way \in Nat /\ FailedBase \in Int /\ PassedBase \in Int
    BY Bases
  <1>5. (mEventStatus # "Failed")' => (mFdc <= FailedBase + nudged.Failed \/ nudged.Failed >= Way)'
    <2> SUFFICES ASSUME mEventStatus # "Failed"
                 PROVE  mFdc' <= FailedBase + f \/ f >= Way
      BY <1>3 DEF Way
    <2>1. mFdc <= FailedBase + nudged.Failed \/ nudged.Failed >= Way
      BY <1>2 DEF NoFurther
    <2> QED
      BY <2>1, <1>1, <1>4, Bases, CounterAssumption
  <1>6. (mEventStatus # "Passed")' => (mFdc >= PassedBase - nudged.Passed \/ nudged.Passed >= Way)'
    <2> SUFFICES ASSUME mEventStatus # "Passed"
                 PROVE  mFdc' >= PassedBase - p \/ p >= Way
      BY <1>3 DEF Way
    <2>1. mFdc >= PassedBase - nudged.Passed \/ nudged.Passed >= Way
      BY <1>2 DEF NoFurther
    <2> QED
      BY <2>1, <1>1, <1>4, Bases, CounterAssumption
  <1> QED
    BY <1>5, <1>6 DEF NoFurther, DebouncedStep

\* A step that ends at a threshold, or at zero, with its verdict.
LEMMA DecidedAt ==
    ASSUME \/ /\ mEventStatus' = "Passed" /\ mFdc' = Values.passedThreshold /\ nudged'.Failed = 0
              /\ nudged'.Passed \in Nat
           \/ /\ mEventStatus' = "Failed" /\ mFdc' = Values.failedThreshold /\ nudged'.Passed = 0
              /\ nudged'.Failed \in Nat
           \/ mEventStatus' = "Pending" /\ mFdc' = 0 /\ nudged'.Failed = 0 /\ nudged'.Passed = 0
    PROVE  NoFurther'
  <1>1. CASE mEventStatus' = "Passed" /\ mFdc' = Values.passedThreshold /\ nudged'.Failed = 0
    BY <1>1, BasesNext, CounterAssumption DEF NoFurther
  <1>2. CASE mEventStatus' = "Failed" /\ mFdc' = Values.failedThreshold /\ nudged'.Passed = 0
    <2>1. PassedBase' \in Int /\ Values.failedThreshold \in Int
          /\ PassedBase' <= Values.failedThreshold
      BY BasesNext, CounterAssumption
    <2>2. Values.failedThreshold >= PassedBase' - 0
      BY <2>1
    <2> QED
      BY <1>2, <2>2 DEF NoFurther
  <1>3. CASE /\ mEventStatus' = "Pending" /\ mFdc' = 0
             /\ nudged'.Failed = 0 /\ nudged'.Passed = 0
    <2>1. mEventStatus' # "Passed" /\ mEventStatus' # "Failed"
      BY <1>3
    <2>2. FailedBase' \in Int /\ 0 <= FailedBase'
      BY <2>1, BasesNext, Zenon
    <2>3. PassedBase' \in Int /\ PassedBase' <= 0
      BY <2>1, BasesNext, Zenon
    <2>4. mFdc' <= FailedBase' + nudged'.Failed
      <3>1. nudged'.Failed \in Int /\ mFdc' \in Int
        BY <1>3
      <3>2. nudged'.Failed = 0 /\ mFdc' = 0
        BY <1>3
      <3>3. \A f, n, m \in Int : 0 <= f /\ n = 0 /\ m = 0 => m <= f + n
        OBVIOUS
      <3> QED
        BY <2>2, <3>1, <3>2, <3>3, Zenon
    <2>5. mFdc' >= PassedBase' - nudged'.Passed
      <3>1. nudged'.Passed \in Int /\ mFdc' \in Int
        BY <1>3
      <3>2. nudged'.Passed = 0 /\ mFdc' = 0
        BY <1>3
      <3>3. \A f, n, m \in Int : f <= 0 /\ n = 0 /\ m = 0 => m >= f - n
        OBVIOUS
      <3> QED
        BY <2>3, <3>1, <3>2, <3>3, Zenon
    <2> QED
      BY <2>4, <2>5 DEF NoFurther
  <1> QED
    BY <1>1, <1>2, <1>3

\* CounterInv and the step, for the four operations of the counter.
CounterGoal == CounterInv' /\ DebouncedStep

LEMMA PrepassedKeeps ==
    ASSUME CounterInv, CounterPrepassed
    PROVE  CounterGoal
  <1>1. /\ nudged \in [Verdicts -> Nat] /\ nudged.Failed \in Nat /\ nudged.Passed \in Nat
        /\ mFdc \in Int /\ kind = "counter" /\ NoFurther
    BY Nudges DEF CounterInv, CounterPrepassed, CountsReport
  <1>2. UNCHANGED <<kind, thread, caller>>
    BY DEF CounterPrepassed, monitorVars, timerVars
  <1> DEFINE steps == Lower(Way, nudged.Passed + Values.passedStepsize)
  <1>3. /\ steps \in Nat /\ Values.passedStepsize \in Nat /\ Way \in Nat
        /\ steps = Way \/ steps = nudged.Passed + Values.passedStepsize
        /\ steps <= Way /\ steps <= nudged.Passed + Values.passedStepsize
    BY <1>1, Bases, CounterAssumption DEF Lower
  <1> HIDE DEF steps
  <1>4. CASE /\ mFdc - Values.passedStepsize <= Values.passedThreshold
             /\ mFdc' = Values.passedThreshold
             /\ SetEventStatus("Passed")
             /\ nudged' = [Passed |-> steps, Failed |-> 0]
    <2>1. /\ mEventStatus' = "Passed" /\ nudged'.Failed = 0 /\ nudged'.Passed = steps
          /\ nudged' \in [Verdicts -> Nat] /\ mFdc' \in Int
      BY <1>1, <1>3, <1>4, Nudges, CounterAssumption DEF SetEventStatus
    <2>2. NoFurther'
      BY <2>1, <1>3, <1>4, DecidedAt
    <2>3. mEventStatus # "Passed" =>
              nudged'.Passed >= Lower(Way, PassedBase - Values.passedThreshold)
      <3> SUFFICES ASSUME mEventStatus # "Passed"
                   PROVE  steps >= Lower(Way, PassedBase - Values.passedThreshold)
        BY <2>1
      <3>1. mFdc >= PassedBase - nudged.Passed \/ nudged.Passed >= Way
        BY <1>1 DEF NoFurther
      <3>2. steps = Way \/ steps >= PassedBase - Values.passedThreshold
        BY <3>1, <1>1, <1>3, <1>4, Bases, CounterAssumption
      <3> QED
        BY <3>2, <1>3, Bases, CounterAssumption DEF Lower
    <2> QED
      BY <2>1, <2>2, <2>3, <1>1, <1>2 DEF CounterGoal, CounterInv, DebouncedStep, Verdicts
  <1>5. CASE /\ UNCHANGED mEventStatus
             /\ \/ /\ Values.useJumpToPassed /\ mFdc > Values.passedJumpValue
                   /\ mFdc' = Values.passedJumpValue /\ UNCHANGED nudged
                \/ /\ mFdc' = mFdc - Values.passedStepsize
                   /\ nudged' = [nudged EXCEPT !["Passed"] = steps]
    <2>1. /\ nudged' \in [Verdicts -> Nat] /\ mFdc' \in Int
          /\ nudged'.Failed = nudged.Failed
          /\ nudged'.Passed \in Nat
          /\ \/ Values.useJumpToPassed /\ mFdc' = Values.passedJumpValue
                /\ nudged'.Passed = nudged.Passed
             \/ mFdc - mFdc' = Values.passedStepsize /\ nudged'.Passed = steps
          /\ mFdc' <= mFdc
      BY <1>1, <1>3, <1>5, Nudges, CounterAssumption
    <2>2. CASE nudged.Passed <= nudged'.Passed
      <3>1. NoFurther' /\ DebouncedStep
        BY <2>1, <2>2, <1>1, <1>2, <1>3, <1>5, Undecided
      <3> QED
        BY <3>1, <2>1, <1>1, <1>2, <1>5 DEF CounterGoal, CounterInv
    <2>3. CASE nudged.Passed > nudged'.Passed
      <3>1. nudged'.Passed = Way
        BY <2>1, <2>3, <1>1, <1>3, CounterAssumption
      <3>2. (mEventStatus # "Failed")' => (mFdc <= FailedBase + nudged.Failed \/ nudged.Failed >= Way)'
        BY <2>1, <1>1, <1>3, <1>5, Bases, BasesNext DEF NoFurther, Way
      <3>3. NoFurther'
        BY <3>1, <3>2, <1>3 DEF NoFurther, Way
      <3> QED
        BY <3>3, <2>1, <1>1, <1>2, <1>5 DEF CounterGoal, CounterInv, DebouncedStep
    <2> QED
      BY <2>1, <2>2, <2>3, <1>1
  <1>6. CounterPrepassed =>
            \/ /\ mFdc - Values.passedStepsize <= Values.passedThreshold
               /\ mFdc' = Values.passedThreshold
               /\ SetEventStatus("Passed")
               /\ nudged' = [Passed |-> steps, Failed |-> 0]
            \/ /\ UNCHANGED mEventStatus
               /\ \/ /\ Values.useJumpToPassed /\ mFdc > Values.passedJumpValue
                     /\ mFdc' = Values.passedJumpValue /\ UNCHANGED nudged
                  \/ /\ mFdc' = mFdc - Values.passedStepsize
                     /\ nudged' = [nudged EXCEPT !["Passed"] = steps]
    BY DEF CounterPrepassed, Nudge, steps
  <1> QED
    BY <1>4, <1>5, <1>6

LEMMA PrefailedKeeps ==
    ASSUME CounterInv, CounterPrefailed
    PROVE  CounterGoal
  <1>1. /\ nudged \in [Verdicts -> Nat] /\ nudged.Passed \in Nat /\ nudged.Failed \in Nat
        /\ mFdc \in Int /\ kind = "counter" /\ NoFurther
    BY Nudges DEF CounterInv, CounterPrefailed, CountsReport
  <1>2. UNCHANGED <<kind, thread, caller>>
    BY DEF CounterPrefailed, monitorVars, timerVars
  <1> DEFINE steps == Lower(Way, nudged.Failed + Values.failedStepsize)
  <1>3. /\ steps \in Nat /\ Values.failedStepsize \in Nat /\ Way \in Nat
        /\ steps = Way \/ steps = nudged.Failed + Values.failedStepsize
        /\ steps <= Way /\ steps <= nudged.Failed + Values.failedStepsize
    BY <1>1, Bases, CounterAssumption DEF Lower
  <1> HIDE DEF steps
  <1>4. CASE /\ mFdc + Values.failedStepsize >= Values.failedThreshold
             /\ mFdc' = Values.failedThreshold
             /\ SetEventStatus("Failed")
             /\ nudged' = [Failed |-> steps, Passed |-> 0]
    <2>1. /\ mEventStatus' = "Failed" /\ nudged'.Passed = 0 /\ nudged'.Failed = steps
          /\ nudged' \in [Verdicts -> Nat] /\ mFdc' \in Int
      BY <1>1, <1>3, <1>4, Nudges, CounterAssumption DEF SetEventStatus
    <2>2. NoFurther'
      BY <2>1, <1>3, <1>4, DecidedAt
    <2>3. mEventStatus # "Failed" =>
              nudged'.Failed >= Lower(Way, Values.failedThreshold - FailedBase)
      <3> SUFFICES ASSUME mEventStatus # "Failed"
                   PROVE  steps >= Lower(Way, Values.failedThreshold - FailedBase)
        BY <2>1
      <3>1. mFdc <= FailedBase + nudged.Failed \/ nudged.Failed >= Way
        BY <1>1 DEF NoFurther
      <3>2. steps = Way \/ steps >= Values.failedThreshold - FailedBase
        BY <3>1, <1>1, <1>3, <1>4, Bases, CounterAssumption
      <3> QED
        BY <3>2, <1>3, Bases, CounterAssumption DEF Lower
    <2> QED
      BY <2>1, <2>2, <2>3, <1>1, <1>2 DEF CounterGoal, CounterInv, DebouncedStep, Verdicts
  <1>5. CASE /\ UNCHANGED mEventStatus
             /\ \/ /\ Values.useJumpToFailed /\ mFdc < Values.failedJumpValue
                   /\ mFdc' = Values.failedJumpValue /\ UNCHANGED nudged
                \/ /\ mFdc' = mFdc + Values.failedStepsize
                   /\ nudged' = [nudged EXCEPT !["Failed"] = steps]
    <2>1. /\ nudged' \in [Verdicts -> Nat] /\ mFdc' \in Int
          /\ nudged'.Passed = nudged.Passed
          /\ nudged'.Failed \in Nat
          /\ \/ Values.useJumpToFailed /\ mFdc' = Values.failedJumpValue
                /\ nudged'.Failed = nudged.Failed
             \/ mFdc' - mFdc = Values.failedStepsize /\ nudged'.Failed = steps
          /\ mFdc' >= mFdc
      BY <1>1, <1>3, <1>5, Nudges, CounterAssumption
    <2>2. CASE nudged.Failed <= nudged'.Failed
      <3>1. NoFurther' /\ DebouncedStep
        BY <2>1, <2>2, <1>1, <1>2, <1>3, <1>5, Undecided
      <3> QED
        BY <3>1, <2>1, <1>1, <1>2, <1>5 DEF CounterGoal, CounterInv
    <2>3. CASE nudged.Failed > nudged'.Failed
      <3>1. nudged'.Failed = Way
        BY <2>1, <2>3, <1>1, <1>3, CounterAssumption
      <3>2. (mEventStatus # "Passed")' => (mFdc >= PassedBase - nudged.Passed \/ nudged.Passed >= Way)'
        BY <2>1, <1>1, <1>3, <1>5, Bases, BasesNext DEF NoFurther, Way
      <3>3. NoFurther'
        BY <3>1, <3>2, <1>3 DEF NoFurther, Way
      <3> QED
        BY <3>3, <2>1, <1>1, <1>2, <1>5 DEF CounterGoal, CounterInv, DebouncedStep
    <2> QED
      BY <2>1, <2>2, <2>3, <1>1
  <1>6. CounterPrefailed =>
            \/ /\ mFdc + Values.failedStepsize >= Values.failedThreshold
               /\ mFdc' = Values.failedThreshold
               /\ SetEventStatus("Failed")
               /\ nudged' = [Failed |-> steps, Passed |-> 0]
            \/ /\ UNCHANGED mEventStatus
               /\ \/ /\ Values.useJumpToFailed /\ mFdc < Values.failedJumpValue
                     /\ mFdc' = Values.failedJumpValue /\ UNCHANGED nudged
                  \/ /\ mFdc' = mFdc + Values.failedStepsize
                     /\ nudged' = [nudged EXCEPT !["Failed"] = steps]
    BY DEF CounterPrefailed, Nudge, steps
  <1> QED
    BY <1>4, <1>5, <1>6

\* ReportPassed, ReportFailed, Freeze and Reset.
LEMMA DecidingKeeps ==
    ASSUME CounterInv, CounterReset \/ \E v \in Verdicts : CounterDecides(v)
    PROVE  CounterGoal
  <1>1. nudged \in [Verdicts -> Nat] /\ nudged.Failed \in Nat /\ nudged.Passed \in Nat
    BY Nudges DEF CounterInv
  <1>2. UNCHANGED <<kind, thread, caller>>
    BY DEF CounterDecides, CounterReset, monitorVars, timerVars
  <1>3. CASE CounterReset
    <2>1. /\ mEventStatus' = "Pending" /\ mFdc' = 0 /\ nudged' \in [Verdicts -> Nat]
          /\ nudged'.Failed = 0 /\ nudged'.Passed = 0
      BY <1>3 DEF CounterReset, SetEventStatus, Verdicts
    <2> QED
      BY <2>1, <1>2, DecidedAt DEF CounterGoal, CounterInv, DebouncedStep
  <1>4. ASSUME NEW v \in Verdicts, CounterDecides(v) PROVE CounterGoal
    <2>1. /\ mEventStatus' = v /\ reported' = v /\ nudged' \in [Verdicts -> Nat]
          /\ mFdc' = IF v = "Passed" THEN Values.passedThreshold ELSE Values.failedThreshold
          /\ nudged'.Failed = IF v = "Failed" THEN nudged.Failed ELSE 0
          /\ nudged'.Passed = IF v = "Passed" THEN nudged.Passed ELSE 0
      BY <1>1, <1>4 DEF CounterDecides, SetEventStatus, Settle, Verdicts
    <2>2. NoFurther'
      BY <2>1, <1>1, DecidedAt DEF Verdicts
    <2> QED
      BY <2>1, <2>2, <1>2, CounterAssumption DEF CounterGoal, CounterInv, DebouncedStep, Verdicts
  <1> QED
    BY <1>3, <1>4

LEMMA NextCounter == CounterInv /\ [Next]_vars => CounterGoal
  <1> SUFFICES ASSUME CounterInv, [Next]_vars PROVE CounterGoal
    OBVIOUS
  <1>0. kind = "counter" => NoFurther
    BY DEF CounterInv
  <1>1. CASE \/ \E v \in Verdicts : CounterDecides(v)
             \/ CounterPrepassed \/ CounterPrefailed \/ CounterReset
    BY <1>1, DecidingKeeps, PrepassedKeeps, PrefailedKeeps
  <1>2. ASSUME UNCHANGED <<kind, mEventStatus, mFdc, nudged>>,
               kind = "counter" => thread'.at = "none" /\ caller'.at \in {"idle", "gone", "write"}
        PROVE  CounterGoal
    <2>1. FailedBase' = FailedBase /\ PassedBase' = PassedBase
      BY <1>2, BasesNext
    <2>2. kind' = "counter" => NoFurther'
      BY <1>0, <1>2, <2>1 DEF NoFurther, Way
    <2> QED
      BY <1>2, <2>2 DEF CounterGoal, CounterInv, DebouncedStep
  <1>3. CASE Offer \/ AttachEvent
    <2>1. UNCHANGED <<kind, mEventStatus, mFdc, nudged, thread, caller>>
      BY <1>3 DEF Offer, AttachEvent, timerVars
    <2> QED
      BY <2>1, <1>2 DEF CounterInv
  <1>4. CASE \E a \in Actions : ReportMonitorAction(a)
    <2>1. UNCHANGED <<kind, thread, mEventStatus, mFdc, nudged>>
      BY <1>4 DEF ReportMonitorAction, monitorVars, timerVars
    <2>2. kind = "counter" => caller'.at \in {"gone", "write"}
      BY <1>4, Shapes DEF ReportMonitorAction
    <2> QED
      BY <2>1, <2>2, <1>2 DEF CounterInv
  <1>5. CASE SetEventStatusBits
    <2>1. UNCHANGED <<kind, thread, mEventStatus, mFdc, nudged>> /\ caller' = Idle
      BY <1>5 DEF SetEventStatusBits, monitorVars, timerVars
    <2> QED
      BY <2>1, <1>2, Shapes DEF CounterInv
  <1>6. CASE \/ Freeze \/ Join \/ Act \/ start \/ Check \/ Launch \/ Spin
             \/ tick \/ SpuriousWakeup
    <2>1. kind # "counter"
      BY <1>6 DEF Freeze, Join, Act, start, Check, Launch, Spin, At, CounterInv,
                  tick, TickWaits, TickTimeout, TickDecides, TickFrozen, SpuriousWakeup
    <2>2. UNCHANGED <<kind, mFdc, nudged>>
      BY <1>6 DEF Freeze, Join, Act, start, Check, Launch, Spin, monitorVars,
                  tick, TickWaits, TickTimeout, TickDecides, TickFrozen, SpuriousWakeup
    <2>3. mEventStatus' \in Verdicts \cup {"Pending"}
      BY <1>6 DEF Freeze, Join, Act, start, Check, Launch, Spin, SetEventStatus, CounterInv,
                  tick, TickWaits, TickTimeout, TickDecides, TickFrozen, SpuriousWakeup, Verdicts
    <2> QED
      BY <2>1, <2>2, <2>3 DEF CounterGoal, CounterInv, DebouncedStep
  <1>7. CASE UNCHANGED vars
    <2>1. UNCHANGED <<kind, thread, caller, mEventStatus, mFdc, nudged>>
      BY <1>7 DEF vars, monitorVars, timerVars
    <2> QED
      BY <2>1, <1>2 DEF CounterInv
  <1> QED
    BY <1>1, <1>3, <1>4, <1>5, <1>6, <1>7 DEF Next, CallerStep

\* CounterBasedDebouncer debounces, for all thresholds and step sizes and all
\* jump values: no saturation, no jump the other way and no change of direction
\* brings a verdict whose steps do not make up the way to it.
THEOREM CounterDebounces == Spec => Debounced
  <1>1. CounterInv /\ [Next]_vars => CounterInv' /\ DebouncedStep
    BY NextCounter DEF CounterGoal
  <1>2. DebouncedStep =>
            (kind = "counter" /\ reported' = "none" =>
                /\ mEventStatus # "Failed" /\ mEventStatus' = "Failed" =>
                       nudged'.Failed >= Lower(Way, Values.failedThreshold - FailedBase)
                /\ mEventStatus # "Passed" /\ mEventStatus' = "Passed" =>
                       nudged'.Passed >= Lower(Way, PassedBase - Values.passedThreshold))
    BY DEF DebouncedStep
  <1> QED
    BY <1>1, <1>2, InitCounter, PTL DEF Spec, Debounced

-----------------------------------------------------------------------------
(* The reports *)

\* A report acts when no thread is left, and what it decided stands until the
\* next one begins.
Decided ==
    reported # "none" =>
        /\ thread = NoThread /\ mEventStatus = reported
        /\ caller = Idle \/ caller.at = "write"

ReportInv ==
    /\ ShapesOK
    /\ At("act") => thread = NoThread
    /\ Decided
    /\ EventAgrees

LEMMA InitReport == Init => ReportInv
  BY Shapes, TimeAssumption DEF Init, ReportInv, ShapesOK, At, Decided, EventAgrees, Verdicts

\* A change that is told keeps the event and the debouncer in agreement.
LEMMA SetKeepsAgreement ==
    ASSUME EventAgrees, NEW s \in Verdicts \cup {"Pending"}, SetEventStatus(s),
           UNCHANGED <<mEvent, cleared>>
    PROVE  EventAgrees'
  <1>1. CASE s # mEventStatus /\ s \in Verdicts /\ mEvent
    <2>1. /\ mEventStatus' = s
          /\ status' = [TestFailed |-> s = "Failed", TestNotCompleted |-> FALSE,
                        Fdc |-> IF s = "Failed" THEN 127 ELSE -128]
      BY <1>1, Zenon DEF SetEventStatus, onEventStatusChanged
    <2>2. status'.TestFailed = (s = "Failed")
      BY <2>1, Zenon
    <2>3. status'.TestNotCompleted = FALSE
      BY <2>1, Zenon
    <2>4. status'.Fdc = IF s = "Failed" THEN 127 ELSE -128
      BY <2>1
    <2> QED
      BY <2>1, <2>2, <2>3, <2>4, Zenon DEF EventAgrees
  <1>2. CASE ~(s # mEventStatus /\ s \in Verdicts /\ mEvent)
    <2>1. mEventStatus' = s /\ (UNCHANGED status)
      BY <1>2, Zenon DEF SetEventStatus, onEventStatusChanged
    <2>2. CASE s = mEventStatus
      BY <2>1, <2>2, Zenon DEF EventAgrees
    <2>3. CASE s \notin Verdicts \/ ~mEvent
      BY <2>1, <2>3, Zenon DEF EventAgrees
    <2> QED
      BY <1>2, <2>2, <2>3
  <1> QED
    BY <1>1, <1>2

\* Nothing that is compared has changed.
LEMMA SameAgreement ==
    ASSUME EventAgrees, UNCHANGED <<mEvent, cleared, mEventStatus, status>>
    PROVE  EventAgrees'
  BY Zenon DEF EventAgrees

LEMMA AgreementKept ==
    ASSUME CounterInv, EventAgrees, [Next]_vars
    PROVE  EventAgrees'
  <1>1. CASE Offer
    BY <1>1, SameAgreement DEF Offer
  <1>2. CASE AttachEvent
    <2>1. /\ UNCHANGED <<mEventStatus, status>>
          /\ cleared' = (cleared \/ mEventStatus # "Pending")
      BY <1>2, Zenon DEF AttachEvent
    <2>2. ~cleared' => mEventStatus' \notin Verdicts
      BY <2>1 DEF Verdicts
    <2> QED
      BY <2>2, Zenon DEF EventAgrees
  <1>3. CASE \E a \in Actions : ReportMonitorAction(a)
    BY <1>3, SameAgreement DEF ReportMonitorAction, monitorVars
  <1>4. CASE SetEventStatusBits
    BY <1>4 DEF SetEventStatusBits, EventAgrees
  <1>5. CASE \/ \E v \in Verdicts : CounterDecides(v)
             \/ CounterPrepassed \/ CounterPrefailed \/ CounterReset
    <2>1. UNCHANGED <<mEvent, cleared>>
      BY <1>5 DEF CounterDecides, CounterPrepassed, CounterPrefailed, CounterReset, monitorVars
    <2>2. \/ \E s \in Verdicts \cup {"Pending"} : SetEventStatus(s)
          \/ UNCHANGED <<mEventStatus, status>>
      BY <1>5 DEF CounterDecides, CounterPrepassed, CounterPrefailed, CounterReset, Verdicts
    <2> QED
      BY <2>1, <2>2, SameAgreement, SetKeepsAgreement
  <1>6. CASE Freeze \/ Join \/ start \/ Check \/ Launch \/ Spin
    BY <1>6, SameAgreement DEF Freeze, Join, start, Check, Launch, Spin, monitorVars
  <1>7. CASE Act
    <2>1. UNCHANGED <<mEvent, cleared>>
      BY <1>7 DEF Act, monitorVars
    <2>2. \/ \E s \in Verdicts \cup {"Pending"} : SetEventStatus(s)
          \/ UNCHANGED <<mEventStatus, status>>
      BY <1>7 DEF Act
    <2> QED
      BY <2>1, <2>2, SameAgreement, SetKeepsAgreement
  <1>8. CASE tick \/ SpuriousWakeup
    <2>1. UNCHANGED <<mEvent, cleared>>
      BY <1>8 DEF tick, TickWaits, TickTimeout, TickDecides, TickFrozen, SpuriousWakeup, monitorVars
    <2>2. \/ \E s \in Verdicts \cup {"Pending"} : SetEventStatus(s)
          \/ UNCHANGED <<mEventStatus, status>>
      BY <1>8 DEF tick, TickWaits, TickTimeout, TickDecides, TickFrozen, SpuriousWakeup, Verdicts
    <2> QED
      BY <2>1, <2>2, SameAgreement, SetKeepsAgreement
  <1>9. CASE UNCHANGED vars
    BY <1>9, SameAgreement DEF vars, monitorVars
  <1> QED
    BY <1>1, <1>2, <1>3, <1>4, <1>5, <1>6, <1>7, <1>8, <1>9 DEF Next, CallerStep

\* What is left of a time, in the arithmetic of uint32_t, and the thread for it.
\* The steps of the reporting thread.
LEMMA CallerKeepsReport ==
    ASSUME ShapesOK, At("act") => thread = NoThread, Decided, CallerStep
    PROVE  ShapesOK' /\ (At("act") => thread = NoThread)' /\ Decided'
  <1> USE DEF ShapesOK, At
  <1>1. CASE SetEventStatusBits
    <2>1. caller' = Idle /\ UNCHANGED <<kind, thread, mElapsedMs, mIsPassing, mEventStatus, reported>>
      BY <1>1 DEF SetEventStatusBits, monitorVars, timerVars
    <2> QED
      BY <2>1, Shapes DEF Decided
  <1>2. CASE Freeze \/ Join \/ Act \/ start \/ Check \/ Launch \/ Spin
    <2>1. /\ caller.at \in ReportPlaces => caller \in Reports
          /\ caller.at \in WaitPlaces => caller \in Waits
      BY Shapes DEF ReportPlaces, WaitPlaces
    <2>2. reported = "none"
      BY <1>2, Shapes DEF Freeze, Join, Act, start, Check, Launch, Spin, Decided
    <2>3. UNCHANGED kind
      BY <1>2 DEF Freeze, Join, Act, start, Check, Launch, Spin, monitorVars
    <2>4. CASE Freeze
      <3>1. /\ reported' = reported /\ UNCHANGED <<mElapsedMs, mIsPassing>>
            /\ caller' = [caller EXCEPT !.at = IF thread = NoThread THEN "act" ELSE "join"]
            /\ thread' = IF thread.at = "waiting" THEN [thread EXCEPT !.at = "woken"] ELSE thread
            /\ caller \in Reports
        BY <2>1, <2>4 DEF Freeze, Goto, ReportPlaces
      <3>2. caller' \in Reports /\ caller'.at = IF thread = NoThread THEN "act" ELSE "join"
        BY <3>1, MovedReport DEF ReportPlaces
      <3>3. /\ thread = NoThread => thread' = NoThread
            /\ thread \in Ticks => thread' \in Ticks
        <4>1. ASSUME thread = NoThread PROVE thread' = NoThread
          BY <3>1, <4>1, Shapes
        <4>2. ASSUME thread \in Ticks PROVE thread' \in Ticks
          BY <3>1, <4>2, MovedThread
        <4> QED
          BY <4>1, <4>2
      <3>4. (At("act") => thread = NoThread)'
        BY <3>2, <3>3, Shapes
      <3> QED
        BY <2>2, <2>3, <3>1, <3>2, <3>3, <3>4 DEF Decided
    <2>5. CASE Join
      <3>1. /\ reported' = reported /\ thread' = NoThread /\ UNCHANGED <<mElapsedMs, mIsPassing>>
            /\ \/ caller.at = "join" /\ caller' = [caller EXCEPT !.at = "act"]
               \/ caller.at = "rejoin" /\ caller' = [caller EXCEPT !.at = "launch"]
        BY <2>5 DEF Join, Goto
      <3>2. caller' \in Reports \/ caller' \in Waits
        BY <2>1, <3>1, MovedReport, MovedWait DEF ReportPlaces, WaitPlaces
      <3> QED
        BY <2>2, <2>3, <3>1, <3>2 DEF Decided
    <2>6. CASE Act
      <3>1. thread' = NoThread /\ caller \in Reports
        BY <2>1, <2>6 DEF Act, ReportPlaces
      <3>2. \/ reported' = reported
            \/ /\ caller.action \in Verdicts /\ mEventStatus' = caller.action
               /\ reported' = caller.action
        BY <2>6 DEF Act, SetEventStatus
      <3>3. caller' = CASE caller.action \in {"Prepassed", "Prefailed"} ->
                               [caller EXCEPT !.at = "start"]
                        [] caller.action = "Delete" -> Gone
                        [] OTHER -> Idle
        BY <2>6 DEF Act
      <3>4. caller' \in Reports \cup {Idle, Gone}
        BY <3>1, <3>3, MovedReport DEF ReportPlaces
      <3>5. caller.action \in Verdicts => caller' = Idle
        BY <3>3 DEF Verdicts
      <3>6. mElapsedMs' \in Int
        BY <2>6, TimeAssumption DEF Act
      <3>7. mIsPassing' \in BOOLEAN
        BY <2>6 DEF Act
      <3> QED
        BY <2>2, <2>3, <3>1, <3>2, <3>4, <3>5, <3>6, <3>7 DEF Decided
    <2>7. CASE start
      <3> DEFINE total == IF caller.action = "Prepassed" THEN passedMs ELSE failedMs
                 left == (total - mElapsedMs) % Words
      <3>1. reported' = reported /\ caller' = [at |-> "check", duration |-> left]
            /\ UNCHANGED <<thread, mElapsedMs, mIsPassing>>
        BY <2>7 DEF start, timerVars
      <3>2. left \in Int
        <4>1. total - mElapsedMs \in Int /\ Words \in Nat \ {0}
          BY TimeAssumption
        <4> QED
          BY <4>1
      <3> HIDE DEF left
      <3>3. caller' \in Waits
        BY <3>1, <3>2 DEF Waits, WaitPlaces
      <3> QED
        BY <2>2, <2>3, <3>1, <3>3, Shapes DEF Decided, WaitPlaces
    <2>8. CASE Check
      <3>1. /\ reported' = reported /\ UNCHANGED <<thread, mElapsedMs, mIsPassing>>
            /\ \/ caller' = Idle
               \/ caller' = [caller EXCEPT !.at = "rejoin"]
               \/ caller' = [caller EXCEPT !.at = "launch"]
            /\ caller \in Waits
        BY <2>1, <2>8 DEF Check, Goto, timerVars, WaitPlaces
      <3>2. caller' = Idle \/ caller' \in Waits
        BY <3>1, MovedWait DEF WaitPlaces
      <3> QED
        BY <2>2, <2>3, <3>1, <3>2, Shapes DEF Decided, WaitPlaces
    <2>9. CASE Launch
      <3>1. /\ reported' = reported /\ UNCHANGED <<mElapsedMs, mIsPassing>>
            /\ thread' = [at |-> "created", duration |-> caller.duration, passing |-> mIsPassing]
            /\ caller' = [caller EXCEPT !.at = "spin"]
            /\ caller \in Waits
        BY <2>1, <2>9 DEF Launch, Goto, WaitPlaces
      <3>2. caller' \in Waits
        BY <3>1, MovedWait DEF WaitPlaces
      <3>3. thread' \in Ticks
        BY <3>1 DEF Ticks, Waits
      <3> QED
        BY <2>2, <2>3, <3>1, <3>2, <3>3, Shapes DEF Decided, WaitPlaces
    <2>10. CASE Spin
      <3>1. caller' = Idle /\ UNCHANGED <<thread, mElapsedMs, mIsPassing, reported>>
        BY <2>10 DEF Spin, timerVars
      <3> QED
        BY <2>2, <2>3, <3>1, Shapes DEF Decided
    <2> QED
      BY <1>2, <2>4, <2>5, <2>6, <2>7, <2>8, <2>9, <2>10
  <1> QED
    BY <1>1, <1>2 DEF CallerStep

\* The steps of the timer's thread, while there is one.
LEMMA TickKeepsReport ==
    ASSUME ShapesOK, At("act") => thread = NoThread, Decided, tick \/ SpuriousWakeup
    PROVE  ShapesOK' /\ (At("act") => thread = NoThread)' /\ Decided'
  <1> USE DEF ShapesOK, At
  <1>1. thread.at \in {"created", "locked", "waiting", "expired", "woken"}
    BY DEF tick, TickWaits, TickTimeout, TickDecides, TickFrozen, SpuriousWakeup
  <1>2. thread \in Ticks /\ thread # NoThread
    BY <1>1, Shapes
  <1>3. reported = "none" /\ ~At("act")
    BY <1>2 DEF Decided
  <1>4. UNCHANGED <<kind, caller, mIsPassing, reported>>
    BY DEF tick, TickWaits, TickTimeout, TickDecides, TickFrozen, SpuriousWakeup, monitorVars
  <1>5. \E p \in {"locked", "waiting", "expired", "woken", "done"} :
            thread' = [thread EXCEPT !.at = p]
    BY DEF tick, TickWaits, TickTimeout, TickDecides, TickFrozen, SpuriousWakeup
  <1>6. thread' \in Ticks
    <2>1. PICK p \in {"locked", "waiting", "expired", "woken", "done"} :
              thread' = [thread EXCEPT !.at = p]
      BY <1>5
    <2>2. [thread EXCEPT !.at = p] \in Ticks
      BY <1>2, MovedThread
    <2> QED
      BY <2>1, <2>2
  <1>7. mElapsedMs' \in Int
    <2>1. CASE TickFrozen
      <3>1. thread.duration \in Int
        BY <1>2, TimeAssumption DEF Ticks
      <3>2. PICK t \in 0 .. (thread.duration + 1) : t < Words /\ mElapsedMs' = t
        BY <2>1 DEF TickFrozen
      <3> QED
        BY <3>1, <3>2, TimeAssumption
    <2>2. CASE ~TickFrozen
      BY <2>2, TimeAssumption DEF tick, TickWaits, TickTimeout, TickDecides, SpuriousWakeup
    <2> QED
      BY <2>1, <2>2
  <1> QED
    BY <1>3, <1>4, <1>6, <1>7 DEF Decided

LEMMA NextReport == CounterInv /\ ReportInv /\ [Next]_vars => ReportInv'
  <1> SUFFICES ASSUME CounterInv, ReportInv, [Next]_vars
               PROVE  ShapesOK' /\ (At("act") => thread = NoThread)' /\ Decided'
    BY AgreementKept DEF ReportInv
  <1>1. CASE CallerStep
    BY <1>1, CallerKeepsReport DEF ReportInv
  <1>2. CASE tick \/ SpuriousWakeup
    BY <1>2, TickKeepsReport DEF ReportInv
  <1>3. CASE Offer \/ AttachEvent \/ UNCHANGED vars
    <2>1. UNCHANGED <<kind, caller, thread, mElapsedMs, mIsPassing, mEventStatus, reported>>
      BY <1>3 DEF Offer, AttachEvent, vars, monitorVars, timerVars
    <2> QED
      BY <2>1 DEF ReportInv, ShapesOK, At, Decided
  <1>4. CASE \/ \E v \in Verdicts : CounterDecides(v)
             \/ CounterPrepassed \/ CounterPrefailed \/ CounterReset
    <2>1. /\ kind = "counter" /\ caller = Idle
          /\ UNCHANGED <<kind, caller, thread, mElapsedMs, mIsPassing>>
      BY <1>4 DEF CounterDecides, CounterPrepassed, CounterPrefailed, CounterReset, CountsReport,
                  monitorVars, timerVars
    <2>2. reported' = "none" \/ mEventStatus' = reported'
      BY <1>4 DEF CounterDecides, CounterPrepassed, CounterPrefailed, CounterReset, SetEventStatus
    <2>3. thread = NoThread
      BY <2>1, Shapes DEF CounterInv, ReportInv, ShapesOK
    <2> QED
      BY <2>1, <2>2, <2>3 DEF ReportInv, ShapesOK, At, Decided
  <1>5. ASSUME NEW a \in Actions, ReportMonitorAction(a)
        PROVE  ShapesOK' /\ (At("act") => thread = NoThread)' /\ Decided'
    <2>1. UNCHANGED <<kind, thread, mElapsedMs, mIsPassing, mEventStatus>>
      BY <1>5 DEF ReportMonitorAction, monitorVars, timerVars
    <2>2. CASE a = "ResetTestFailed"
      <3>1. /\ caller' = [at |-> "write", old |-> status.TestNotCompleted] /\ reported' = reported
        BY <1>5, <2>2 DEF ReportMonitorAction
      <3>2. caller'.at = "write"
        BY <3>1
      <3>3. reported' # "none" => thread' = NoThread /\ mEventStatus' = reported'
        BY <2>1, <3>1 DEF ReportInv, Decided
      <3> QED
        BY <2>1, <3>2, <3>3 DEF ReportInv, ShapesOK, At, Decided
    <2>3. CASE a # "ResetTestFailed"
      <3>1. reported' = "none"
        BY <1>5, <2>3 DEF ReportMonitorAction
      <3>2. \/ caller' = Gone
            \/ \E p \in {"notify", "start"} : caller' = [at |-> p, action |-> a]
        BY <1>5, <2>3 DEF ReportMonitorAction
      <3>3. caller' = Gone \/ (caller' \in Reports /\ caller'.at # "act")
        BY <3>2 DEF Reports, ReportPlaces
      <3> QED
        BY <2>1, <3>1, <3>3, Shapes DEF ReportInv, ShapesOK, At, Decided
    <2> QED
      BY <2>2, <2>3
  <1> QED
    BY <1>1, <1>2, <1>3, <1>4, <1>5 DEF Next

\* A report of passed or failed stands, in the debouncer and in the event, for
\* all times and counter parameters: TimerBasedDebouncer has joined the thread of
\* an earlier report before it acts, also the one that it started late, with the
\* time that was left before another one decided.
THEOREM ReportIsKept == Spec => []ReportStands
  <1>1. ReportInv => ReportStands
    BY DEF ReportInv, Decided, ReportStands, ReportKept
  <1>2. CounterInv /\ [Next]_vars => CounterInv'
    BY NextCounter DEF CounterGoal
  <1> QED
    BY <1>1, <1>2, InitCounter, InitReport, NextReport, PTL DEF Spec
=============================================================================
