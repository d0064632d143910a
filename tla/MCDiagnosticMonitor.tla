------------------------ MODULE MCDiagnosticMonitor ------------------------
(* A counter of six steps, with a jump between its thresholds towards passed *)
(* and one that fails the test at the next report; and times of two and of   *)
(* one tick.                                                                 *)
EXTENDS DiagnosticMonitor

MCValues == [passedThreshold |-> -3, failedThreshold |-> 3, passedStepsize |-> 1,
             failedStepsize |-> 2, passedJumpValue |-> 1, failedJumpValue |-> 4,
             useJumpToPassed |-> TRUE, useJumpToFailed |-> TRUE]

=============================================================================
