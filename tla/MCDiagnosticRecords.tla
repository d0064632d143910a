------------------------ MODULE MCDiagnosticRecords ------------------------
(* Two trouble codes with status bytes of two bits.                          *)
EXTENDS DiagnosticRecords

CONSTANTS d1, d2, kTestFailed, kConfirmedDTC

MCDtcs == {d1, d2}
MCBits == {kTestFailed, kConfirmedDTC}

=============================================================================
