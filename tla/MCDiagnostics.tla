---------------------------- MODULE MCDiagnostics ----------------------------
(* One of two servers of diagnostics in each behaviour.  UdsServer: a router    *)
(* for security access and one for the transfer, two sub-functions of one       *)
(* level, seeds and counters that wrap soon, and meta-infos with a strict       *)
(* threshold, with one that no counter exceeds, with one that eight bits cannot *)
(* hold, and with less than is needed.  DoipBridge: two of the six pids, one of *)
(* a byte with one value and one of four bytes with two.                        *)
EXTENDS UdsServer, DoipBridge

VARIABLE subject

mcVars == <<subject, vars, doipVars>>

MCRouters ==
    {{"SecurityAccess", "EcuReset", "TransferExit"},
     {"Download", "Upload", "TransferData", "TransferExit", "GenericRoutine"}}

MCMetaInfos ==
    {[keys |-> Keys, threshold |-> t] : t \in {1, MaxByte, MaxByte + 1}}
    \cup {[keys |-> Keys \ {k}, threshold |-> 0] : k \in {"AttemptThreshold", "ExceededAttemptDelay"}}
    \cup {[keys |-> {}, threshold |-> 0]}

SomeSamples ==
    [pid \in ForwardedPids |->
        CASE pid = 47 -> {100} [] pid = 166 -> {255, 2000000001} [] OTHER -> {}]

\* The server that is not the subject stays in one of its initial states.
MCInit ==
    /\ subject \in {"uds", "doip"} /\ Init /\ DoipInit
    /\ subject = "uds" => ~mDebouncer.passing /\ asking = 47 /\ resource = 100
    /\ subject = "doip" => "Upload" \in mServices

MCNext ==
    \/ subject = "uds" /\ Next /\ UNCHANGED <<subject, doipVars>>
    \/ subject = "doip" /\ DoipNext /\ UNCHANGED <<subject, vars>>

MCSpec == MCInit /\ [][MCNext]_mcVars

=============================================================================
