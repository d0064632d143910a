----------------------------- MODULE MCSdClient -----------------------------
(* The service-discovery client for TLC.  RepetitionsMax = 2 gives a first, a  *)
(* middle and a last round of the repetition phase.  In behaviours of its own, *)
(* the endpoint of the offers, with two readers (the Main of the diagnostic    *)
(* manager, and the thread of its debouncer), so that one can pass the test of *)
(* the flag while the other writes it.                                         *)
EXTENDS SdClient, OfferedEndpoint

VARIABLE subject

mcVars == <<subject, vars, endpointVars>>

MCInit ==
    /\ subject \in {"discovery", "endpoint"}
    /\ Init /\ EndpointInit
    /\ subject = "endpoint" => ~mSignalFlag

Discovering == subject = "discovery" /\ UNCHANGED <<subject, endpointVars>>

MCNext ==
    \/ Next /\ Discovering
    \/ subject = "endpoint" /\ EndpointNext /\ UNCHANGED <<subject, vars>>

\* The fairness of the client; no thread has to get past the endpoint's lock.
MCSpec ==
    /\ MCInit /\ [][MCNext]_mcVars
    /\ WF_mcVars(Agent /\ Discovering)
    /\ WF_mcVars(OfferSignal /\ Discovering)
    /\ WF_mcVars((StartSignal \/ Launch \/ StopSignal) /\ Discovering)
    /\ WF_mcVars((DisposeState \/ DisposeTimer \/ Cancel \/ CancelSignal \/ Join) /\ Discovering)

=============================================================================
