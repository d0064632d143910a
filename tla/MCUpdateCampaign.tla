-------------------------- MODULE MCUpdateCampaign --------------------------
(***************************************************************************)
(* Campaigns with two packages of the same size and with the same names of *)
(* the binary and the process, so that each can be taken for the other.    *)
(***************************************************************************)
EXTENDS UpdateCampaign

MCPackages == {"new", "old"}
MCBinaries == {"app"}
MCProcesses == {"App"}

MCArchive == [p \in MCPackages |->
                IF p = "new" THEN <<{"metadata.json", "app"}, {"process_entry.xml"}>>
                             ELSE <<{"app", "process_entry.xml"}, {"metadata.json"}>>]

MCSizes == [p \in MCPackages |-> {Len(MCArchive[p])}]
MCOpenings == {<<TRUE, TRUE>>, <<FALSE, FALSE>>}
MCBinaryName == [p \in MCPackages |-> "app"]
MCProcessName == [p \in MCPackages |-> "App"]
=============================================================================
