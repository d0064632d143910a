-------------------------- MODULE MCPackageManager --------------------------
(***************************************************************************)
(* Two packages for one binary: "new" is whole, "bad" carries no metadata  *)
(* and no process entry of its own.  One chunk each; the chunk can be      *)
(* missing, arrive twice, and be extracted in part.                        *)
(***************************************************************************)
EXTENDS PackageManager

MCPackages == {"new", "bad"}
MCBinaries == {"app"}
MCProcesses == {"App"}

MCArchive == [p \in MCPackages |->
                IF p = "new" THEN <<{"metadata.json", "app", "process_entry.xml"}>>
                             ELSE <<{"app"}>>]

MCSizes == [p \in MCPackages |-> IF p = "new" THEN {0, 1} ELSE {0}]
MCOpenings == {<<TRUE, TRUE>>, <<FALSE, FALSE>>}

MCBinaryName == [p \in MCPackages |-> "app"]
MCProcessName == [p \in MCPackages |-> "App"]
=============================================================================
