--------------------------- MODULE MCVehicleStatus ---------------------------
(* The vehicle and one watchdog, each of which may end and come back; and, for *)
(* the storage of the watchdog, the same with a vehicle that goes on running.  *)
EXTENDS VehicleStatus

\* Of the storages only which of their files are whole.
NothingFollowed == [o \in Owners |-> 0]

\* The first three entries of the watchdog's log: one of Main, and one of each
\* thread while Main saves.
Followed == [o \in Owners |-> IF o = Vehicle THEN 0 ELSE 3]

VehicleRuns == EvInitialize \/ EvConstruct \/ EvOffer \/ EvHeartbeat \/ EvPoll

StorageNext ==
    \/ VehicleRuns
    \/ \E w \in Clients : WaConnect(w) \/ WaMain(w) \/ WaPoller(w) \/ WaKilled(w)

StorageSpec == Init /\ [][StorageNext]_vars

=============================================================================
