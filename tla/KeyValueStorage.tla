-------------------------- MODULE KeyValueStorage --------------------------
(***************************************************************************)
(* ara::per::KeyValueStorage, one per process: a map in memory, the JSON   *)
(* file it is read from, and the temporary file that SyncToStorage writes  *)
(* and renames.  Nothing protects the map: another thread of the process   *)
(* may set a value while SyncToStorage walks it.  Of each map the keys     *)
(* below MaxLog are followed.                                              *)
(***************************************************************************)
EXTENDS Naturals

CONSTANTS
    Owners,    \* processes with a storage
    Values,    \* what can be stored
    MaxLog     \* bound: how many keys of each owner are followed

ASSUME LogAssumption == MaxLog \in [Owners -> Nat]
ASSUME ValuesAssumption == "none" \notin Values

VARIABLE store   \* mRoot, the files, and what mRoot was when a walk of it began

Keys == UNION {0 .. MaxLog[o] - 1 : o \in Owners}
Contents == [Keys -> Values \cup {"none"}]
Blank == [k \in Keys |-> "none"]
Closed == <<"closed">>
Torn == <<"torn">>
Missing == <<"missing">>

Storages == [root : Contents \cup {Closed}, file : Contents \cup {Torn},
             tmp : Contents \cup {Torn, Missing}, walk : Contents \cup {Missing}]

StoreTypeOK == store \in [Owners -> Storages]

StoreInit ==
    store = [o \in Owners |->
                [root |-> Closed, file |-> Blank, tmp |-> Missing, walk |-> Missing]]

IsOpen(o) == store[o].root # Closed

\* Open reads the file; without one it starts empty, and with a broken one it
\* returns an error and there is no storage.
Open(o) ==
    store' = [store EXCEPT ![o].root = IF store[o].file = Torn THEN Closed ELSE store[o].file]

SetValue(o, k, v) ==
    store' = IF k < MaxLog[o] /\ IsOpen(o) THEN [store EXCEPT ![o].root[k] = v] ELSE store

\* Mutant: the file itself is opened for writing.
SyncBeginsInPlace(o) ==
    store' = [store EXCEPT ![o].tmp = Torn, ![o].walk = store[o].root, ![o].file = Torn]

\* SyncToStorage opens the temporary file and starts to walk the map ...
SyncBegins(o) == store' = [store EXCEPT ![o].tmp = Torn, ![o].walk = store[o].root]

\* What a walk may find of a key: its value, unless the map was changed on the
\* way; then also its value before, or nothing, since the walk follows links
\* that the other thread is changing.
Walked(o, k) ==
    IF store[o].walk = store[o].root
    THEN {store[o].root[k]}
    ELSE {store[o].walk[k], store[o].root[k], "none"}

\* ... writes it entry by entry ...
SyncWritten(o) ==
    \E c \in Contents :
        /\ \A k \in Keys : c[k] \in Walked(o, k)
        /\ store' = [store EXCEPT ![o].tmp = c, ![o].walk = Missing]

\* ... and renames the file.
SyncRenamed(o) == store' = [store EXCEPT ![o].file = store[o].tmp, ![o].tmp = Missing]

\* Writing or renaming failed: the temporary file is removed.
SyncFails(o) == store' = [store EXCEPT ![o].tmp = Missing, ![o].walk = Missing]

\* The process ends; the files stay as they are.
CloseStorage(o) == store' = [store EXCEPT ![o].root = Closed, ![o].walk = Missing]

-----------------------------------------------------------------------------
(* Properties *)

\* The single-writer assumption that the comments of the storages and of the
\* watchdog state: while one thread saves the map, no other changes it.
SingleWriter == \A o \in Owners : store[o].walk # Missing => store[o].walk = store[o].root

=============================================================================
