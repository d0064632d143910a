--------------------------- MODULE AtomicStorage ---------------------------
(***************************************************************************)
(* What the storages of the applications promise: a memory that is lost    *)
(* with its process, and durable contents that only ever change, in one    *)
(* step, to a copy that was finished: of the memory, if nobody changed it  *)
(* while it was copied, and otherwise of some of its entries, before or    *)
(* after the change.  However a process ends, what it had made durable     *)
(* before is what the next one opens.                                      *)
(***************************************************************************)
CONSTANTS
    Owners,     \* processes with a storage
    Keys,       \* of the entries
    Contents,   \* what a storage can hold
    Closed,     \* the memory of a storage that is not open
    Missing,    \* no copy is being made durable
    Blank       \* the contents of a storage that was never saved

VARIABLES memory, copying, copy, durable

vars == <<memory, copying, copy, durable>>

Init ==
    /\ memory = [o \in Owners |-> Closed]
    /\ copying = [o \in Owners |-> Missing]
    /\ copy = [o \in Owners |-> Missing]
    /\ durable = [o \in Owners |-> Blank]

\* Opening finds what is durable, always.
Open(o) ==
    /\ memory' = [memory EXCEPT ![o] = durable[o]]
    /\ UNCHANGED <<copying, copy, durable>>

Change(o) ==
    /\ memory[o] # Closed
    /\ \E c \in Contents : memory' = [memory EXCEPT ![o] = c]
    /\ UNCHANGED <<copying, copy, durable>>

\* Saving begins to copy what the memory holds ...
Begin(o) ==
    /\ memory[o] # Closed
    /\ copying' = [copying EXCEPT ![o] = memory[o]]
    /\ copy' = [copy EXCEPT ![o] = Missing]
    /\ UNCHANGED <<memory, durable>>

\* ... finishes, with all of it if it stayed as it was ...
Copy(o) ==
    /\ memory[o] # Closed /\ copying[o] # Missing
    /\ \E c \in Contents :
           /\ IF copying[o] = memory[o]
              THEN c = memory[o]
              ELSE \A k \in Keys : c[k] \in {copying[o][k], memory[o][k], Blank[k]}
           /\ copy' = [copy EXCEPT ![o] = c]
    /\ copying' = [copying EXCEPT ![o] = Missing]
    /\ UNCHANGED <<memory, durable>>

\* ... and makes the copy durable in one step.
Commit(o) ==
    /\ memory[o] # Closed /\ copy[o] # Missing
    /\ durable' = [durable EXCEPT ![o] = copy[o]]
    /\ copy' = [copy EXCEPT ![o] = Missing]
    /\ UNCHANGED <<memory, copying>>

Abandon(o) ==
    /\ copying' = [copying EXCEPT ![o] = Missing]
    /\ copy' = [copy EXCEPT ![o] = Missing]
    /\ UNCHANGED <<memory, durable>>

\* The process ends, in the middle of saving or not.
Close(o) ==
    /\ memory' = [memory EXCEPT ![o] = Closed]
    /\ copying' = [copying EXCEPT ![o] = Missing]
    /\ UNCHANGED <<copy, durable>>

Next ==
    \E o \in Owners :
        \/ Open(o) \/ Change(o) \/ Begin(o) \/ Copy(o)
        \/ Commit(o) \/ Abandon(o) \/ Close(o)

Spec == Init /\ [][Next]_vars

=============================================================================
