--------------------------- MODULE PackageManager ---------------------------
(***************************************************************************)
(* The UCM package manager (ara::ucm::PackageManager), the object behind   *)
(* the update service.  Each public method is one action: the UCM process  *)
(* is a single poll loop, so a method runs to its end before the next one  *)
(* starts.                                                                 *)
(*                                                                         *)
(* Data.  A software package is identified by its name; its tar.gz is a    *)
(* sequence of chunks, and chunk i of package p (the pair <<p, i>>) holds  *)
(* the archive members that end in it.  Sizes count chunks.  A member of   *)
(* the staging directory is known by the package it came from.  Version    *)
(* strings are left out: the registry is the set of names it lists.        *)
(***************************************************************************)
EXTENDS Naturals, Sequences, FiniteSets

CONSTANTS
    Packages,      \* package names, PackageInfoType::name
    Binaries,      \* file names under bin/
    Processes,     \* SHORT-NAMEs of the process entries
    Archive,       \* [Packages -> Seq(SUBSET Paths)]: the members of each chunk
    BinaryName,    \* binary_name in the metadata of each package
    ProcessName,   \* SHORT-NAME in the process entry of each package
    Shared,        \* the names that are also paths of existing files (phase 1)
    Sizes,         \* the sizes a client may declare for each package
    Openings,      \* outcomes of opening the file storage and the registry
    MaxTransfers,  \* bound on the transfer ids handed out in one UCM life
    MaxBlocks,     \* bound on the blocks accumulated for one transfer
    None,          \* nothing: no file, no path, an empty name
    Torn           \* a member whose extraction was cut short

Paths == {"metadata.json", "process_entry.xml"} \cup Binaries

\* Where a staged package file can be: in the FileStorage, or on a file system
\* shared with the client.
PackagePath == [in : {"storage", "shared"}, name : Packages]

ASSUME PackageAssumption ==
    /\ Archive \in [Packages -> Seq(SUBSET Paths) \ {<< >>}]
    /\ BinaryName \in [Packages -> Binaries \cup {None}]
    /\ ProcessName \in [Packages -> Processes]
    /\ Shared \subseteq Packages
    /\ None \notin Packages \cup Binaries \cup PackagePath \cup {Torn}
    /\ Torn \notin Packages
    /\ {"metadata.json", "process_entry.xml"} \cap Binaries = {}

ASSUME BoundAssumption ==
    /\ Sizes \in [Packages -> SUBSET Nat]
    /\ Openings \subseteq BOOLEAN \X BOOLEAN
    /\ MaxTransfers \in Nat
    /\ MaxBlocks \in Nat

VARIABLES
    mStorage,            \* the FileStorage could be opened
    mRegistry,           \* the registry's KeyValueStorage could be opened
    mState,
    mNextId,
    mPendingTransfers,   \* transfer id -> [name, size]
    mAccumulatedData,    \* transfer id -> blocks received
    mStagedPackagePath,
    mStagedBinaryName,
    registry,            \* the KeyValueStorage in memory: names registered
    (* what survives a restart *)
    files,               \* FileStorage: name -> content, <<>> when absent
    staging,             \* <root>/staging: path -> package it came from
    installed,           \* <installRoot>: binary -> package it came from
    manifest,            \* the execution manifest EM reads at its start
    registryFile         \* ucm_registry.json

handles == <<mStorage, mRegistry>>
session == <<mPendingTransfers, mAccumulatedData, mNextId>>
staged == <<mStagedPackagePath, mStagedBinaryName>>
target == <<installed, manifest, registry, registryFile>>
vars == <<handles, mState, session, staged, files, staging, target>>

-----------------------------------------------------------------------------
(* Values *)

UpdateStateType == {"kIdle", "kTransferring", "kProcessing", "kActivating", "kActivated"}

UcmErrc == {"kInvalidTransferId", "kOperationInProgress", "kInsufficientSpace",
            "kPackageMalformed", "kTransferNotComplete", "kActivationFailed"}

PackageInfoType == UNION {[name : {p}, size : Sizes[p]] : p \in Packages}

TransferIds == 1..MaxTransfers

Blocks == UNION {{p} \X DOMAIN Archive[p] : p \in Packages}

\* The chunks of package p in the order its archive has them.
Chunks(p) == [i \in DOMAIN Archive[p] |-> <<p, i>>]

\* What tar finds at a path of the staged package.
FileAt(path) == IF path.in = "shared" THEN Chunks(path.name) ELSE files[path.name]

\* The first n chunks of file f are those of package p.
AgreesWith(f, p, n) ==
    /\ n <= Len(f) /\ n <= Len(Archive[p])
    /\ \A i \in 1..n : f[i] = <<p, i>>

\* The staging directory after the members of chunks 1..n of p were extracted
\* over what was there, and the members in cut were only partly written.
Extracted(p, n, cut) ==
    [x \in Paths |-> IF x \in cut THEN Torn
                     ELSE IF \E i \in 1..n : x \in Archive[p][i] THEN p
                     ELSE staging[x]]

Known(id) == id \in DOMAIN mPendingTransfers

\* What a call returns: every method is an action with its result r as a
\* parameter.
Results == UcmErrc \cup {"ok"}

-----------------------------------------------------------------------------
(* The constructor opens the storage and the registry; either may fail, and *)
(* the manager then works without it.                                       *)

\* Mutant: the registry starts empty instead of from its file.
OpenStoragesNoLoad ==
    /\ \E o \in Openings : mStorage' = o[1] /\ mRegistry' = o[2]
    /\ registry' = {}

OpenStorages ==
    /\ \E o \in Openings : mStorage' = o[1] /\ mRegistry' = o[2]
    /\ registry' = IF mRegistry' THEN registryFile ELSE {}

NothingStaged == [x \in Paths |-> None]

Init ==
    /\ \E o \in Openings : mStorage = o[1] /\ mRegistry = o[2]
    /\ mState = "kIdle"
    /\ mNextId = 1
    /\ mPendingTransfers = << >>
    /\ mAccumulatedData = << >>
    /\ mStagedPackagePath = None
    /\ mStagedBinaryName = None
    /\ registry = {}
    /\ files = [p \in Packages |-> << >>]
    /\ staging = NothingStaged
    /\ installed = [b \in Binaries |-> None]
    /\ manifest = [readable |-> TRUE, processes |-> << >>]
    /\ registryFile = {}

\* Mutant: the state is left as it is.
ResetKeepsState ==
    /\ mPendingTransfers' = << >> /\ mAccumulatedData' = << >>
    /\ mStagedPackagePath' = None /\ mStagedBinaryName' = None
    /\ UNCHANGED <<mState, mNextId>>

\* Reset: back to kIdle with every transfer forgotten; mNextId is kept.
Reset ==
    /\ mState' = "kIdle"
    /\ mPendingTransfers' = << >>
    /\ mAccumulatedData' = << >>
    /\ mStagedPackagePath' = None
    /\ mStagedBinaryName' = None
    /\ UNCHANGED mNextId

-----------------------------------------------------------------------------
(* The calls of a client *)

Extend(f, id, v) == [x \in DOMAIN f \cup {id} |-> IF x = id THEN v ELSE f[x]]

TransferStart(info, r) ==
    /\ \/ /\ r = "kOperationInProgress"
          /\ mState # "kIdle"
          /\ UNCHANGED <<mState, session>>
       \/ /\ r = "ok"
          /\ mState = "kIdle"
          /\ mNextId' = mNextId + 1
          /\ mPendingTransfers' = Extend(mPendingTransfers, mNextId, info)
          /\ mAccumulatedData' = Extend(mAccumulatedData, mNextId, << >>)
          /\ mState' = "kTransferring"
    /\ UNCHANGED <<handles, staged, files, staging, target>>

\* The block counter is a parameter the method does not look at.
TransferData(id, block, r) ==
    /\ \/ /\ r = "kInvalidTransferId"
          /\ ~Known(id)
          /\ UNCHANGED mAccumulatedData
       \/ /\ r = "ok"
          /\ Known(id)
          /\ mAccumulatedData' = [mAccumulatedData EXCEPT ![id] = Append(@, block)]
    /\ UNCHANGED <<handles, mState, mNextId, mPendingTransfers, staged, files, staging, target>>

\* Mutant: a transfer that is too long passes.
TransferCompleteAtLeast(id) == Len(mAccumulatedData[id]) >= mPendingTransfers[id].size

\* Every byte the client declared has arrived.
TransferComplete(id) == Len(mAccumulatedData[id]) = mPendingTransfers[id].size

\* FileStorage::WriteFile replaces the file in one rename ...
WriteFile(name, data) == [files EXCEPT ![name] = data]

\* ... or fails, and leaves it alone.
TransferExit(id, r) ==
    LET info == mPendingTransfers[id] IN
    /\ \/ /\ r = "kInvalidTransferId"
          /\ ~Known(id)
          /\ UNCHANGED <<files, mStagedPackagePath>>
       \/ /\ r = "kTransferNotComplete"
          /\ Known(id) /\ info.size = 0 /\ info.name \notin Shared
          /\ UNCHANGED <<files, mStagedPackagePath>>
       \/ /\ r = "ok"
          /\ Known(id) /\ info.size = 0 /\ info.name \in Shared
          /\ mStagedPackagePath' = [in |-> "shared", name |-> info.name]
          /\ UNCHANGED files
       \/ /\ r = "kTransferNotComplete"
          /\ Known(id) /\ info.size # 0 /\ ~TransferComplete(id)
          /\ UNCHANGED <<files, mStagedPackagePath>>
       \/ /\ r = "kInsufficientSpace"
          /\ Known(id) /\ info.size # 0 /\ TransferComplete(id) /\ mStorage
          /\ UNCHANGED <<files, mStagedPackagePath>>
       \/ /\ r = "ok"
          /\ Known(id) /\ info.size # 0 /\ TransferComplete(id)
          /\ files' = IF mStorage THEN WriteFile(info.name, mAccumulatedData[id]) ELSE files
          /\ mStagedPackagePath' = [in |-> "storage", name |-> info.name]
    /\ UNCHANGED <<handles, mState, session, mStagedBinaryName, staging, target>>

\* tar stopped with an error after extracting some of the archive, if any.
ExtractionFails(r) ==
    /\ r = "kPackageMalformed"
    /\ \/ UNCHANGED staging
       \/ \E p \in Packages : \E n \in 0..Len(Archive[p]) :
            /\ AgreesWith(FileAt(mStagedPackagePath), p, n)
            /\ \/ staging' = Extracted(p, n, {})
               \/ /\ n < Len(Archive[p])
                  /\ \E x \in Archive[p][n + 1] : staging' = Extracted(p, n, {x})
    /\ mState' = "kIdle"
    /\ UNCHANGED mStagedBinaryName

\* tar extracted the whole archive over the staging directory; the metadata
\* read back is whatever the directory now holds.
ExtractionDone(r) ==
    \E p \in Packages :
        /\ FileAt(mStagedPackagePath) = Chunks(p)
        /\ staging' = Extracted(p, Len(Archive[p]), {})
        /\ LET meta == staging'["metadata.json"] IN
           \/ /\ r = "kPackageMalformed"
              /\ meta \notin Packages
              /\ mState' = "kIdle"
              /\ UNCHANGED mStagedBinaryName
           \/ /\ meta \in Packages
              /\ mStagedBinaryName' = BinaryName[meta]
              /\ IF BinaryName[meta] = None
                 THEN mState' = "kIdle" /\ r = "kPackageMalformed"
                 ELSE mState' = "kProcessing" /\ r = "ok"

\* The id only has to be known: the package processed is the one staged last.
ProcessSwPackage(id, r) ==
    /\ \/ /\ r = "kInvalidTransferId"
          /\ ~Known(id)
          /\ UNCHANGED <<mState, mStagedBinaryName, staging>>
       \/ /\ r = "kPackageMalformed"
          /\ Known(id) /\ mStagedPackagePath = None
          /\ UNCHANGED <<mState, mStagedBinaryName, staging>>
       \/ /\ Known(id) /\ mStagedPackagePath # None
          /\ ExtractionFails(r) \/ ExtractionDone(r)
    /\ UNCHANGED <<handles, session, mStagedPackagePath, files, target>>

(* Activate, by how far it gets.  The state is kActivating only inside the  *)
(* method.                                                                  *)

ActivationAborts(r) ==
    /\ r = "kActivationFailed"
    /\ mState' = "kIdle"

\* Mutant: the temporary file is never renamed.
InstallBinaryNoRename == staging[mStagedBinaryName] # None /\ UNCHANGED installed

\* Step 1: the binary replaces its predecessor in one rename.
InstallBinary ==
    /\ staging[mStagedBinaryName] # None
    /\ installed' = [installed EXCEPT ![mStagedBinaryName] = staging[mStagedBinaryName]]

ProcessEntry == ProcessName[staging["process_entry.xml"]]

\* The entry is appended unless a process of that SHORT-NAME is listed.
InjectProcess(processes) ==
    IF \E i \in DOMAIN processes : processes[i] = ProcessEntry
    THEN processes
    ELSE Append(processes, ProcessEntry)

\* Step 3 has what it needs: a parsable entry and a parsable manifest.
ManifestLoads == staging["process_entry.xml"] \in Packages /\ manifest.readable

\* Step 4 records the pending transfer with the lowest id.  The registry is
\* then written to its file in one rename; a failure to do so is ignored.
IsFirstPending(id) == \A other \in DOMAIN mPendingTransfers : id <= other

RecordInRegistry ==
    IF mRegistry /\ DOMAIN mPendingTransfers # {}
    THEN \E id \in DOMAIN mPendingTransfers :
            /\ IsFirstPending(id)
            /\ registry' = registry \cup {mPendingTransfers[id].name}
            /\ registryFile' \in {registryFile, registry'}
    ELSE UNCHANGED <<registry, registryFile>>

Activate(r) ==
    /\ \/ /\ r = "kActivationFailed"
          /\ mStagedBinaryName = None
          /\ UNCHANGED <<mState, target>>
       \/ /\ ActivationAborts(r)                  \* open, copy or rename failed
          /\ mStagedBinaryName # None
          /\ UNCHANGED target
       \/ /\ ActivationAborts(r)                  \* an XML document did not load
          /\ mStagedBinaryName # None
          /\ InstallBinary
          /\ ~ManifestLoads
          /\ UNCHANGED <<manifest, registry, registryFile>>
       \/ /\ ActivationAborts(r)                  \* save_file failed half-way or at once
          /\ mStagedBinaryName # None
          /\ InstallBinary
          /\ ManifestLoads
          /\ manifest' \in {manifest, [readable |-> FALSE, processes |-> << >>]}
          /\ UNCHANGED <<registry, registryFile>>
       \/ /\ r = "ok"
          /\ mStagedBinaryName # None
          /\ InstallBinary
          /\ ManifestLoads
          /\ manifest' = [manifest EXCEPT !.processes = InjectProcess(@)]
          /\ RecordInRegistry
          /\ mState' = "kActivated"
    /\ UNCHANGED <<handles, session, staged, files, staging>>

-----------------------------------------------------------------------------
(* The skeleton's disconnect handler: a session that ended while an update *)
(* was under way is dropped.                                               *)

\* Mutant: only a client in the middle of its transfer is noticed.
onClientDisconnectedTransferring ==
    /\ IF mState = "kTransferring"
       THEN Reset
       ELSE UNCHANGED <<mState, session, staged>>
    /\ UNCHANGED <<handles, files, staging, target>>

onClientDisconnected ==
    /\ IF mState \notin {"kIdle", "kActivated"}
       THEN Reset
       ELSE UNCHANGED <<mState, session, staged>>
    /\ UNCHANGED <<handles, files, staging, target>>

(* The UCM process ends and is started again.  A crash inside a method      *)
(* leaves on disk a prefix of that method's effects, and every such prefix  *)
(* is also what one of the method's failures leaves (for Activate after the *)
(* manifest was saved: the ignored failure of SyncToStorage).               *)
Restart ==
    /\ OpenStorages
    /\ mState' = "kIdle"
    /\ mNextId' = 1
    /\ mPendingTransfers' = << >>
    /\ mAccumulatedData' = << >>
    /\ mStagedPackagePath' = None
    /\ mStagedBinaryName' = None
    /\ UNCHANGED <<files, staging, installed, manifest, registryFile>>

-----------------------------------------------------------------------------

Calls(r) ==
    \/ \E info \in PackageInfoType : mNextId <= MaxTransfers /\ TransferStart(info, r)
    \/ \E id \in TransferIds, b \in Blocks :
          /\ Known(id) => /\ Len(mAccumulatedData[id]) < MaxBlocks
                          /\ b[1] = mPendingTransfers[id].name
          /\ TransferData(id, b, r)
    \/ \E id \in TransferIds : TransferExit(id, r)
    \/ \E id \in TransferIds : ProcessSwPackage(id, r)
    \/ Activate(r)

Next ==
    \/ \E r \in Results : Calls(r)
    \/ onClientDisconnected
    \/ Restart

Spec == Init /\ [][Next]_vars

-----------------------------------------------------------------------------
(* Properties *)

\* Every variable holds a value the code can give it; in particular a
\* transfer has accumulated data exactly when it is pending.
TypeOK ==
    /\ mStorage \in BOOLEAN
    /\ mRegistry \in BOOLEAN
    /\ mState \in UpdateStateType
    /\ mNextId \in 1..(MaxTransfers + 1)
    /\ DOMAIN mPendingTransfers \subseteq TransferIds
    /\ mPendingTransfers \in [DOMAIN mPendingTransfers -> PackageInfoType]
    /\ mAccumulatedData \in [DOMAIN mPendingTransfers -> Seq(Blocks)]
    /\ mStagedPackagePath \in PackagePath \cup {None}
    /\ mStagedBinaryName \in Binaries \cup {None}
    /\ registry \subseteq Packages
    /\ files \in [Packages -> Seq(Blocks)]
    /\ staging \in [Paths -> Packages \cup {None, Torn}]
    /\ installed \in [Binaries -> Packages \cup {None, Torn}]
    /\ manifest \in [readable : BOOLEAN, processes : Seq(Processes)]
    /\ registryFile \subseteq Packages

\* While an update is under way TransferStart refuses every client, so the
\* session that put the manager in that state must still be known: otherwise
\* no call could bring it forward.  That session is the newest one: older ones
\* may linger beside it but never outlive it, and no pending session has an id
\* that is still to be handed out.
ActiveSessionKnown ==
    /\ (mState # "kIdle" \/ DOMAIN mPendingTransfers # {}) => Known(mNextId - 1)
    /\ \A id \in DOMAIN mPendingTransfers : id < mNextId

\* A staged binary name, which is all Activate asks for, always comes with the
\* staged package and with a pending transfer, so that an activation is never
\* left out of the registry by the test for an empty mPendingTransfers.
StagedBinaryHasSession ==
    mStagedBinaryName # None => mStagedPackagePath # None /\ DOMAIN mPendingTransfers # {}

\* The package file that ProcessSwPackage would extract is as long as one of
\* the pending transfers of that name declared, however uploads of the same
\* name, failed writes and disconnections follow each other.
StagedFileComplete ==
    (mStorage /\ mStagedPackagePath # None /\ mStagedPackagePath.in = "storage") =>
        \E id \in DOMAIN mPendingTransfers :
            /\ mPendingTransfers[id].name = mStagedPackagePath.name
            /\ mPendingTransfers[id].size = Len(files[mStagedPackagePath.name])

\* In kActivated the target machine really has the update: the binary in the
\* staging directory is the one installed, and the manifest the Execution
\* Management will read is whole and lists the staged process.
ActivatedIsInstalled ==
    mState = "kActivated" =>
        /\ mStagedBinaryName # None
        /\ installed[mStagedBinaryName] = staging[mStagedBinaryName]
        /\ installed[mStagedBinaryName] # None
        /\ manifest.readable
        /\ \E i \in DOMAIN manifest.processes : manifest.processes[i] = ProcessEntry

\* However often packages are activated, the manifest lists a process once.
NoDuplicateProcess ==
    \A i, j \in DOMAIN manifest.processes :
        manifest.processes[i] = manifest.processes[j] => i = j

\* The registry file is never ahead of the registry in memory, so writing it
\* after a write that failed loses no installed cluster.
RegistryFileBehind == mRegistry => registryFile \subseteq registry

\* A session belongs to one upload: while it is pending its declaration does
\* not change and its data is only appended to, so two uploads never share an
\* id.
SessionsAreStable ==
    [][\A id \in DOMAIN mPendingTransfers \cap DOMAIN mPendingTransfers' :
          /\ mPendingTransfers'[id] = mPendingTransfers[id]
          /\ Len(mAccumulatedData[id]) <= Len(mAccumulatedData'[id])
          /\ \A i \in DOMAIN mAccumulatedData[id] :
                mAccumulatedData'[id][i] = mAccumulatedData[id][i]]_vars

\* No cluster is ever forgotten by the registry file, whatever fails.
RegistryFileGrows == [][registryFile \subseteq registryFile']_vars

=============================================================================
