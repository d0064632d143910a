------------------------------ MODULE UcmProofs ------------------------------
(***************************************************************************)
(* Theorems about PackageManager and UpdateCampaign for all packages,      *)
(* archives, frame lengths and bounds.                                     *)
(***************************************************************************)
EXTENDS UpdateCampaign, TLAPS

-----------------------------------------------------------------------------
(* Helpers *)

\* A map with one entry added (what mPendingTransfers[_id] = info does) has
\* the new value at the new id and the old values elsewhere.
LEMMA ExtendMap ==
    ASSUME NEW f, NEW id, NEW v, NEW S, v \in S, f \in [DOMAIN f -> S]
    PROVE  /\ DOMAIN Extend(f, id, v) = DOMAIN f \cup {id}
           /\ Extend(f, id, v) \in [DOMAIN f \cup {id} -> S]
           /\ Extend(f, id, v)[id] = v
           /\ \A x \in DOMAIN f \ {id} : Extend(f, id, v)[x] = f[x]
  BY DEF Extend

\* Extracting an archive leaves the staging directory well formed.
LEMMA ExtractedType ==
    ASSUME TypeOK, NEW p \in Packages, NEW n, NEW cut
    PROVE  Extracted(p, n, cut) \in [Paths -> Packages \cup {None, Torn}]
  BY DEF TypeOK, Extracted

\* A manifest in which a process was injected is still a list of processes.
LEMMA InjectType ==
    ASSUME TypeOK, ManifestLoads
    PROVE  InjectProcess(manifest.processes) \in Seq(Processes)
  <1>1. ProcessEntry \in Processes
    BY PackageAssumption DEF ManifestLoads, ProcessEntry
  <1>2. manifest.processes \in Seq(Processes)
    BY DEF TypeOK
  <1> QED
    BY <1>1, <1>2 DEF InjectProcess

-----------------------------------------------------------------------------
(* Type correctness *)

\* The initial state is well typed.
LEMMA TypeInit == Init => TypeOK
  <1> SUFFICES ASSUME Init PROVE TypeOK
    OBVIOUS
  <1>1. mStorage \in BOOLEAN /\ mRegistry \in BOOLEAN
    BY BoundAssumption DEF Init
  <1>2. /\ DOMAIN mPendingTransfers = {}
        /\ mPendingTransfers \in [DOMAIN mPendingTransfers -> PackageInfoType]
        /\ mAccumulatedData \in [DOMAIN mPendingTransfers -> Seq(Blocks)]
    BY DEF Init
  <1>3. mNextId \in 1..(MaxTransfers + 1)
    BY BoundAssumption DEF Init
  <1> QED
    BY <1>1, <1>2, <1>3 DEF Init, TypeOK, UpdateStateType, NothingStaged

\* Each call of a client preserves the types.
LEMMA TypeTransferStart ==
    ASSUME TypeOK, NEW info \in PackageInfoType, NEW r, mNextId <= MaxTransfers,
           TransferStart(info, r)
    PROVE  TypeOK'
  <1>1. CASE mState # "kIdle"
    BY <1>1 DEF TypeOK, TransferStart, handles, session, staged, target
  <1>2. CASE mState = "kIdle"
    <2>1. /\ mNextId \in TransferIds
          /\ mNextId' \in 1..(MaxTransfers + 1)
      BY <1>2, BoundAssumption DEF TypeOK, TransferStart, TransferIds
    <2>2. /\ mPendingTransfers' = Extend(mPendingTransfers, mNextId, info)
          /\ mAccumulatedData' = Extend(mAccumulatedData, mNextId, << >>)
          /\ mState' = "kTransferring"
          /\ UNCHANGED <<handles, staged, files, staging, target>>
      BY <1>2 DEF TransferStart
    <2>3. /\ DOMAIN mPendingTransfers' = DOMAIN mPendingTransfers \cup {mNextId}
          /\ mPendingTransfers' \in [DOMAIN mPendingTransfers' -> PackageInfoType]
      <3>1. mPendingTransfers \in [DOMAIN mPendingTransfers -> PackageInfoType]
        BY DEF TypeOK
      <3>2. /\ DOMAIN Extend(mPendingTransfers, mNextId, info) = DOMAIN mPendingTransfers \cup {mNextId}
            /\ Extend(mPendingTransfers, mNextId, info)
                 \in [DOMAIN mPendingTransfers \cup {mNextId} -> PackageInfoType]
        BY <3>1, ExtendMap
      <3> QED
        BY <2>2, <3>2
    <2>4. mAccumulatedData' \in [DOMAIN mPendingTransfers' -> Seq(Blocks)]
      <3>1. mAccumulatedData \in [DOMAIN mAccumulatedData -> Seq(Blocks)]
        BY DEF TypeOK
      <3>2. << >> \in Seq(Blocks)
        OBVIOUS
      <3>3. DOMAIN mAccumulatedData = DOMAIN mPendingTransfers
        BY DEF TypeOK
      <3>4. Extend(mAccumulatedData, mNextId, << >>)
              \in [DOMAIN mAccumulatedData \cup {mNextId} -> Seq(Blocks)]
        BY <3>1, <3>2, ExtendMap
      <3> QED
        BY <2>2, <2>3, <3>3, <3>4
    <2> QED
      BY <2>1, <2>2, <2>3, <2>4
      DEF TypeOK, UpdateStateType, handles, staged, target
  <1> QED
    BY <1>1, <1>2

\* Appending a block (TransferData) keeps the types.
LEMMA TypeTransferData ==
    ASSUME TypeOK, NEW id \in TransferIds, NEW b \in Blocks, NEW r,
           TransferData(id, b, r)
    PROVE  TypeOK'
  <1>1. mAccumulatedData' \in [DOMAIN mPendingTransfers -> Seq(Blocks)]
    <2>1. CASE UNCHANGED mAccumulatedData
      BY <2>1 DEF TypeOK
    <2>2. CASE /\ Known(id)
               /\ mAccumulatedData' = [mAccumulatedData EXCEPT ![id] = Append(@, b)]
      <3>1. Append(mAccumulatedData[id], b) \in Seq(Blocks)
        BY <2>2 DEF TypeOK, Known
      <3> QED
        BY <2>2, <3>1 DEF TypeOK
    <2> QED
      BY <2>1, <2>2 DEF TransferData
  <1> QED
    BY <1>1 DEF TypeOK, TransferData, handles, session, staged, target

\* Storing the package (TransferExit) keeps the types, whichever check fails.
LEMMA TypeTransferExit ==
    ASSUME TypeOK, NEW id \in TransferIds, NEW r, TransferExit(id, r)
    PROVE  TypeOK'
  <1>1. ASSUME Known(id)
        PROVE  /\ mPendingTransfers[id].name \in Packages
               /\ mAccumulatedData[id] \in Seq(Blocks)
    <2>1. mPendingTransfers[id] \in PackageInfoType
      BY <1>1 DEF TypeOK, Known
    <2> QED
      BY <1>1, <2>1 DEF TypeOK, Known, PackageInfoType
  <1>2. /\ files' \in [Packages -> Seq(Blocks)]
        /\ mStagedPackagePath' \in PackagePath \cup {None}
    <2>1. CASE UNCHANGED files
      BY <1>1, <2>1 DEF TypeOK, TransferExit, WriteFile, PackagePath
    <2>2. CASE /\ Known(id)
               /\ files' = [files EXCEPT ![mPendingTransfers[id].name] = mAccumulatedData[id]]
               /\ mStagedPackagePath' = [in |-> "storage", name |-> mPendingTransfers[id].name]
      BY <1>1, <2>2 DEF TypeOK, PackagePath
    <2> QED
      BY <2>1, <2>2 DEF TransferExit, WriteFile
  <1> QED
    BY <1>2 DEF TypeOK, TransferExit, WriteFile, handles, session, staged, target

\* Unpacking (ProcessSwPackage) keeps the types, whether tar fails or not.
LEMMA TypeProcessSwPackage ==
    ASSUME TypeOK, NEW id \in TransferIds, NEW r, ProcessSwPackage(id, r)
    PROVE  TypeOK'
  <1>1. UNCHANGED <<handles, session, mStagedPackagePath, files, target>>
    BY DEF ProcessSwPackage
  <1>2. CASE UNCHANGED <<mState, mStagedBinaryName, staging>>
    BY <1>1, <1>2 DEF TypeOK, handles, session, target
  <1>3. CASE ExtractionFails(r)
    <2>1. staging' \in [Paths -> Packages \cup {None, Torn}]
      <3>1. CASE UNCHANGED staging
        BY <3>1 DEF TypeOK
      <3>2. CASE \E p \in Packages : \E n, cut : staging' = Extracted(p, n, cut)
        BY <3>2, ExtractedType
      <3> QED
        BY <1>3, <3>1, <3>2 DEF ExtractionFails
    <2> QED
      BY <1>1, <1>3, <2>1 DEF ExtractionFails, TypeOK, UpdateStateType, handles, session, target
  <1>4. CASE ExtractionDone(r)
    <2>1. PICK p \in Packages : staging' = Extracted(p, Len(Archive[p]), {})
      BY <1>4 DEF ExtractionDone
    <2>2. staging' \in [Paths -> Packages \cup {None, Torn}]
      BY <2>1, ExtractedType
    <2>3. mState' \in {"kIdle", "kProcessing"}
      BY <1>4 DEF ExtractionDone
    <2>4. mStagedBinaryName' \in Binaries \cup {None}
      BY <1>4, PackageAssumption DEF ExtractionDone, TypeOK
    <2> QED
      BY <1>1, <2>2, <2>3, <2>4 DEF TypeOK, UpdateStateType, handles, session, target
  <1> QED
    BY <1>2, <1>3, <1>4 DEF ProcessSwPackage

\* Activate keeps the types on each of its early returns.
LEMMA TypeActivate ==
    ASSUME TypeOK, NEW r, Activate(r)
    PROVE  TypeOK'
  <1>1. UNCHANGED <<handles, session, staged, files, staging>>
    BY DEF Activate
  <1>2. mState' \in UpdateStateType
    BY DEF Activate, ActivationAborts, UpdateStateType, TypeOK
  <1>3. installed' \in [Binaries -> Packages \cup {None, Torn}]
    BY DEF Activate, InstallBinary, TypeOK, target, Paths
  <1>4. manifest' \in [readable : BOOLEAN, processes : Seq(Processes)]
    <2>1. << >> \in Seq(Processes)
      OBVIOUS
    <2>2. CASE manifest' \in {manifest, [readable |-> FALSE, processes |-> << >>]}
      <3>1. CASE manifest' = manifest
        BY <3>1 DEF TypeOK
      <3>2. CASE manifest' = [readable |-> FALSE, processes |-> << >>]
        BY <2>1, <3>2
      <3> QED
        BY <2>2, <3>1, <3>2
    <2>3. CASE ManifestLoads /\ manifest' = [manifest EXCEPT !.processes = InjectProcess(@)]
      <3>1. InjectProcess(manifest.processes) \in Seq(Processes)
        BY <2>3, InjectType
      <3> QED
        BY <2>3, <3>1 DEF TypeOK
    <2> QED
      BY <2>2, <2>3 DEF Activate, target
  <1>5. registry' \subseteq Packages /\ registryFile' \subseteq Packages
    <2>1. CASE UNCHANGED <<registry, registryFile>>
      BY <2>1 DEF TypeOK
    <2>2. CASE RecordInRegistry /\ mRegistry /\ DOMAIN mPendingTransfers # {}
      <3>1. PICK id \in DOMAIN mPendingTransfers : registry' = registry \cup {mPendingTransfers[id].name}
        BY <2>2 DEF RecordInRegistry
      <3>2. mPendingTransfers[id].name \in Packages
        BY <3>1 DEF TypeOK, PackageInfoType
      <3> QED
        BY <2>2, <3>1, <3>2 DEF RecordInRegistry, TypeOK
    <2> QED
      BY <2>1, <2>2 DEF Activate, RecordInRegistry, target
  <1> QED
    BY <1>1, <1>2, <1>3, <1>4, <1>5 DEF TypeOK, handles, session, staged

\* The skeleton's disconnect handler keeps the types.
LEMMA TypeDisconnected ==
    ASSUME TypeOK, onClientDisconnected
    PROVE  TypeOK'
  <1>1. CASE Reset
    <2>1. /\ DOMAIN mPendingTransfers' = {}
          /\ mPendingTransfers' \in [DOMAIN mPendingTransfers' -> PackageInfoType]
          /\ mAccumulatedData' \in [DOMAIN mPendingTransfers' -> Seq(Blocks)]
      BY <1>1 DEF Reset
    <2> QED
      BY <1>1, <2>1 DEF TypeOK, onClientDisconnected, Reset, UpdateStateType, handles, target
  <1>2. CASE UNCHANGED <<mState, session, staged>>
    BY <1>2 DEF TypeOK, onClientDisconnected, handles, session, staged, target
  <1> QED
    BY <1>1, <1>2 DEF onClientDisconnected

\* Starting the process again, with the storages as they are on disk, keeps the types.
LEMMA TypeRestart ==
    ASSUME TypeOK, Restart
    PROVE  TypeOK'
  <1>1. /\ DOMAIN mPendingTransfers' = {}
        /\ mPendingTransfers' \in [DOMAIN mPendingTransfers' -> PackageInfoType]
        /\ mAccumulatedData' \in [DOMAIN mPendingTransfers' -> Seq(Blocks)]
    BY DEF Restart
  <1>2. mStorage' \in BOOLEAN /\ mRegistry' \in BOOLEAN
    BY BoundAssumption DEF Restart, OpenStorages
  <1>3. registry' \subseteq Packages
    BY DEF Restart, OpenStorages, TypeOK
  <1>4. mNextId' \in 1..(MaxTransfers + 1)
    BY BoundAssumption DEF Restart
  <1> QED
    BY <1>1, <1>2, <1>3, <1>4 DEF TypeOK, Restart, UpdateStateType

\* Every step of the package manager keeps the types.
LEMMA TypeNext == TypeOK /\ [Next]_vars => TypeOK'
  <1> SUFFICES ASSUME TypeOK, [Next]_vars PROVE TypeOK'
    OBVIOUS
  <1>1. CASE UNCHANGED vars
    BY <1>1 DEF TypeOK, vars, handles, session, staged, target
  <1>2. ASSUME NEW r \in Results, Calls(r) PROVE TypeOK'
    BY <1>2, TypeTransferStart, TypeTransferData, TypeTransferExit,
       TypeProcessSwPackage, TypeActivate DEF Calls
  <1> QED
    BY <1>1, <1>2, TypeDisconnected, TypeRestart DEF Next

\* Every state the package manager can reach is well typed: the two maps of a
\* transfer stay in step, and ids stay within the bound.
THEOREM TypeCorrect == Spec => []TypeOK
  BY TypeInit, TypeNext, PTL DEF Spec

-----------------------------------------------------------------------------
(* Safety.  None of the invariants is inductive without the types, and the  *)
(* file and binary invariants lean on ActiveSessionKnown: an id that is     *)
(* handed out must not be one that a staged file relies on.                 *)

SessionInv == ActiveSessionKnown /\ StagedBinaryHasSession /\ StagedFileComplete
TargetInv == ActivatedIsInstalled /\ NoDuplicateProcess /\ RegistryFileBehind

IInv == TypeOK /\ SessionInv /\ TargetInv

\* The first start of the package manager satisfies the safety invariants.
LEMMA SafetyInit == Init => SessionInv /\ TargetInv
  BY DEF Init, SessionInv, ActiveSessionKnown, StagedBinaryHasSession, StagedFileComplete,
         TargetInv, ActivatedIsInstalled, NoDuplicateProcess, RegistryFileBehind

\* TransferStart adds a session under a new id and disturbs no other.
LEMMA SessionTransferStart ==
    ASSUME IInv, NEW info \in PackageInfoType, NEW r, TransferStart(info, r)
    PROVE  SessionInv'
  <1>1. CASE mState # "kIdle"
    BY <1>1 DEF IInv, SessionInv, TransferStart, session, staged, handles,
        ActiveSessionKnown, StagedBinaryHasSession, StagedFileComplete, Known
  <1>2. CASE mState = "kIdle"
    <2>1. /\ mPendingTransfers' = Extend(mPendingTransfers, mNextId, info)
          /\ mNextId' = mNextId + 1
          /\ UNCHANGED <<handles, staged, files>>
      BY <1>2 DEF TransferStart
    <2>2. mPendingTransfers \in [DOMAIN mPendingTransfers -> PackageInfoType]
      BY DEF IInv, TypeOK
    <2>3. /\ DOMAIN mPendingTransfers' = DOMAIN mPendingTransfers \cup {mNextId}
          /\ \A id \in DOMAIN mPendingTransfers \ {mNextId} :
                 mPendingTransfers'[id] = mPendingTransfers[id]
      <3>1. /\ DOMAIN Extend(mPendingTransfers, mNextId, info) = DOMAIN mPendingTransfers \cup {mNextId}
            /\ \A id \in DOMAIN mPendingTransfers \ {mNextId} :
                 Extend(mPendingTransfers, mNextId, info)[id] = mPendingTransfers[id]
        BY DEF Extend
      <3> QED
        BY <2>1, <3>1
    <2>4. mNextId \in Nat /\ \A id \in DOMAIN mPendingTransfers : id \in Nat /\ id < mNextId
      BY BoundAssumption DEF IInv, TypeOK, SessionInv, ActiveSessionKnown, TransferIds
    <2>5. ActiveSessionKnown'
      BY <2>1, <2>3, <2>4 DEF ActiveSessionKnown, Known
    <2>6. StagedBinaryHasSession'
      BY <2>1, <2>3 DEF IInv, SessionInv, StagedBinaryHasSession, staged
    <2>7. StagedFileComplete'
      <3>1. \A id \in DOMAIN mPendingTransfers : id # mNextId
        BY <2>4
      <3> QED
        BY <2>1, <2>3, <3>1 DEF IInv, SessionInv, StagedFileComplete, staged, handles
    <2> QED
      BY <2>5, <2>6, <2>7 DEF SessionInv
  <1> QED
    BY <1>1, <1>2

\* TransferExit stages a file of the size its own session declared.
LEMMA SessionTransferExit ==
    ASSUME IInv, NEW id \in TransferIds, NEW r, TransferExit(id, r)
    PROVE  SessionInv'
  <1>1. UNCHANGED <<handles, mState, session, mStagedBinaryName>>
    BY DEF TransferExit, WriteFile
  <1>2. ActiveSessionKnown'
    BY <1>1 DEF IInv, SessionInv, ActiveSessionKnown, Known, session
  <1>3. mStagedPackagePath' = None => mStagedPackagePath = None
    <2>1. None \notin PackagePath
      BY PackageAssumption
    <2>2. Known(id) => mPendingTransfers[id].name \in Packages
      BY DEF IInv, TypeOK, Known, PackageInfoType
    <2>3. UNCHANGED mStagedPackagePath \/ mStagedPackagePath' \in PackagePath
      BY <2>2 DEF TransferExit, WriteFile, PackagePath
    <2> QED
      BY <2>1, <2>3
  <1>4. StagedBinaryHasSession'
    BY <1>1, <1>3 DEF IInv, SessionInv, StagedBinaryHasSession, session
  <1>5. StagedFileComplete'
    <2>1. CASE UNCHANGED <<files, mStagedPackagePath>>
      BY <1>1, <2>1 DEF IInv, SessionInv, StagedFileComplete, session, handles
    <2>2. CASE mStagedPackagePath'.in = "shared"
      BY <2>2 DEF StagedFileComplete
    <2>3. CASE /\ Known(id)
               /\ TransferComplete(id)
               /\ mStorage => files' = [files EXCEPT ![mPendingTransfers[id].name] = mAccumulatedData[id]]
               /\ mStagedPackagePath' = [in |-> "storage", name |-> mPendingTransfers[id].name]
      <3>1. mPendingTransfers[id].name \in Packages
        BY <2>3 DEF IInv, TypeOK, Known, PackageInfoType
      <3>2. mStorage => /\ files'[mPendingTransfers[id].name] = mAccumulatedData[id]
                        /\ mPendingTransfers[id].size = Len(mAccumulatedData[id])
        BY <2>3, <3>1 DEF IInv, TypeOK, TransferComplete
      <3>3. mStorage' = mStorage /\ mPendingTransfers' = mPendingTransfers
        BY <1>1 DEF handles, session
      <3> QED
        BY <2>3, <3>2, <3>3 DEF StagedFileComplete, Known
    <2> QED
      BY <2>1, <2>2, <2>3 DEF TransferExit, WriteFile
  <1> QED
    BY <1>2, <1>4, <1>5 DEF SessionInv

\* ProcessSwPackage names a staged binary only with a package staged and a
\* session pending, and leaves sessions and files alone.
LEMMA SessionProcessSwPackage ==
    ASSUME IInv, NEW id \in TransferIds, NEW r, ProcessSwPackage(id, r)
    PROVE  SessionInv'
  <1>1. UNCHANGED <<handles, session, mStagedPackagePath, files>>
    BY DEF ProcessSwPackage
  <1>2. \/ UNCHANGED <<mState, mStagedBinaryName>>
        \/ Known(id) /\ mStagedPackagePath # None
    BY DEF ProcessSwPackage
  <1>3. ActiveSessionKnown'
    BY <1>1, <1>2 DEF IInv, SessionInv, ActiveSessionKnown, Known, session
  <1>4. StagedBinaryHasSession'
    BY <1>1, <1>2 DEF IInv, SessionInv, StagedBinaryHasSession, Known, session
  <1>5. StagedFileComplete'
    BY <1>1 DEF IInv, SessionInv, StagedFileComplete, session, handles
  <1> QED
    BY <1>3, <1>4, <1>5 DEF SessionInv

\* Activate runs only with a staged binary, hence with a pending session.
LEMMA SessionActivate ==
    ASSUME IInv, NEW r, Activate(r)
    PROVE  SessionInv'
  <1>1. UNCHANGED <<handles, session, staged, files>>
    BY DEF Activate
  <1>2. ActiveSessionKnown'
    <2>1. mState' # "kIdle" => mState # "kIdle" \/ mStagedBinaryName # None
      BY DEF Activate, ActivationAborts
    <2> QED
      BY <1>1, <2>1 DEF IInv, SessionInv, ActiveSessionKnown, StagedBinaryHasSession, Known, session
  <1>3. StagedBinaryHasSession'
    BY <1>1 DEF IInv, SessionInv, StagedBinaryHasSession, session, staged
  <1>4. StagedFileComplete'
    BY <1>1 DEF IInv, SessionInv, StagedFileComplete, session, staged, handles
  <1> QED
    BY <1>2, <1>3, <1>4 DEF SessionInv

\* Dropping every session also drops the staged path and the staged name.
LEMMA SessionForgotten ==
    ASSUME mState' = "kIdle", mPendingTransfers' = << >>,
           mStagedPackagePath' = None, mStagedBinaryName' = None
    PROVE  SessionInv'
  BY DEF SessionInv, ActiveSessionKnown, StagedBinaryHasSession, StagedFileComplete

\* Every step keeps the sessions, the staged names and the stored file consistent.
LEMMA SessionNext == IInv /\ [Next]_vars => SessionInv'
  <1> SUFFICES ASSUME IInv, [Next]_vars PROVE SessionInv'
    OBVIOUS
  <1>1. ASSUME UNCHANGED <<handles, mState, mPendingTransfers, mNextId, staged, files>>
        PROVE  SessionInv'
    BY <1>1 DEF IInv, SessionInv, ActiveSessionKnown, StagedBinaryHasSession,
                StagedFileComplete, Known, handles, staged
  <1>2. CASE UNCHANGED vars
    BY <1>1, <1>2 DEF vars, session
  <1>3. ASSUME NEW r \in Results, Calls(r) PROVE SessionInv'
    <2>1. ASSUME NEW id, NEW b, TransferData(id, b, r) PROVE SessionInv'
      BY <1>1, <2>1 DEF TransferData
    <2> QED
      BY <1>3, <2>1, SessionTransferStart, SessionTransferExit, SessionProcessSwPackage,
         SessionActivate DEF Calls
  <1>4. CASE onClientDisconnected
    <2>1. CASE Reset
      BY <2>1, SessionForgotten DEF Reset
    <2>2. CASE UNCHANGED <<mState, session, staged>>
      BY <1>1, <1>4, <2>2 DEF onClientDisconnected, session
    <2> QED
      BY <1>4, <2>1, <2>2 DEF onClientDisconnected
  <1>5. CASE Restart
    BY <1>5, SessionForgotten DEF Restart
  <1> QED
    BY <1>2, <1>3, <1>4, <1>5 DEF Next

\* Activate is the only call that touches the target machine.
LEMMA TargetActivate ==
    ASSUME IInv, NEW r, Activate(r)
    PROVE  TargetInv'
  <1>1. UNCHANGED <<handles, staged, staging>>
    BY DEF Activate
  <1>2. CASE UNCHANGED <<mState, target>>
    BY <1>1, <1>2 DEF IInv, TargetInv, ActivatedIsInstalled, NoDuplicateProcess,
                      RegistryFileBehind, ProcessEntry, handles, staged, target
  <1>3. CASE /\ mState' = "kIdle"
             /\ manifest' \in {manifest, [readable |-> FALSE, processes |-> << >>]}
             /\ UNCHANGED <<registry, registryFile>>
    <2>1. NoDuplicateProcess'
      BY <1>3 DEF IInv, TargetInv, NoDuplicateProcess
    <2> QED
      BY <1>1, <1>3, <2>1 DEF IInv, TargetInv, ActivatedIsInstalled, RegistryFileBehind, handles
  <1>4. CASE /\ mStagedBinaryName # None
             /\ InstallBinary
             /\ ManifestLoads
             /\ manifest' = [manifest EXCEPT !.processes = InjectProcess(@)]
             /\ RecordInRegistry
    <2> DEFINE processes == manifest.processes
               injected == InjectProcess(manifest.processes)
    <2>1. /\ manifest'.readable
          /\ manifest'.processes = injected
      BY <1>4 DEF ManifestLoads, IInv, TypeOK
    <2>2. processes \in Seq(Processes) /\ ProcessEntry \in Processes
      BY <1>4, PackageAssumption DEF IInv, TypeOK, ManifestLoads, ProcessEntry
    <2>3. /\ \E i \in DOMAIN injected : injected[i] = ProcessEntry
          /\ \A i, j \in DOMAIN injected : injected[i] = injected[j] => i = j
      <3>1. \A i, j \in DOMAIN processes : processes[i] = processes[j] => i = j
        BY DEF IInv, TargetInv, NoDuplicateProcess
      <3>2. CASE \E i \in DOMAIN processes : processes[i] = ProcessEntry
        BY <3>1, <3>2 DEF InjectProcess
      <3>3. CASE ~\E i \in DOMAIN processes : processes[i] = ProcessEntry
        <4>1. injected = Append(processes, ProcessEntry)
          BY <3>3 DEF InjectProcess
        <4>2. /\ DOMAIN injected = 1..(Len(processes) + 1)
              /\ DOMAIN processes = 1..Len(processes)
              /\ Len(processes) \in Nat
              /\ injected[Len(processes) + 1] = ProcessEntry
              /\ \A i \in 1..Len(processes) : injected[i] = processes[i]
          BY <2>2, <4>1
        <4> HIDE DEF injected, processes
        <4>3. \E i \in DOMAIN injected : injected[i] = ProcessEntry
          BY <4>2
        <4>4. ASSUME NEW i \in DOMAIN injected, NEW j \in DOMAIN injected,
                     injected[i] = injected[j]
              PROVE  i = j
          <5>1. CASE i \in DOMAIN processes /\ j \in DOMAIN processes
            BY <3>1, <4>2, <4>4, <5>1
          <5>2. CASE i \in DOMAIN processes /\ j = Len(processes) + 1
            BY <3>3, <4>2, <4>4, <5>2
          <5>3. CASE i = Len(processes) + 1 /\ j \in DOMAIN processes
            BY <3>3, <4>2, <4>4, <5>3
          <5> QED
            BY <4>2, <4>4, <5>1, <5>2, <5>3
        <4> QED
          BY <4>3, <4>4
      <3> QED
        BY <3>2, <3>3
    <2>4. ProcessEntry' = ProcessEntry
      BY <1>1 DEF ProcessEntry
    <2>5. /\ installed'[mStagedBinaryName] = staging[mStagedBinaryName]
          /\ staging[mStagedBinaryName] # None
      BY <1>4 DEF InstallBinary, IInv, TypeOK
    <2>6. ActivatedIsInstalled'
      BY <1>1, <1>4, <2>1, <2>3, <2>4, <2>5 DEF ActivatedIsInstalled, staged
    <2>7. NoDuplicateProcess'
      BY <2>1, <2>3 DEF NoDuplicateProcess
    <2>8. RegistryFileBehind'
      BY <1>1, <1>4 DEF RecordInRegistry, RegistryFileBehind, IInv, TargetInv, handles
    <2> QED
      BY <2>6, <2>7, <2>8 DEF TargetInv
  <1> QED
    BY <1>2, <1>3, <1>4 DEF Activate, ActivationAborts, target

\* Any other step keeps the target as it is, and does not enter kActivated.
LEMMA TargetUntouched ==
    ASSUME IInv, UNCHANGED <<handles, target>>,
           mState' # "kActivated" \/ UNCHANGED <<mState, staged, staging>>
    PROVE  TargetInv'
  BY DEF IInv, TargetInv, ActivatedIsInstalled, NoDuplicateProcess, RegistryFileBehind,
         ProcessEntry, handles, staged, target

\* Every step keeps the target machine consistent with what is staged.
LEMMA TargetNext == IInv /\ [Next]_vars => TargetInv'
  <1> SUFFICES ASSUME IInv, [Next]_vars PROVE TargetInv'
    OBVIOUS
  <1>1. CASE UNCHANGED vars
    BY <1>1, TargetUntouched DEF vars
  <1>2. ASSUME NEW r \in Results, Calls(r) PROVE TargetInv'
    <2>1. ASSUME NEW info, TransferStart(info, r) PROVE TargetInv'
      BY <2>1, TargetUntouched DEF TransferStart
    <2>2. ASSUME NEW id, NEW b, TransferData(id, b, r) PROVE TargetInv'
      BY <2>2, TargetUntouched DEF TransferData
    <2>3. ASSUME NEW id, TransferExit(id, r) PROVE TargetInv'
      <3>1. /\ UNCHANGED <<handles, target, mState, mStagedBinaryName, staging>>
        BY <2>3 DEF TransferExit, WriteFile
      <3> QED
        BY <3>1 DEF IInv, TargetInv, ActivatedIsInstalled, NoDuplicateProcess, RegistryFileBehind,
                    ProcessEntry, handles, target
    <2>4. ASSUME NEW id, ProcessSwPackage(id, r) PROVE TargetInv'
      <3>1. mState' # "kActivated" \/ UNCHANGED <<mState, staged, staging>>
        BY <2>4 DEF ProcessSwPackage, ExtractionFails, ExtractionDone, staged
      <3> QED
        BY <2>4, <3>1, TargetUntouched DEF ProcessSwPackage
    <2> QED
      BY <1>2, <2>1, <2>2, <2>3, <2>4, TargetActivate DEF Calls
  <1>3. CASE onClientDisconnected
    BY <1>3, TargetUntouched DEF onClientDisconnected, Reset
  <1>4. CASE Restart
    <2>1. mState' = "kIdle" /\ UNCHANGED manifest
      BY <1>4 DEF Restart
    <2>2. RegistryFileBehind'
      BY <1>4 DEF Restart, OpenStorages, RegistryFileBehind
    <2> QED
      BY <2>1, <2>2 DEF IInv, TargetInv, ActivatedIsInstalled, NoDuplicateProcess
  <1> QED
    BY <1>1, <1>2, <1>3, <1>4 DEF Next

\* The inductive invariant holds in every behaviour of the package manager.
THEOREM Inductive == Spec => []IInv
  <1>1. Init => IInv
    BY TypeInit, SafetyInit DEF IInv
  <1>2. IInv /\ [Next]_vars => IInv'
    BY TypeNext, SessionNext, TargetNext DEF IInv
  <1> QED
    BY <1>1, <1>2, PTL DEF Spec

\* While TransferStart refuses clients, the session that is under way is known.
THEOREM SessionAlwaysKnown == Spec => []ActiveSessionKnown
  BY Inductive, PTL DEF IInv, SessionInv

\* Whatever Activate installs belongs to a pending session, so the registry
\* update is never skipped for want of one.
THEOREM BinaryAlwaysHasSession == Spec => []StagedBinaryHasSession
  BY Inductive, PTL DEF IInv, SessionInv

\* The file handed to tar has the length a session of its name declared.
THEOREM StagedFileAlwaysComplete == Spec => []StagedFileComplete
  BY Inductive, PTL DEF IInv, SessionInv

\* kActivated is reported only when binary and manifest are in place.
THEOREM ActivatedAlwaysInstalled == Spec => []ActivatedIsInstalled
  BY Inductive, PTL DEF IInv, TargetInv

\* Activation is idempotent on the manifest.
THEOREM ManifestNeverDuplicates == Spec => []NoDuplicateProcess
  BY Inductive, PTL DEF IInv, TargetInv

\* The registry file never gets ahead of the registry in memory.
THEOREM RegistryFileStaysBehind == Spec => []RegistryFileBehind
  BY Inductive, PTL DEF IInv, TargetInv

\* The registry file loses no name: not by a failed write, not by a restart.
THEOREM RegistryFileOnlyGrows == Spec => RegistryFileGrows
  <1>1. IInv /\ [Next]_vars => [registryFile \subseteq registryFile']_vars
    <2> SUFFICES ASSUME IInv, [Next]_vars PROVE registryFile \subseteq registryFile'
      OBVIOUS
    <2>1. ASSUME NEW r, Activate(r) PROVE registryFile \subseteq registryFile'
      <3>1. CASE RecordInRegistry
        BY <3>1 DEF RecordInRegistry, IInv, TargetInv, RegistryFileBehind
      <3> QED
        BY <2>1, <3>1 DEF Activate, target
    <2>2. CASE UNCHANGED registryFile
      BY <2>2
    <2> QED
      BY <2>1, <2>2 DEF Next, Calls, TransferStart, TransferData, TransferExit, WriteFile, ProcessSwPackage,
                        onClientDisconnected, Restart, vars, target
  <1> QED
    BY <1>1, Inductive, PTL DEF Spec, RegistryFileGrows

\* What SessionsAreStable allows in one step.
StableStep ==
    \A id \in DOMAIN mPendingTransfers \cap DOMAIN mPendingTransfers' :
        /\ mPendingTransfers'[id] = mPendingTransfers[id]
        /\ Len(mAccumulatedData[id]) <= Len(mAccumulatedData'[id])
        /\ \A i \in DOMAIN mAccumulatedData[id] :
              mAccumulatedData'[id][i] = mAccumulatedData[id][i]

\* No step changes the declaration of a pending transfer or shortens its data.
LEMMA StableNext == IInv /\ [Next]_vars => StableStep
  <1> SUFFICES ASSUME IInv, [Next]_vars PROVE StableStep
    OBVIOUS
  <1>1. \A id \in DOMAIN mPendingTransfers :
           /\ mAccumulatedData[id] \in Seq(Blocks)
           /\ Len(mAccumulatedData[id]) \in Nat
           /\ DOMAIN mAccumulatedData[id] = 1..Len(mAccumulatedData[id])
    <2>1. \A id \in DOMAIN mPendingTransfers : mAccumulatedData[id] \in Seq(Blocks)
      BY DEF IInv, TypeOK
    <2> QED
      BY <2>1
  <1>2. ASSUME UNCHANGED <<mPendingTransfers, mAccumulatedData>> PROVE StableStep
    BY <1>1, <1>2 DEF StableStep
  <1>3. ASSUME mPendingTransfers' = << >> PROVE StableStep
    BY <1>3 DEF StableStep
  <1>4. ASSUME NEW info, NEW r, TransferStart(info, r) PROVE StableStep
    <2>1. CASE mState # "kIdle"
      BY <1>2, <1>4, <2>1 DEF TransferStart, session
    <2>2. CASE mState = "kIdle"
      <3>1. /\ mPendingTransfers' = Extend(mPendingTransfers, mNextId, info)
            /\ mAccumulatedData' = Extend(mAccumulatedData, mNextId, << >>)
        BY <1>4, <2>2 DEF TransferStart
      <3>2. /\ mNextId \notin DOMAIN mPendingTransfers
            /\ DOMAIN mAccumulatedData = DOMAIN mPendingTransfers
        BY BoundAssumption DEF IInv, TypeOK, SessionInv, ActiveSessionKnown, TransferIds
      <3>3. \A id \in DOMAIN mPendingTransfers :
               /\ mPendingTransfers'[id] = mPendingTransfers[id]
               /\ mAccumulatedData'[id] = mAccumulatedData[id]
        BY <3>1, <3>2 DEF Extend
      <3> QED
        BY <1>1, <3>3 DEF StableStep
    <2> QED
      BY <2>1, <2>2
  <1>5. ASSUME NEW t, NEW b \in Blocks, NEW r, TransferData(t, b, r) PROVE StableStep
    <2>1. CASE UNCHANGED mAccumulatedData
      BY <1>2, <1>5, <2>1 DEF TransferData
    <2>2. CASE Known(t) /\ mAccumulatedData' = [mAccumulatedData EXCEPT ![t] = Append(@, b)]
      <3>1. mPendingTransfers' = mPendingTransfers
        BY <1>5 DEF TransferData
      <3>2. \A id \in DOMAIN mPendingTransfers :
               mAccumulatedData'[id] = IF id = t THEN Append(mAccumulatedData[id], b)
                                                ELSE mAccumulatedData[id]
        BY <2>2 DEF IInv, TypeOK
      <3>3. \A id \in DOMAIN mPendingTransfers :
               /\ Len(mAccumulatedData[id]) <= Len(mAccumulatedData'[id])
               /\ \A i \in DOMAIN mAccumulatedData[id] :
                     mAccumulatedData'[id][i] = mAccumulatedData[id][i]
        <4> SUFFICES ASSUME NEW id \in DOMAIN mPendingTransfers
                     PROVE  /\ Len(mAccumulatedData[id]) <= Len(mAccumulatedData'[id])
                            /\ \A i \in DOMAIN mAccumulatedData[id] :
                                  mAccumulatedData'[id][i] = mAccumulatedData[id][i]
          OBVIOUS
        <4>1. CASE id # t
          BY <1>1, <3>2, <4>1
        <4>2. CASE id = t
          <5> DEFINE s == mAccumulatedData[id]
          <5>1. s \in Seq(Blocks) /\ mAccumulatedData'[id] = Append(s, b)
            BY <1>1, <3>2, <4>2
          <5>2. /\ Len(Append(s, b)) = Len(s) + 1
                /\ Len(s) \in Nat
                /\ \A i \in 1..Len(s) : Append(s, b)[i] = s[i]
                /\ DOMAIN s = 1..Len(s)
            BY <5>1
          <5> QED
            BY <5>1, <5>2
        <4> QED
          BY <4>1, <4>2
      <3> QED
        BY <3>1, <3>3 DEF StableStep
    <2> QED
      BY <1>5, <2>1, <2>2 DEF TransferData
  <1>6. ASSUME NEW r \in Results, Calls(r) PROVE StableStep
    BY <1>2, <1>4, <1>5, <1>6 DEF Calls, TransferExit, WriteFile, ProcessSwPackage, Activate, session
  <1>7. CASE onClientDisconnected
    BY <1>2, <1>3, <1>7 DEF onClientDisconnected, Reset, session
  <1>8. CASE Restart
    BY <1>3, <1>8 DEF Restart
  <1> QED
    BY <1>2, <1>6, <1>7, <1>8 DEF Next, vars, session

\* No two uploads ever share a transfer id while one of them is pending.
THEOREM SessionsStayStable == Spec => SessionsAreStable
  <1>1. IInv /\ [Next]_vars => [StableStep]_vars
    BY StableNext
  <1> QED
    BY <1>1, Inductive, PTL DEF Spec, SessionsAreStable, StableStep

-----------------------------------------------------------------------------
(* UpdateCampaign: what is on its way, and what the handlers are given.     *)

Info == {[name |-> p, size |-> Len(Archive[p])] : p \in Packages}
Data == (Packages \cup {None}) \X Nat

HandledRequests ==
    [method : {"TransferStart"}, id : {None}, data : Info]
    \cup [method : {"TransferData"}, id : Nat, data : Data]
    \cup [method : {"TransferExit", "ProcessSwPackage", "Activate"}, id : Nat, data : {None}]

Methods == {"TransferStart", "TransferData", "TransferExit", "ProcessSwPackage", "Activate"}
ReplyType == [method : Methods, r : Results, id : Nat \cup {None}]

ClientUnits == [of : ClientRequests, unit : Nat]
UnitOK(u) == u.unit # 0 /\ (Units(u.of) = 1 => u.unit = 1)
UnitsOK(s) == s \in Seq(ClientUnits) /\ \A n \in 1 .. Len(s) : UnitOK(s[n])

\* What waits in the buffer is the beginning of a frame, or what never becomes one.
BufferOK(b) ==
    \/ UnitsOK(b) /\ ~FrameComplete(b)
    \/ b \in Seq(ClientUnits \cup {Junk}) /\ b # << >> /\ b[1] = Junk

\* Sequences are equal when their elements are.
LEMMA SameSequence ==
    ASSUME NEW S, NEW s \in Seq(S), NEW t \in Seq(S), Len(s) = Len(t),
           \A i \in 1 .. Len(s) : s[i] = t[i]
    PROVE  s = t
  OBVIOUS

\* A request has a method.
LEMMA RequestFields ==
    ASSUME NEW q \in ClientRequests
    PROVE  /\ q.method \in Methods
           /\ q \in HandledRequests
           /\ q.method = "TransferData" => [q EXCEPT !.data = <<None, 0>>] \in HandledRequests
           /\ [q EXCEPT !.data = <<None, 0>>].method = q.method
  <1>1. CASE q.method = "TransferStart"
    <2>1. PICK p \in Packages : q = Request("TransferStart", None, [name |-> p, size |-> Len(Archive[p])])
      BY <1>1 DEF ClientRequests
    <2> QED
      BY <2>1 DEF Request, HandledRequests, Info, Methods
  <1>2. CASE q \in [method : {"TransferData"}, id : Nat, data : Packages \X Nat]
    BY <1>2 DEF HandledRequests, Data, Methods
  <1>3. CASE q \in [method : {"TransferExit", "ProcessSwPackage", "Activate"}, id : Nat, data : {None}]
    BY <1>3 DEF HandledRequests, Data, Methods
  <1> QED
    BY <1>1, <1>2, <1>3 DEF ClientRequests, Request

\* The units of a frame are those of its request, and the first says so.
LEMMA FrameUnits ==
    ASSUME NEW q \in ClientRequests
    PROVE  /\ Units(q) \in Nat /\ Units(q) > 0
           /\ q.method # "TransferData" => Units(q) = 1
           /\ Frame(q) \in Seq(ClientUnits) /\ Len(Frame(q)) = Units(q) /\ UnitsOK(Frame(q))
           /\ Frame(q) # << >> /\ Frame(q)[1] = [of |-> q, unit |-> 1]
           /\ Frame(q)[1].of = q /\ Frame(q)[1].unit = 1
  <1>1. Units(q) \in Nat /\ Units(q) > 0 /\ (q.method # "TransferData" => Units(q) = 1)
    BY CampaignAssumption DEF Units
  <1>2. \A i \in 1 .. Units(q) : [of |-> q, unit |-> i] \in ClientUnits
    BY <1>1 DEF ClientUnits
  <1>3. Frame(q) \in Seq(ClientUnits) /\ Len(Frame(q)) = Units(q)
    BY <1>1, <1>2 DEF Frame
  <1>4. \A i \in 1 .. Units(q) : Frame(q)[i] = [of |-> q, unit |-> i]
    BY <1>1 DEF Frame
  <1>5. UnitsOK(Frame(q))
    BY <1>1, <1>3, <1>4 DEF UnitsOK, UnitOK
  <1>6. Frame(q) # << >> /\ Frame(q)[1] = [of |-> q, unit |-> 1]
    BY <1>1, <1>3, <1>4
  <1>7. Frame(q)[1].of = q /\ Frame(q)[1].unit = 1
    BY <1>6
  <1> QED
    BY <1>1, <1>3, <1>5, <1>6, <1>7

\* A frame is complete and intact, and no part of it is complete.
LEMMA WholeFrame ==
    ASSUME NEW q \in ClientRequests
    PROVE  FrameComplete(Frame(q)) /\ FrameIntact(Frame(q)) /\ Decoded(Frame(q)) = q
  <1>0. /\ Frame(q) # << >> /\ Frame(q)[1].of = q /\ Frame(q)[1].unit = 1
        /\ Len(Frame(q)) = Units(q) /\ Units(q) \in Nat
    BY FrameUnits
  <1>1. /\ Frame(q) # << >> /\ Frame(q)[1].of = q /\ Frame(q)[1].unit = 1
        /\ Len(Frame(q)) >= Units(q)
    BY <1>0
  <1>2. FrameIntact(Frame(q))
    BY <1>1 DEF FrameIntact
  <1>3. FrameComplete(Frame(q))
    BY <1>1 DEF FrameComplete, Junk
  <1> QED
    BY <1>1, <1>2, <1>3 DEF Decoded

\* No proper part of a frame is complete.
LEMMA PartOfFrame ==
    ASSUME NEW q \in ClientRequests, NEW S, NEW c \in Seq(S), c # << >>,
           c[1] = Frame(q)[1], Len(c) < Units(q)
    PROVE  ~FrameComplete(c)
  <1>1. c[1].of = q /\ Units(q) \in Nat
    BY FrameUnits
  <1> QED
    BY <1>1 DEF FrameComplete

\* What VUCM asks for is a request.
LEMMA VucmRequest ==
    ASSUME NEW p \in Packages, NEW sent \in Nat
    PROVE  /\ \A id : RequestOf("TransferStart", p, id, sent) \in ClientRequests
           /\ \A id \in Nat, pc \in Methods \ {"TransferStart"} :
                 RequestOf(pc, p, id, sent) \in ClientRequests
  <1>1. \A id : RequestOf("TransferStart", p, id, sent) \in ClientRequests
    BY DEF RequestOf, ClientRequests
  <1>2. ASSUME NEW id \in Nat, NEW pc \in Methods \ {"TransferStart"}
        PROVE  RequestOf(pc, p, id, sent) \in ClientRequests
    <2>1. CASE pc = "TransferData"
      BY <2>1 DEF RequestOf, ClientRequests, Request
    <2>2. CASE pc \in {"TransferExit", "ProcessSwPackage", "Activate"}
      BY <2>2 DEF RequestOf, ClientRequests, Request
    <2> QED
      BY <1>2, <2>1, <2>2 DEF Methods
  <1> QED
    BY <1>1, <1>2

\* One more unit: the buffer stays well formed until a frame is complete, and
\* then what is decoded is a request the handlers know.  Only TransferData can
\* be put together from units of several requests.
LEMMA OneMoreUnit ==
    ASSUME NEW b, BufferOK(b), NEW u \in ClientUnits, UnitOK(u)
    PROVE  LET c == Append(b, u) IN
           /\ ~FrameComplete(c) => BufferOK(c)
           /\ FrameComplete(c) =>
                 /\ c[1].of \in ClientRequests
                 /\ Decoded(c) \in HandledRequests
                 /\ Decoded(c).method = c[1].of.method
                 /\ c[1].of.method # "TransferData" => b = << >> /\ FrameIntact(c)
                 /\ b # << >> => c[1].of.method = "TransferData"
  <1> DEFINE c == Append(b, u)
  <1>1. CASE b \in Seq(ClientUnits \cup {Junk}) /\ b # << >> /\ b[1] = Junk
    <2>1. c \in Seq(ClientUnits \cup {Junk}) /\ c # << >> /\ c[1] = Junk
      BY <1>1
    <2> QED
      BY <2>1 DEF BufferOK, FrameComplete
  <1>2. CASE UnitsOK(b) /\ ~FrameComplete(b)
    <2>1. c \in Seq(ClientUnits) /\ Len(c) = Len(b) + 1 /\ c # << >>
      BY <1>2 DEF UnitsOK
    <2>2. UnitsOK(c)
      BY <1>2, <2>1 DEF UnitsOK
    <2>3. c[1] \in ClientUnits /\ UnitOK(c[1]) /\ c[1].of \in ClientRequests /\ c[1].unit \in Nat
      <3>1. 1 \in 1 .. Len(c)
        BY <1>2, <2>1 DEF UnitsOK
      <3>2. c[1] \in ClientUnits /\ UnitOK(c[1])
        BY <2>1, <2>2, <3>1 DEF UnitsOK
      <3> QED
        BY <3>2 DEF ClientUnits
    <2>4. /\ c[1].of.method \in Methods
          /\ c[1].of \in HandledRequests
          /\ c[1].of.method = "TransferData" => [c[1].of EXCEPT !.data = <<None, 0>>] \in HandledRequests
          /\ [c[1].of EXCEPT !.data = <<None, 0>>].method = c[1].of.method
      BY <2>3, RequestFields
    <2>5. b # << >> => c[1] = b[1] /\ c[1] # Junk
      BY <1>2, <2>3 DEF UnitsOK, UnitOK, Junk
    <2>6. Units(c[1].of) \in Nat /\ (c[1].of.method # "TransferData" => Units(c[1].of) = 1)
      BY <2>3, FrameUnits
    <2>7. b # << >> => Len(b) < Units(c[1].of)
      BY <1>2, <2>5, <2>6 DEF FrameComplete, UnitsOK
    <2>8. b # << >> => Len(b) > 0
      BY <1>2 DEF UnitsOK
    <2>9. b # << >> => c[1].of.method = "TransferData"
      BY <1>2, <2>6, <2>7, <2>8 DEF UnitsOK
    <2>10. ASSUME c[1].of.method # "TransferData" PROVE b = << >> /\ FrameIntact(c)
      <3>1. b = << >>
        BY <2>9, <2>10
      <3>2. Len(c) = 1 /\ c[1].unit = 1
        BY <2>1, <2>3, <2>6, <2>10, <3>1 DEF UnitOK
      <3>3. c[1] = [of |-> c[1].of, unit |-> 1]
        BY <2>3, <3>2 DEF ClientUnits
      <3>4. /\ Frame(c[1].of) \in Seq(ClientUnits) /\ Len(Frame(c[1].of)) = 1
            /\ Frame(c[1].of)[1] = [of |-> c[1].of, unit |-> 1]
        BY <2>3, <2>6, <2>10, FrameUnits
      <3>5. c = Frame(c[1].of)
        <4> HIDE DEF c
        <4>1. \A i \in 1 .. Len(c) : c[i] = Frame(c[1].of)[i]
          BY <3>2, <3>3, <3>4
        <4> QED
          BY <2>1, <3>2, <3>4, <4>1, SameSequence
      <3> QED
        BY <3>1, <3>5 DEF FrameIntact
    <2>11. Decoded(c) \in HandledRequests /\ Decoded(c).method = c[1].of.method
      BY <2>4, <2>10 DEF Decoded
    <2> QED
      BY <2>2, <2>3, <2>9, <2>10, <2>11 DEF BufferOK
  <1> QED
    BY <1>1, <1>2 DEF BufferOK

-----------------------------------------------------------------------------
(* The package manager, fed by any sequence of clients.  *)

ManagerOK ==
    /\ mStorage \in BOOLEAN
    /\ mNextId \in Nat
    /\ \A id \in DOMAIN mPendingTransfers : id \in Nat /\ id < mNextId
    /\ mPendingTransfers \in [DOMAIN mPendingTransfers -> Info]
    /\ mAccumulatedData \in [DOMAIN mPendingTransfers -> Seq(Data)]
    /\ mStagedPackagePath # None => mStagedPackagePath \in [in : {"storage"}, name : Packages]
    /\ mStagedBinaryName \in Binaries \cup {None}
    /\ files \in [Packages -> Seq(Data)]
    /\ staging \in [Paths -> Packages \cup {None, Torn}]
    /\ installed \in [Binaries -> Packages \cup {None, Torn}]
    /\ manifest \in [readable : BOOLEAN, processes : Seq(Processes)]

\* What TransferStart does to the manager, whether it opens a session or refuses.
LEMMA ManagerStart ==
    ASSUME ManagerOK, NEW info \in Info, NEW r, TransferStart(info, r)
    PROVE  /\ ManagerOK'
           /\ UNCHANGED <<mStorage, staged, files, staging, installed, manifest>>
           /\ r = "ok" => /\ mState = "kIdle" /\ mState' = "kTransferring"
                          /\ mNextId' = mNextId + 1
                          /\ DOMAIN mPendingTransfers' = DOMAIN mPendingTransfers \cup {mNextId}
                          /\ mAccumulatedData'[mNextId] = << >>
                          /\ \A id \in DOMAIN mPendingTransfers :
                                 mAccumulatedData'[id] = mAccumulatedData[id]
           /\ r # "ok" => UNCHANGED <<mState, session>>
  <1>0. UNCHANGED <<mStorage, staged, files, staging, installed, manifest>>
    BY DEF TransferStart, handles, staged, target
  <1>1. CASE r = "kOperationInProgress"
    BY <1>0, <1>1 DEF ManagerOK, TransferStart, session, staged
  <1>2. CASE r = "ok"
    <2>1. /\ mState = "kIdle" /\ mState' = "kTransferring" /\ mNextId' = mNextId + 1
          /\ mPendingTransfers' = Extend(mPendingTransfers, mNextId, info)
          /\ mAccumulatedData' = Extend(mAccumulatedData, mNextId, << >>)
      BY <1>2 DEF TransferStart
    <2>2. /\ DOMAIN mPendingTransfers' = DOMAIN mPendingTransfers \cup {mNextId}
          /\ mPendingTransfers' \in [DOMAIN mPendingTransfers \cup {mNextId} -> Info]
      <3>1. mPendingTransfers \in [DOMAIN mPendingTransfers -> Info]
        BY DEF ManagerOK
      <3>2. /\ DOMAIN Extend(mPendingTransfers, mNextId, info) = DOMAIN mPendingTransfers \cup {mNextId}
            /\ Extend(mPendingTransfers, mNextId, info) \in [DOMAIN mPendingTransfers \cup {mNextId} -> Info]
        BY <3>1, ExtendMap
      <3> QED
        BY <2>1, <3>2
    <2>3. << >> \in Seq(Data)
      OBVIOUS
    <2>4. /\ DOMAIN mAccumulatedData = DOMAIN mPendingTransfers
          /\ mAccumulatedData \in [DOMAIN mAccumulatedData -> Seq(Data)]
      BY DEF ManagerOK
    <2>5. /\ mAccumulatedData' \in [DOMAIN mAccumulatedData \cup {mNextId} -> Seq(Data)]
          /\ mAccumulatedData'[mNextId] = << >>
          /\ \A id \in DOMAIN mAccumulatedData \ {mNextId} : mAccumulatedData'[id] = mAccumulatedData[id]
      <3> DEFINE data == Extend(mAccumulatedData, mNextId, << >>)
      <3>1. data \in [DOMAIN mAccumulatedData \cup {mNextId} -> Seq(Data)]
        BY <2>3, <2>4, ExtendMap
      <3>2. /\ data[mNextId] = << >>
            /\ \A id \in DOMAIN mAccumulatedData \ {mNextId} : data[id] = mAccumulatedData[id]
        BY DEF Extend
      <3> QED
        BY <2>1, <3>1, <3>2
    <2>6. \A id \in DOMAIN mPendingTransfers : id \in Nat /\ id < mNextId /\ id # mNextId
      BY DEF ManagerOK
    <2>7. mNextId' \in Nat /\ \A id \in DOMAIN mPendingTransfers' : id \in Nat /\ id < mNextId'
      BY <2>1, <2>2, <2>6 DEF ManagerOK
    <2>8. ManagerOK'
      BY <1>0, <2>2, <2>4, <2>5, <2>7 DEF ManagerOK, staged
    <2> QED
      BY <1>0, <1>2, <2>1, <2>2, <2>4, <2>5, <2>6, <2>8
  <1> QED
    BY <1>1, <1>2 DEF TransferStart

\* What TransferData does: a block is appended to a known session, or nothing happens.
LEMMA ManagerData ==
    ASSUME ManagerOK, NEW id \in Nat, NEW block \in Data, NEW r, TransferData(id, block, r)
    PROVE  /\ ManagerOK'
           /\ UNCHANGED <<mStorage, mState, mNextId, mPendingTransfers, staged, files, staging, installed, manifest>>
           /\ r = "ok" => Known(id) /\ mAccumulatedData'[id] = Append(mAccumulatedData[id], block)
           /\ r # "ok" => ~Known(id)
  <1>0. UNCHANGED <<mStorage, mState, mNextId, mPendingTransfers, staged, files, staging, installed, manifest>>
    BY DEF TransferData, handles, target
  <1>1. CASE r = "kInvalidTransferId"
    BY <1>0, <1>1 DEF TransferData, ManagerOK, staged
  <1>2. CASE r = "ok"
    <2>1. Known(id) /\ mAccumulatedData' = [mAccumulatedData EXCEPT ![id] = Append(@, block)]
      BY <1>2 DEF TransferData
    <2>2. id \in DOMAIN mAccumulatedData /\ mAccumulatedData[id] \in Seq(Data)
      BY <2>1 DEF ManagerOK, Known
    <2>3. mAccumulatedData' \in [DOMAIN mPendingTransfers -> Seq(Data)]
      BY <2>1, <2>2 DEF ManagerOK
    <2>4. ManagerOK'
      BY <1>0, <2>3 DEF ManagerOK, staged
    <2> QED
      BY <1>0, <1>2, <2>1, <2>2, <2>4
  <1> QED
    BY <1>1, <1>2 DEF TransferData

\* What TransferExit does: the blocks of the session become the stored file.
LEMMA ManagerExit ==
    ASSUME ManagerOK, NEW id \in Nat, NEW r, TransferExit(id, r)
    PROVE  /\ ManagerOK'
           /\ UNCHANGED <<mStorage, mState, session, mStagedBinaryName, staging, installed, manifest>>
           /\ r = "ok" => /\ Known(id) /\ mStagedPackagePath' # None
                          /\ mStorage => files'[mStagedPackagePath'.name] = mAccumulatedData[id]
           /\ ~Known(id) => r # "ok"
  <1>0. UNCHANGED <<mStorage, mState, session, mStagedBinaryName, staging, installed, manifest>>
    BY DEF TransferExit, handles, target
  <1>1. CASE UNCHANGED <<files, mStagedPackagePath>> /\ r # "ok"
    BY <1>0, <1>1 DEF ManagerOK, session
  <1>2. CASE r = "ok"
    <2>1. Known(id)
      BY <1>2 DEF TransferExit
    <2>2. PICK p \in Packages : mPendingTransfers[id] = [name |-> p, size |-> Len(Archive[p])]
      BY <2>1 DEF ManagerOK, Known, Info
    <2>3. Archive[p] \in Seq(SUBSET Paths) /\ Archive[p] # << >>
      BY PackageAssumption
    <2>4. mPendingTransfers[id].size # 0 /\ mPendingTransfers[id].name = p
      BY <2>2, <2>3
    <2>5. /\ files' = IF mStorage THEN [files EXCEPT ![p] = mAccumulatedData[id]] ELSE files
          /\ mStagedPackagePath' = [in |-> "storage", name |-> p]
      BY <1>2, <2>4 DEF TransferExit, WriteFile
    <2>6. mAccumulatedData[id] \in Seq(Data)
      BY <2>1 DEF ManagerOK, Known
    <2>7. files' \in [Packages -> Seq(Data)]
      BY <2>5, <2>6 DEF ManagerOK
    <2>8. mStagedPackagePath' \in [in : {"storage"}, name : Packages] /\ mStagedPackagePath' \in PackagePath
      BY <2>5 DEF PackagePath
    <2>9. mStagedPackagePath' # None
      BY <2>8, PackageAssumption
    <2>10. ManagerOK'
      BY <1>0, <2>7, <2>8 DEF ManagerOK, session
    <2>11. mStorage => files'[mStagedPackagePath'.name] = mAccumulatedData[id]
      BY <2>5 DEF ManagerOK
    <2> QED
      BY <1>0, <1>2, <2>1, <2>9, <2>10, <2>11
  <1>3. CASE r # "ok"
    BY <1>1, <1>3 DEF TransferExit
  <1> QED
    BY <1>2, <1>3

\* Unpacking: what was staged is what tar found.
LEMMA ManagerProcess ==
    ASSUME ManagerOK, NEW id \in Nat, NEW r, ProcessSwPackage(id, r)
    PROVE  /\ ManagerOK'
           /\ UNCHANGED <<mStorage, session, mStagedPackagePath, files, installed, manifest>>
           /\ r = "ok" =>
                 /\ mStagedPackagePath # None
                 /\ \E p \in Packages :
                       /\ files[mStagedPackagePath.name] = Chunks(p)
                       /\ staging' = Extracted(p, Len(Archive[p]), {})
                       /\ staging'["metadata.json"] \in Packages
                       /\ mStagedBinaryName' = BinaryName[staging'["metadata.json"]]
  <1>0. UNCHANGED <<mStorage, session, mStagedPackagePath, files, installed, manifest>>
    BY DEF ProcessSwPackage, handles, target
  <1>1. \A p \in Packages : \A n, cut : Extracted(p, n, cut) \in [Paths -> Packages \cup {None, Torn}]
    BY DEF ManagerOK, Extracted
  <1>2. CASE UNCHANGED <<mState, mStagedBinaryName, staging>> /\ r # "ok"
    BY <1>0, <1>2 DEF ManagerOK, session
  <1>3. CASE ExtractionFails(r)
    <2>1. staging' \in [Paths -> Packages \cup {None, Torn}]
      <3>1. CASE UNCHANGED staging
        BY <3>1 DEF ManagerOK
      <3>2. CASE \E p \in Packages : \E n, cut : staging' = Extracted(p, n, cut)
        BY <1>1, <3>2
      <3> QED
        BY <1>3, <3>1, <3>2 DEF ExtractionFails
    <2>2. UNCHANGED mStagedBinaryName /\ r # "ok"
      BY <1>3 DEF ExtractionFails
    <2> QED
      BY <1>0, <2>1, <2>2 DEF ManagerOK, session
  <1>4. CASE mStagedPackagePath # None /\ ExtractionDone(r)
    <2>1. PICK p \in Packages :
             /\ FileAt(mStagedPackagePath) = Chunks(p)
             /\ staging' = Extracted(p, Len(Archive[p]), {})
             /\ \/ r = "kPackageMalformed" /\ UNCHANGED mStagedBinaryName
                \/ /\ staging'["metadata.json"] \in Packages
                   /\ mStagedBinaryName' = BinaryName[staging'["metadata.json"]]
      BY <1>4 DEF ExtractionDone
    <2>2. staging' \in [Paths -> Packages \cup {None, Torn}]
      BY <1>1, <2>1
    <2>3. mStagedBinaryName' \in Binaries \cup {None}
      BY <2>1, PackageAssumption DEF ManagerOK
    <2>4. FileAt(mStagedPackagePath) = files[mStagedPackagePath.name]
      BY <1>4 DEF ManagerOK, FileAt
    <2>5. ManagerOK'
      BY <1>0, <2>2, <2>3 DEF ManagerOK, session
    <2>6. r = "ok" => /\ staging'["metadata.json"] \in Packages
                     /\ mStagedBinaryName' = BinaryName[staging'["metadata.json"]]
      BY <2>1
    <2> QED
      BY <1>0, <1>4, <2>1, <2>4, <2>5, <2>6
  <1> QED
    BY <1>2, <1>3, <1>4 DEF ProcessSwPackage

\* Activating: what is installed is what is staged.
LEMMA ManagerActivate ==
    ASSUME ManagerOK, NEW r, Activate(r)
    PROVE  /\ ManagerOK'
           /\ UNCHANGED <<mStorage, session, staged, files, staging>>
           /\ r = "ok" =>
                 /\ mStagedBinaryName # None /\ staging["process_entry.xml"] \in Packages
                 /\ installed'[mStagedBinaryName] = staging[mStagedBinaryName]
                 /\ manifest'.readable
                 /\ \E i \in DOMAIN manifest'.processes : manifest'.processes[i] = ProcessEntry
  <1>1. UNCHANGED <<mStorage, session, staged, files, staging>>
    BY DEF Activate, handles
  <1>2. installed' \in [Binaries -> Packages \cup {None, Torn}]
    BY DEF Activate, InstallBinary, ManagerOK, target, Paths
  <1>3. ASSUME ManifestLoads
        PROVE  /\ InjectProcess(manifest.processes) \in Seq(Processes)
               /\ \E i \in DOMAIN InjectProcess(manifest.processes) :
                     InjectProcess(manifest.processes)[i] = ProcessEntry
    <2>1. ProcessEntry \in Processes
      BY <1>3, PackageAssumption DEF ManifestLoads, ProcessEntry
    <2>2. manifest.processes \in Seq(Processes)
      BY DEF ManagerOK
    <2>3. CASE \E i \in DOMAIN manifest.processes : manifest.processes[i] = ProcessEntry
      BY <2>2, <2>3 DEF InjectProcess
    <2>4. CASE ~\E i \in DOMAIN manifest.processes : manifest.processes[i] = ProcessEntry
      <3>1. InjectProcess(manifest.processes) = Append(manifest.processes, ProcessEntry)
        BY <2>4 DEF InjectProcess
      <3>2. /\ Append(manifest.processes, ProcessEntry) \in Seq(Processes)
            /\ Len(manifest.processes) + 1 \in DOMAIN Append(manifest.processes, ProcessEntry)
            /\ Append(manifest.processes, ProcessEntry)[Len(manifest.processes) + 1] = ProcessEntry
        BY <2>1, <2>2
      <3> QED
        BY <3>1, <3>2
    <2> QED
      BY <2>3, <2>4
  <1>4. manifest' \in [readable : BOOLEAN, processes : Seq(Processes)]
    <2>1. << >> \in Seq(Processes)
      OBVIOUS
    <2>2. CASE manifest' = manifest
      BY <2>2 DEF ManagerOK
    <2>3. CASE manifest' = [readable |-> FALSE, processes |-> << >>]
      BY <2>1, <2>3
    <2>4. CASE ManifestLoads /\ manifest' = [manifest EXCEPT !.processes = InjectProcess(@)]
      BY <1>3, <2>4 DEF ManagerOK
    <2> QED
      BY <2>2, <2>3, <2>4 DEF Activate, target
  <1>5. ManagerOK'
    BY <1>1, <1>2, <1>4 DEF ManagerOK, session, staged
  <1>6. ASSUME r = "ok"
        PROVE  /\ mStagedBinaryName # None /\ staging["process_entry.xml"] \in Packages
               /\ installed'[mStagedBinaryName] = staging[mStagedBinaryName]
               /\ manifest'.readable
               /\ \E i \in DOMAIN manifest'.processes : manifest'.processes[i] = ProcessEntry
    <2>1. /\ mStagedBinaryName # None /\ InstallBinary /\ ManifestLoads
          /\ manifest' = [manifest EXCEPT !.processes = InjectProcess(@)]
      BY <1>6 DEF Activate, ActivationAborts
    <2>2. installed'[mStagedBinaryName] = staging[mStagedBinaryName]
      BY <2>1 DEF InstallBinary, ManagerOK
    <2>3. manifest'.readable /\ manifest'.processes = InjectProcess(manifest.processes)
      BY <2>1 DEF ManagerOK, ManifestLoads
    <2> QED
      BY <1>3, <2>1, <2>2, <2>3 DEF ManifestLoads
  <1> QED
    BY <1>1, <1>5, <1>6

\* The disconnect handler forgets every transfer, or changes nothing.
LEMMA ManagerDisconnected ==
    ASSUME ManagerOK, onClientDisconnected
    PROVE  /\ ManagerOK'
           /\ UNCHANGED <<mStorage, mNextId, files, staging, installed, manifest>>
           /\ \/ UNCHANGED <<mState, session, staged>>
              \/ /\ DOMAIN mPendingTransfers' = {}
                 /\ mStagedPackagePath' = None /\ mStagedBinaryName' = None
  <1>0. UNCHANGED <<mStorage, files, staging, installed, manifest>>
    BY DEF onClientDisconnected, handles, target
  <1>1. CASE Reset
    <2>1. /\ DOMAIN mPendingTransfers' = {}
          /\ mPendingTransfers' \in [DOMAIN mPendingTransfers' -> Info]
          /\ mAccumulatedData' \in [DOMAIN mPendingTransfers' -> Seq(Data)]
      BY <1>1 DEF Reset
    <2>2. mStagedPackagePath' = None /\ mStagedBinaryName' = None /\ mNextId' = mNextId
      BY <1>1 DEF Reset
    <2> QED
      BY <1>0, <2>1, <2>2 DEF ManagerOK
  <1>2. CASE UNCHANGED <<mState, session, staged>>
    BY <1>0, <1>2 DEF ManagerOK, session, staged
  <1> QED
    BY <1>1, <1>2 DEF onClientDisconnected

\* A restart leaves a well-formed manager.
LEMMA ManagerRestart ==
    ASSUME ManagerOK, Restart
    PROVE  ManagerOK'
  <1>1. /\ DOMAIN mPendingTransfers' = {}
        /\ mPendingTransfers' \in [DOMAIN mPendingTransfers' -> Info]
        /\ mAccumulatedData' \in [DOMAIN mPendingTransfers' -> Seq(Data)]
    BY DEF Restart
  <1>2. mStorage' \in BOOLEAN
    BY BoundAssumption DEF Restart, OpenStorages
  <1> QED
    BY <1>1, <1>2 DEF ManagerOK, Restart

\* Whatever request the skeleton hands over, the manager stays well formed.
LEMMA ManagerHandle ==
    ASSUME ManagerOK, NEW q \in HandledRequests, NEW r, Handle(q, r)
    PROVE  ManagerOK'
  <1>1. CASE handleTransferStart(q, r)
    <2>1. q.data \in Info
      BY <1>1 DEF handleTransferStart, HandledRequests
    <2> QED
      BY <1>1, <2>1, ManagerStart DEF handleTransferStart
  <1>2. CASE handleTransferData(q, r)
    <2>1. q.id \in Nat /\ q.data \in Data
      BY <1>2 DEF handleTransferData, HandledRequests
    <2> QED
      BY <1>2, <2>1, ManagerData DEF handleTransferData
  <1>3. CASE handleTransferExit(q, r)
    <2>1. q.id \in Nat
      BY <1>3 DEF handleTransferExit, HandledRequests
    <2> QED
      BY <1>3, <2>1, ManagerExit DEF handleTransferExit
  <1>4. CASE handleProcessSwPackage(q, r)
    <2>1. q.id \in Nat
      BY <1>4 DEF handleProcessSwPackage, HandledRequests
    <2> QED
      BY <1>4, <2>1, ManagerProcess DEF handleProcessSwPackage
  <1>5. CASE handleActivate(q, r)
    BY <1>5, ManagerActivate DEF handleActivate
  <1> QED
    BY <1>1, <1>2, <1>3, <1>4, <1>5 DEF Handle

-----------------------------------------------------------------------------
(* The campaign.  *)

Pcs == Methods \cup {"off", "succeeded", "failed"}

\* Types, and that a reply is sent before the next request is received.
WireOK ==
    /\ vucm \in [pc : Pcs, package : Packages \cup {None}, id : Nat \cup {None}, sent : Nat]
    /\ toVucm \in Seq(ReplyType)
    /\ mSendingQueue \in Seq(ReplyType) /\ Len(mSendingQueue) <= 1
    /\ backlog # None => UnitsOK(backlog)
    /\ accepted # None => UnitsOK(accepted)
    /\ BufferOK(mReceiveBuffer)

\* A session that nobody has used since it was opened.
Fresh(id) ==
    /\ id \in Nat /\ id < mNextId
    /\ Known(id) => (mState = "kTransferring" /\ mAccumulatedData[id] = << >>)

\* A reply that gives an id gives one of a session that was not used since.
GivesFresh(reply) ==
    reply.id # None => (reply.r = "ok" /\ Fresh(reply.id) /\ mReceiveBuffer = << >>)

QueueOK == \A n \in 1 .. Len(mSendingQueue) : GivesFresh(mSendingQueue[n])

StartRequest(p) == RequestOf("TransferStart", p, None, 0)

\* Only the connection of a running VUCM has a client, and that VUCM waits for
\* the reply to its first request until the connection is accepted.
ConnectionOK ==
    /\ ~Running => (backlog # None => backlogEof)
    /\ ~(Running /\ backlog = None) => (accepted # None => acceptedEof)
    /\ Running /\ backlog # None =>
          /\ ~backlogEof /\ vucm.pc = "TransferStart" /\ toVucm = << >>
          /\ backlog = Frame(StartRequest(vucm.package))
    /\ Running /\ backlog = None => accepted # None /\ ~acceptedEof

\* The next request UCM will complete is q, and what follows is g.
Flow(q, g) == mReceiveBuffer \o accepted = Frame(q) \o g /\ Len(mReceiveBuffer) < Units(q)
NothingFlows == mReceiveBuffer = << >> /\ accepted = << >>

\* What a concatenation holds.
LEMMA Concat ==
    ASSUME NEW S, NEW s \in Seq(S), NEW t \in Seq(S)
    PROVE  /\ s \o t \in Seq(S)
           /\ Len(s) \in Nat /\ Len(t) \in Nat /\ Len(s \o t) = Len(s) + Len(t)
           /\ \A i \in 1 .. Len(s) : (s \o t)[i] = s[i]
           /\ \A i \in 1 .. Len(t) : (s \o t)[Len(s) + i] = t[i]
  <1>1. Len(s) \in Nat /\ Len(t) \in Nat
    OBVIOUS
  <1>2. \A i \in 1 .. Len(t) : (s \o t)[Len(s) + i] = t[i]
    BY <1>1
  <1> QED
    BY <1>1, <1>2

Pipe(b, a, f, g) == b \o a = f \o g /\ Len(b) < Len(f)
PipeMoved(b, a, f, g) ==
    LET c == Append(b, Head(a)) IN
    /\ a # << >>
    /\ c \o Tail(a) = f \o g
    /\ c[1] = f[1]
    /\ Len(c) < Len(f) \/ (c = f /\ Tail(a) = g)

\* A sequence that goes through a buffer: either the first part has come out of
\* it as a whole, or it is still in it.
LEMMA PipeStep ==
    ASSUME NEW S, NEW b \in Seq(S), NEW a \in Seq(S), NEW f \in Seq(S), NEW g \in Seq(S),
           Pipe(b, a, f, g)
    PROVE  PipeMoved(b, a, f, g)
  <1> DEFINE c == Append(b, Head(a))
  <1>0. b \o a = f \o g /\ Len(b) < Len(f)
    BY DEF Pipe
  <1>1. /\ Len(b) \in Nat /\ Len(a) \in Nat /\ Len(f) \in Nat /\ Len(g) \in Nat
        /\ Len(b) + Len(a) = Len(f) + Len(g)
    <2>1. Len(b \o a) = Len(b) + Len(a) /\ Len(f \o g) = Len(f) + Len(g)
      OBVIOUS
    <2> QED
      BY <1>0, <2>1
  <1>2. a # << >> /\ Len(a) > 0
    BY <1>0, <1>1
  <1>3. /\ Head(a) \in S /\ Head(a) = a[1] /\ Tail(a) \in Seq(S) /\ Len(Tail(a)) = Len(a) - 1
        /\ \A i \in 1 .. Len(Tail(a)) : Tail(a)[i] = a[i + 1]
    BY <1>2
  <1>4. c \in Seq(S) /\ Len(c) = Len(b) + 1 /\ c[Len(b) + 1] = a[1] /\ \A i \in 1 .. Len(b) : c[i] = b[i]
    BY <1>3
  <1>5. /\ \A i \in 1 .. Len(b) : (b \o a)[i] = b[i]
        /\ \A i \in 1 .. Len(a) : (b \o a)[Len(b) + i] = a[i]
    <2>1. \A x, y \in Seq(S) : \A i \in 1 .. Len(x) : (x \o y)[i] = x[i]
      BY Concat
    <2>2. \A x, y \in Seq(S) : \A i \in 1 .. Len(y) : (x \o y)[Len(x) + i] = y[i]
      BY Concat
    <2> QED
      BY <2>1, <2>2, Zenon
  <1>6. /\ \A i \in 1 .. Len(f) : (f \o g)[i] = f[i]
        /\ \A i \in 1 .. Len(g) : (f \o g)[Len(f) + i] = g[i]
    BY Concat
  <1>7. \A i \in 1 .. Len(c) : c[i] = f[i]
    BY <1>0, <1>1, <1>2, <1>4, <1>5, <1>6
  <1>8. c[1] = f[1]
    BY <1>1, <1>4, <1>7
  <1>9. c \o Tail(a) = f \o g
    <2>1. c \o Tail(a) \in Seq(S) /\ b \o a \in Seq(S) /\ Len(c \o Tail(a)) = Len(b \o a)
      <3>1. c \o Tail(a) \in Seq(S) /\ Len(c \o Tail(a)) = Len(c) + Len(Tail(a))
        BY <1>3, <1>4, Concat
      <3>2. b \o a \in Seq(S) /\ Len(b \o a) = Len(b) + Len(a)
        BY Concat
      <3> QED
        BY <1>1, <1>3, <1>4, <3>1, <3>2
    <2>2. ASSUME NEW i \in 1 .. Len(c \o Tail(a)) PROVE (c \o Tail(a))[i] = (b \o a)[i]
      <3>1. CASE i <= Len(b)
        BY <1>1, <1>3, <1>4, <1>5, <3>1
      <3>2. CASE i = Len(b) + 1
        BY <1>1, <1>2, <1>3, <1>4, <1>5, <3>2
      <3>3. CASE i > Len(b) + 1
        <4>1. (c \o Tail(a))[i] = Tail(a)[i - Len(c)] /\ i - Len(c) \in 1 .. Len(Tail(a))
          BY <1>1, <1>3, <1>4, <2>1, <3>3
        <4>2. Tail(a)[i - Len(c)] = a[i - Len(b)] /\ i - Len(b) \in 1 .. Len(a)
          BY <1>1, <1>3, <1>4, <2>1, <3>3, <4>1
        <4> QED
          BY <1>1, <1>5, <3>3, <4>1, <4>2
      <3> QED
        BY <1>1, <2>1, <3>1, <3>2, <3>3
    <2>3. c \o Tail(a) = b \o a
      BY <2>1, <2>2, SameSequence
    <2> QED
      BY <1>0, <2>3
  <1>10. ASSUME ~(Len(c) < Len(f)) PROVE c = f /\ Tail(a) = g
    <2>1. Len(c) = Len(f) /\ Len(Tail(a)) = Len(g)
      BY <1>0, <1>1, <1>3, <1>4, <1>10
    <2>2. c = f
      BY <1>4, <1>7, <2>1, SameSequence
    <2>3. ASSUME NEW i \in 1 .. Len(g) PROVE Tail(a)[i] = g[i]
      <3>1. Tail(a)[i] = a[i + 1] /\ i + 1 \in 1 .. Len(a)
        BY <1>1, <1>3, <2>1
      <3>2. (b \o a)[Len(b) + (i + 1)] = a[i + 1]
        BY <1>5, <3>1
      <3>3. (f \o g)[Len(f) + i] = g[i]
        BY <1>6
      <3>4. Len(f) + i = Len(b) + (i + 1)
        <4>1. Len(f) = Len(b) + 1 /\ i \in Nat
          BY <1>1, <1>4, <2>1
        <4> QED
          BY <1>1, <4>1
      <3> QED
        BY <1>0, <3>1, <3>2, <3>3, <3>4
    <2>4. Tail(a) = g
      BY <1>3, <2>1, <2>3, SameSequence
    <2> QED
      BY <2>2, <2>4
  <1> QED
    BY <1>2, <1>8, <1>9, <1>10 DEF PipeMoved

\* The two outcomes of a recv(): the buffer waits for more, or a request is
\* answered.
Waits ==
    /\ mReceiveBuffer' = Append(mReceiveBuffer, Head(accepted))
    /\ UNCHANGED <<vars, mSendingQueue>>

Answers(q, r) ==
    /\ Handle(q, r)
    /\ mSendingQueue' = <<Reply(q, r, IF q.method = "TransferStart" /\ r = "ok" THEN mNextId ELSE None)>>

\* The empty sequence and one element.
LEMMA SmallSequences ==
    ASSUME NEW S
    PROVE  /\ << >> \in Seq(S) /\ Len(<< >>) = 0
           /\ \A x \in S : <<x>> \in Seq(S) /\ Len(<<x>>) = 1 /\ <<x>>[1] = x
  OBVIOUS

\* A buffer that is empty or cannot be completed is well formed.
LEMMA EmptyBuffers == BufferOK(<< >>) /\ UnitsOK(<< >>) /\ BufferOK(<<Junk>>)
  <1>1. UnitsOK(<< >>) /\ ~FrameComplete(<< >>)
    BY SmallSequences DEF UnitsOK, FrameComplete
  <1>2. <<Junk>> \in Seq(ClientUnits \cup {Junk}) /\ <<Junk>> # << >> /\ <<Junk>>[1] = Junk
    OBVIOUS
  <1> QED
    BY <1>1, <1>2 DEF BufferOK

\* What is left of well-formed units is well formed.
LEMMA LessUnits ==
    ASSUME NEW s, UnitsOK(s)
    PROVE  /\ s # << >> => Head(s) \in ClientUnits /\ UnitOK(Head(s)) /\ UnitsOK(Tail(s))
           /\ \A n \in 0 .. Len(s) : UnitsOK(SubSeq(s, 1, n))
           /\ \A t : UnitsOK(t) => UnitsOK(s \o t)
  <1>0. s \in Seq(ClientUnits) /\ \A n \in 1 .. Len(s) : UnitOK(s[n])
    BY DEF UnitsOK
  <1>1. ASSUME s # << >> PROVE Head(s) \in ClientUnits /\ UnitOK(Head(s)) /\ UnitsOK(Tail(s))
    <2>1. /\ Head(s) \in ClientUnits /\ Head(s) = s[1] /\ 1 \in 1 .. Len(s)
          /\ Tail(s) \in Seq(ClientUnits)
          /\ \A i \in 1 .. Len(Tail(s)) : Tail(s)[i] = s[i + 1] /\ i + 1 \in 1 .. Len(s)
      BY <1>0, <1>1
    <2> QED
      BY <1>0, <2>1 DEF UnitsOK
  <1>2. ASSUME NEW n \in 0 .. Len(s) PROVE UnitsOK(SubSeq(s, 1, n))
    <2>1. /\ SubSeq(s, 1, n) \in Seq(ClientUnits) /\ Len(SubSeq(s, 1, n)) = n
          /\ \A i \in 1 .. n : SubSeq(s, 1, n)[i] = s[i] /\ i \in 1 .. Len(s)
      BY <1>0
    <2> QED
      BY <1>0, <2>1 DEF UnitsOK
  <1>3. ASSUME NEW t, UnitsOK(t) PROVE UnitsOK(s \o t)
    <2>1. t \in Seq(ClientUnits) /\ \A n \in 1 .. Len(t) : UnitOK(t[n])
      BY <1>3 DEF UnitsOK
    <2>2. /\ s \o t \in Seq(ClientUnits)
          /\ Len(s) \in Nat /\ Len(t) \in Nat /\ Len(s \o t) = Len(s) + Len(t)
          /\ \A i \in 1 .. Len(s) : (s \o t)[i] = s[i]
          /\ \A i \in 1 .. Len(t) : (s \o t)[Len(s) + i] = t[i]
      BY <1>0, <2>1, Concat
    <2>3. ASSUME NEW n \in 1 .. Len(s \o t) PROVE UnitOK((s \o t)[n])
      <3>1. CASE n <= Len(s)
        BY <1>0, <2>2, <3>1
      <3>2. CASE n > Len(s)
        <4>1. n - Len(s) \in 1 .. Len(t) /\ n = Len(s) + (n - Len(s))
          BY <2>2, <3>2
        <4> QED
          BY <2>1, <2>2, <4>1
      <3> QED
        BY <2>2, <3>1, <3>2
    <2> QED
      BY <2>2, <2>3 DEF UnitsOK
  <1> QED
    BY <1>1, <1>2, <1>3

\* Whatever is received, the types hold, and what is answered is a request.
LEMMA AnyReceive ==
    ASSUME WireOK, ManagerOK, onReceive
    PROVE  /\ WireOK' /\ ManagerOK'
           /\ UnitsOK(accepted) /\ accepted # << >> /\ accepted' = Tail(accepted)
           /\ mSendingQueue = << >>
           /\ \/ Waits
              \/ \E q \in HandledRequests, r \in Results :
                   /\ Answers(q, r)
                   /\ q.method # "TransferData" => mReceiveBuffer' = << >>
                   /\ mReceiveBuffer # << >> => q.method = "TransferData"
  <1> DEFINE c == Append(mReceiveBuffer, Head(accepted))
  <1>1. /\ UnitsOK(accepted) /\ accepted # << >> /\ accepted' = Tail(accepted)
        /\ mSendingQueue = << >>
        /\ UNCHANGED <<vucm, campaigns, toVucm, backlog, backlogEof, acceptedEof, staleReceiver>>
    BY DEF onReceive, WireOK
  <1>2. Head(accepted) \in ClientUnits /\ UnitOK(Head(accepted)) /\ UnitsOK(accepted')
    BY <1>1, LessUnits
  <1>3. /\ ~FrameComplete(c) => BufferOK(c)
        /\ FrameComplete(c) =>
                 /\ c[1].of \in ClientRequests
                 /\ Decoded(c) \in HandledRequests
                 /\ Decoded(c).method = c[1].of.method
                 /\ c[1].of.method # "TransferData" => mReceiveBuffer = << >> /\ FrameIntact(c)
                 /\ mReceiveBuffer # << >> => c[1].of.method = "TransferData"
    BY <1>2, OneMoreUnit DEF WireOK
  <1>4. CASE ~FrameComplete(c)
    <2>1. mReceiveBuffer' = c /\ UNCHANGED <<vars, mSendingQueue>>
      BY <1>4 DEF onReceive
    <2>2. ManagerOK'
      BY <2>1 DEF ManagerOK, vars, handles, session, staged, target
    <2>3. WireOK'
      BY <1>1, <1>2, <1>3, <1>4, <2>1 DEF WireOK
    <2> QED
      BY <1>1, <2>1, <2>2, <2>3 DEF Waits
  <1>5. CASE FrameComplete(c)
    <2>1. PICK r \in Results :
            /\ Handle(Decoded(c), r)
            /\ mSendingQueue' = Append(mSendingQueue,
                   Reply(c[1].of, r, IF c[1].of.method = "TransferStart" /\ r = "ok" THEN mNextId ELSE None))
            /\ mReceiveBuffer' \in IF FrameIntact(c) THEN {<< >>} ELSE {<< >>, <<Junk>>}
      BY <1>5 DEF onReceive
    <2> DEFINE q == Decoded(c)
               x == Reply(q, r, IF q.method = "TransferStart" /\ r = "ok" THEN mNextId ELSE None)
    <2>2. q \in HandledRequests /\ q.method = c[1].of.method /\ c[1].of \in ClientRequests
      BY <1>3, <1>5
    <2>3. Reply(c[1].of, r, IF c[1].of.method = "TransferStart" /\ r = "ok" THEN mNextId ELSE None) = x
      BY <2>2 DEF Reply
    <2>4. mSendingQueue' = <<x>>
      BY <1>1, <2>1, <2>3
    <2>5. x \in ReplyType
      <3>1. q.method \in Methods
        BY <2>2, RequestFields
      <3>2. mNextId \in Nat
        BY DEF ManagerOK
      <3> QED
        BY <3>1, <3>2 DEF Reply, ReplyType
    <2>6. BufferOK(mReceiveBuffer')
      BY <2>1, EmptyBuffers
    <2>7. ManagerOK'
      BY <2>1, <2>2, ManagerHandle
    <2>8. WireOK'
      <3> HIDE DEF x
      <3>1. mSendingQueue' \in Seq(ReplyType) /\ Len(mSendingQueue') <= 1
        BY <2>4, <2>5
      <3> QED
        BY <1>1, <1>2, <2>6, <3>1 DEF WireOK
    <2>9. q.method # "TransferData" => mReceiveBuffer' = << >>
      BY <1>3, <1>5, <2>1, <2>2
    <2>10. mReceiveBuffer # << >> => q.method = "TransferData"
      BY <1>3, <1>5, <2>2
    <2>11. Answers(q, r)
      BY <2>1, <2>4 DEF Answers
    <2> HIDE DEF q, x, c
    <2> QED
      BY <1>1, <2>2, <2>7, <2>8, <2>9, <2>10, <2>11
  <1> QED
    BY <1>4, <1>5

\* A request that flows in is still flowing, or is answered as it was made.
LEMMA FlowReceive ==
    ASSUME WireOK, ManagerOK, onReceive, NEW q \in ClientRequests, NEW g \in Seq(ClientUnits), Flow(q, g)
    PROVE  \/ Waits /\ Flow(q, g)'
           \/ /\ mReceiveBuffer' = << >> /\ accepted' = g
              /\ \E r \in Results : Answers(q, r)
  <1> DEFINE c == Append(mReceiveBuffer, Head(accepted))
             S == ClientUnits \cup {Junk}
  <1>1. mReceiveBuffer \in Seq(S) /\ accepted \in Seq(S) /\ accepted' = Tail(accepted)
    <2>1. Seq(ClientUnits) \subseteq Seq(S)
      OBVIOUS
    <2> QED
      BY <2>1, AnyReceive DEF WireOK, BufferOK, UnitsOK
  <1>2. Frame(q) \in Seq(S) /\ g \in Seq(S) /\ Len(Frame(q)) = Units(q) /\ Units(q) \in Nat
    <2>1. Seq(ClientUnits) \subseteq Seq(S)
      OBVIOUS
    <2> QED
      BY <2>1, FrameUnits
  <1>3. mReceiveBuffer \o accepted = Frame(q) \o g /\ Len(mReceiveBuffer) < Len(Frame(q))
    BY <1>2 DEF Flow
  <1>4. /\ c \o Tail(accepted) = Frame(q) \o g
        /\ c[1] = Frame(q)[1]
        /\ Len(c) < Len(Frame(q)) \/ (c = Frame(q) /\ Tail(accepted) = g)
        /\ accepted # << >>
    <2>1. Pipe(mReceiveBuffer, accepted, Frame(q), g)
      BY <1>3 DEF Pipe
    <2>2. PipeMoved(mReceiveBuffer, accepted, Frame(q), g)
      <3> HIDE DEF S
      <3> QED
        BY <1>1, <1>2, <2>1, PipeStep
    <2> QED
      BY <2>2 DEF PipeMoved
  <1>5. c \in Seq(S) /\ c # << >>
    BY <1>1, <1>4
  <1>6. CASE Len(c) < Len(Frame(q))
    <2>1. ~FrameComplete(c)
      BY <1>2, <1>4, <1>5, <1>6, PartOfFrame
    <2>2. mReceiveBuffer' = c /\ UNCHANGED <<vars, mSendingQueue>>
      BY <2>1 DEF onReceive
    <2>3. Flow(q, g)'
      BY <1>1, <1>2, <1>4, <1>6, <2>2 DEF Flow
    <2> QED
      BY <2>2, <2>3 DEF Waits
  <1>7. CASE c = Frame(q) /\ Tail(accepted) = g
    <2>1. FrameComplete(c) /\ FrameIntact(c) /\ Decoded(c) = q
      BY <1>7, WholeFrame
    <2>2. c[1].of = q
      BY <1>4, FrameUnits
    <2>3. PICK r \in Results :
            /\ Handle(Decoded(c), r)
            /\ mSendingQueue' = Append(mSendingQueue,
                   Reply(c[1].of, r, IF c[1].of.method = "TransferStart" /\ r = "ok" THEN mNextId ELSE None))
            /\ mReceiveBuffer' \in IF FrameIntact(c) THEN {<< >>} ELSE {<< >>, <<Junk>>}
      BY <2>1 DEF onReceive
    <2>4. mSendingQueue = << >>
      BY DEF onReceive
    <2>5. mReceiveBuffer' = << >>
      BY <2>1, <2>3
    <2>6. Answers(q, r)
      BY <2>1, <2>2, <2>3, <2>4 DEF Answers
    <2> QED
      BY <1>1, <1>7, <2>5, <2>6
  <1> QED
    BY <1>4, <1>6, <1>7

-----------------------------------------------------------------------------
(* What each call of a campaign relies on and what it leaves behind.  *)

Uploaded(id, p, n) == Known(id) => mAccumulatedData[id] = [k \in 1 .. n |-> <<p, k>>]

StagedRight(p) ==
    mStorage /\ mStagedPackagePath # None => files[mStagedPackagePath.name] = Chunks(p)

UnpackedRight(p) ==
    mStorage /\ mStagedBinaryName # None /\ WellFormed(p) =>
        /\ mStagedBinaryName = BinaryName[p]
        /\ staging[mStagedBinaryName] = p
        /\ staging["process_entry.xml"] = p

Before(pc, p, id, n) ==
    /\ pc = "TransferData" => Uploaded(id, p, n)
    /\ pc = "TransferExit" => Uploaded(id, p, Len(Archive[p]))
    /\ pc = "ProcessSwPackage" => StagedRight(p)
    /\ pc = "Activate" => UnpackedRight(p)

After(pc, p, id, n) ==
    /\ pc = "TransferData" => Uploaded(id, p, n + 1)
    /\ pc = "TransferExit" => StagedRight(p)
    /\ pc = "ProcessSwPackage" => UnpackedRight(p)
    /\ pc = "Activate" => (mStorage /\ WellFormed(p) => Installed(p))

\* Two packages with the same chunks are the same.
LEMMA ChunksTell ==
    ASSUME NEW p \in Packages
    PROVE  /\ Archive[p] \in Seq(SUBSET Paths) /\ Len(Archive[p]) \in Nat \ {0}
           /\ Chunks(p) = [k \in 1 .. Len(Archive[p]) |-> <<p, k>>]
           /\ \A q \in Packages : Chunks(q) = Chunks(p) => q = p
  <1>1. \A q \in Packages : Archive[q] \in Seq(SUBSET Paths) /\ Archive[q] # << >>
    BY PackageAssumption
  <1>2. \A q \in Packages : Len(Archive[q]) \in Nat \ {0} /\ DOMAIN Archive[q] = 1 .. Len(Archive[q])
    BY <1>1
  <1>3. \A q \in Packages : Chunks(q)[1] = <<q, 1>>
    BY <1>2 DEF Chunks
  <1>4. Chunks(p) = [k \in 1 .. Len(Archive[p]) |-> <<p, k>>]
    BY <1>2 DEF Chunks
  <1>5. ASSUME NEW q \in Packages, Chunks(q) = Chunks(p) PROVE q = p
    <2>1. Chunks(q)[1] = <<q, 1>> /\ Chunks(p)[1] = <<p, 1>>
      BY <1>3
    <2>2. <<q, 1>> = <<p, 1>>
      BY <1>5, <2>1
    <2> QED
      BY <2>2
  <1> QED
    BY <1>1, <1>2, <1>4, <1>5

\* A call that succeeds leaves behind what the next one relies on.
LEMMA CallLeaves ==
    ASSUME ManagerOK, NEW p \in Packages, NEW id \in Nat, NEW n \in Nat,
           NEW pc \in Methods \ {"TransferStart"}, Before(pc, p, id, n),
           Handle(RequestOf(pc, p, id, n), "ok")
    PROVE  After(pc, p, id, n)'
  <1> DEFINE q == RequestOf(pc, p, id, n)
  <1>1. CASE pc = "TransferData"
    <2>1. q = Request("TransferData", id, <<p, n + 1>>)
      BY <1>1 DEF RequestOf
    <2>2. TransferData(id, <<p, n + 1>>, "ok")
      BY <2>1 DEF Handle, Request, handleTransferStart, handleTransferData, handleTransferExit,
                  handleProcessSwPackage, handleActivate
    <2>3. <<p, n + 1>> \in Data
      BY DEF Data
    <2>4. /\ Known(id) /\ mAccumulatedData'[id] = Append(mAccumulatedData[id], <<p, n + 1>>)
          /\ mPendingTransfers' = mPendingTransfers
      BY <2>2, <2>3, ManagerData
    <2>5. mAccumulatedData[id] = [k \in 1 .. n |-> <<p, k>>]
      BY <1>1, <2>4 DEF Before, Uploaded
    <2>6. Append([k \in 1 .. n |-> <<p, k>>], <<p, n + 1>>) = [k \in 1 .. n + 1 |-> <<p, k>>]
      <3> DEFINE s == [k \in 1 .. n |-> <<p, k>>]
                 t == [k \in 1 .. n + 1 |-> <<p, k>>]
      <3>1. s \in Seq(Packages \X Nat) /\ Len(s) = n /\ t \in Seq(Packages \X Nat) /\ Len(t) = n + 1
        OBVIOUS
      <3>2. /\ Append(s, <<p, n + 1>>) \in Seq(Packages \X Nat) /\ Len(Append(s, <<p, n + 1>>)) = n + 1
            /\ \A k \in 1 .. n + 1 : Append(s, <<p, n + 1>>)[k] = <<p, k>>
        BY <3>1
      <3>3. \A k \in 1 .. n + 1 : t[k] = <<p, k>>
        OBVIOUS
      <3> HIDE DEF s, t
      <3>4. Append(s, <<p, n + 1>>) = t
        BY <3>1, <3>2, <3>3, SameSequence
      <3> QED
        BY <3>4 DEF s, t
    <2> QED
      BY <1>1, <2>4, <2>5, <2>6 DEF After, Uploaded
  <1>2. CASE pc = "TransferExit"
    <2>1. q = Request("TransferExit", id, None)
      BY <1>2 DEF RequestOf
    <2>2. TransferExit(id, "ok")
      BY <2>1 DEF Handle, Request, handleTransferStart, handleTransferData, handleTransferExit,
                  handleProcessSwPackage, handleActivate
    <2>3. /\ Known(id) /\ mStorage' = mStorage
          /\ mStorage => files'[mStagedPackagePath'.name] = mAccumulatedData[id]
      BY <2>2, ManagerExit
    <2>4. mAccumulatedData[id] = Chunks(p)
      BY <1>2, <2>3, ChunksTell DEF Before, Uploaded
    <2>5. Chunks(p)' = Chunks(p)
      BY DEF Chunks
    <2> QED
      BY <1>2, <2>3, <2>4, <2>5 DEF After, StagedRight
  <1>3. CASE pc = "ProcessSwPackage"
    <2>1. q = Request("ProcessSwPackage", id, None)
      BY <1>3 DEF RequestOf
    <2>2. ProcessSwPackage(id, "ok")
      BY <2>1 DEF Handle, Request, handleTransferStart, handleTransferData, handleTransferExit,
                  handleProcessSwPackage, handleActivate
    <2>3. PICK x \in Packages :
             /\ files[mStagedPackagePath.name] = Chunks(x)
             /\ staging' = Extracted(x, Len(Archive[x]), {})
             /\ staging'["metadata.json"] \in Packages
             /\ mStagedBinaryName' = BinaryName[staging'["metadata.json"]]
      BY <2>2, ManagerProcess
    <2>4. mStagedPackagePath # None /\ mStorage' = mStorage
      BY <2>2, ManagerProcess
    <2>5. ASSUME mStorage, WellFormed(p) PROVE UnpackedRight(p)'
      <3>1. x = p
        BY <1>3, <2>3, <2>4, <2>5, ChunksTell DEF Before, StagedRight
      <3>2. ASSUME NEW m \in Paths, \E i \in DOMAIN Archive[p] : m \in Archive[p][i]
            PROVE  staging'[m] = p
        <4>1. PICK i \in DOMAIN Archive[p] : m \in Archive[p][i]
          BY <3>2
        <4>2. i \in 1 .. Len(Archive[p])
          BY <4>1, ChunksTell
        <4>3. staging' = Extracted(p, Len(Archive[p]), {})
          BY <2>3, <3>1
        <4> QED
          BY <4>1, <4>2, <4>3 DEF Extracted
      <3>3. BinaryName[p] \in Binaries
        BY <2>5, PackageAssumption DEF WellFormed
      <3>4. /\ staging'["metadata.json"] = p /\ staging'["process_entry.xml"] = p
            /\ staging'[BinaryName[p]] = p
        BY <2>5, <3>2, <3>3 DEF WellFormed, Paths
      <3> QED
        BY <2>3, <3>4 DEF UnpackedRight
    <2>6. WellFormed(p)' <=> WellFormed(p)
      BY DEF WellFormed
    <2> QED
      BY <1>3, <2>4, <2>5, <2>6 DEF After, UnpackedRight
  <1>4. CASE pc = "Activate"
    <2>1. q = Request("Activate", id, None)
      BY <1>4 DEF RequestOf
    <2>2. Activate("ok")
      BY <2>1 DEF Handle, Request, handleTransferStart, handleTransferData, handleTransferExit,
                  handleProcessSwPackage, handleActivate
    <2>3. /\ mStagedBinaryName # None /\ staging["process_entry.xml"] \in Packages
          /\ installed'[mStagedBinaryName] = staging[mStagedBinaryName]
          /\ manifest'.readable
          /\ \E i \in DOMAIN manifest'.processes : manifest'.processes[i] = ProcessEntry
          /\ mStorage' = mStorage
      BY <2>2, ManagerActivate
    <2>4. WellFormed(p)' <=> WellFormed(p)
      BY DEF WellFormed
    <2>5. ASSUME mStorage, WellFormed(p) PROVE Installed(p)'
      BY <1>4, <2>3, <2>5 DEF Before, UnpackedRight, Installed, ProcessEntry
    <2> QED
      BY <1>4, <2>3, <2>4, <2>5 DEF After
  <1> QED
    BY <1>1, <1>2, <1>3, <1>4 DEF Methods

\* TransferStart uses no session that was not used before, and succeeds only
\* when it is gone; the session it opens is a new one.
LEMMA StartLeaves ==
    ASSUME ManagerOK, NEW p \in Packages, NEW r \in Results, Handle(StartRequest(p), r)
    PROVE  /\ \A id : Fresh(id) => (Fresh(id)' /\ (r = "ok" => ~Known(id)'))
           /\ \A id : (r = "ok" /\ id = mNextId) => Fresh(id)'
           /\ mNextId <= mNextId'
           /\ \A id : (Uploaded(id, p, 0) /\ id < mNextId /\ id \in Nat) => Uploaded(id, p, 0)'
  <1>1. StartRequest(p) = Request("TransferStart", None, [name |-> p, size |-> Len(Archive[p])])
    BY DEF StartRequest, RequestOf
  <1>2. TransferStart([name |-> p, size |-> Len(Archive[p])], r)
    BY <1>1 DEF Handle, Request, handleTransferStart, handleTransferData, handleTransferExit,
                handleProcessSwPackage, handleActivate
  <1>3. [name |-> p, size |-> Len(Archive[p])] \in Info
    BY DEF Info
  <1>4. /\ r = "ok" => /\ mState = "kIdle" /\ mState' = "kTransferring"
                          /\ mNextId' = mNextId + 1
                          /\ DOMAIN mPendingTransfers' = DOMAIN mPendingTransfers \cup {mNextId}
                          /\ mAccumulatedData'[mNextId] = << >>
                          /\ \A id \in DOMAIN mPendingTransfers :
                                 mAccumulatedData'[id] = mAccumulatedData[id]
        /\ r # "ok" => UNCHANGED <<mState, session>>
    BY <1>2, <1>3, ManagerStart
  <1>5. mNextId \in Nat
    BY DEF ManagerOK
  <1>6. CASE r = "ok"
    <2>1. ASSUME NEW id, Fresh(id) PROVE Fresh(id)' /\ ~Known(id)'
      BY <1>4, <1>5, <1>6, <2>1 DEF Fresh, Known
    <2>2. ASSUME NEW id, id = mNextId PROVE Fresh(id)'
      BY <1>4, <1>5, <1>6, <2>2 DEF Fresh, Known
    <2>3. ASSUME NEW id \in Nat, id < mNextId, Uploaded(id, p, 0) PROVE Uploaded(id, p, 0)'
      BY <1>4, <1>5, <1>6, <2>3 DEF Known, Uploaded
    <2> QED
      BY <1>4, <1>5, <1>6, <2>1, <2>2, <2>3
  <1>7. CASE r # "ok"
    BY <1>4, <1>5, <1>7 DEF Fresh, Known, Uploaded, session
  <1> QED
    BY <1>6, <1>7

\* A call with an id that is not known fails, and the id stays unknown.
LEMMA UnknownIdFails ==
    ASSUME ManagerOK, NEW p \in Packages, NEW id \in Nat, NEW n \in Nat, NEW r \in Results,
           NEW pc \in {"TransferData", "TransferExit"},
           Handle(RequestOf(pc, p, id, n), r)
    PROVE  /\ Known(id)' <=> Known(id)
           /\ mNextId' = mNextId
           /\ ~Known(id) => r # "ok"
  <1>1. CASE pc = "TransferData"
    <2>1. RequestOf(pc, p, id, n) = Request("TransferData", id, <<p, n + 1>>)
      BY <1>1 DEF RequestOf
    <2>2. TransferData(id, <<p, n + 1>>, r)
      BY <2>1 DEF Handle, Request, handleTransferStart, handleTransferData, handleTransferExit,
                  handleProcessSwPackage, handleActivate
    <2>3. <<p, n + 1>> \in Data
      BY DEF Data
    <2> QED
      BY <2>2, <2>3, ManagerData DEF Known
  <1>2. CASE pc = "TransferExit"
    <2>1. RequestOf(pc, p, id, n) = Request("TransferExit", id, None)
      BY <1>2 DEF RequestOf
    <2>2. TransferExit(id, r)
      BY <2>1 DEF Handle, Request, handleTransferStart, handleTransferData, handleTransferExit,
                  handleProcessSwPackage, handleActivate
    <2> QED
      BY <2>2, ManagerExit DEF Known, session
  <1> QED
    BY <1>1, <1>2

-----------------------------------------------------------------------------
(* Where a campaign can be.  *)

Replies == toVucm \o mSendingQueue

CurrentRequest == RequestOf(vucm.pc, vucm.package, vucm.id, vucm.sent)
FirstRequest == RequestOf("TransferData", vucm.package, vucm.id, 0)

\* VUCM waits for an id.  A late reply may give it one, and then the session is
\* either gone or nobody's, in which case its own request is refused.
Starting ==
    /\ \A n \in 1 .. Len(Replies) : GivesFresh(Replies[n])
    /\ \/ accepted = Frame(StartRequest(vucm.package)) /\ Len(Replies) <= 1
       \/ /\ accepted = << >> /\ Len(Replies) <= 2
          /\ (Len(Replies) = 2 /\ Replies[1].id # None /\ Known(Replies[1].id)) => Replies[2].r # "ok"

\* Requests and replies go in step.
Asked ==
    /\ Len(Replies) = 0 /\ Flow(CurrentRequest, << >>)
    /\ Before(vucm.pc, vucm.package, vucm.id, vucm.sent)

Answered ==
    /\ Len(Replies) = 1 /\ NothingFlows
    /\ Replies[1].r = "ok" => After(vucm.pc, vucm.package, vucm.id, vucm.sent)

\* VUCM went on with a late reply, and its first request is still to be handled
\* or its answer still to be taken.
AheadOfStart ==
    /\ Len(Replies) = 0 /\ Flow(StartRequest(vucm.package), Frame(FirstRequest))
    /\ Fresh(vucm.id)

AheadOfAnswer ==
    /\ Len(Replies) = 1 /\ Flow(FirstRequest, << >>)
    /\ Uploaded(vucm.id, vucm.package, 0)
    /\ Replies[1].r = "ok" => ~Known(vucm.id)

AheadOfBoth ==
    /\ Len(Replies) = 2 /\ NothingFlows
    /\ Replies[1].r = "ok" => (~Known(vucm.id) /\ Replies[2].r # "ok")
    /\ Replies[2].r = "ok" => Uploaded(vucm.id, vucm.package, 1)

\* The session that VUCM drives is gone: nothing it still asks for succeeds.
Gone ==
    /\ ~Known(vucm.id)
    /\ \/ Len(Replies) = 0 /\ Flow(FirstRequest, Frame(CurrentRequest))
       \/ Len(Replies) = 1 /\ Replies[1].r # "ok" /\ Flow(CurrentRequest, << >>)
       \/ Len(Replies) = 2 /\ Replies[1].r # "ok" /\ Replies[2].r # "ok" /\ NothingFlows

Driving ==
    /\ vucm.id \in Nat /\ vucm.id < mNextId
    /\ vucm.pc = "TransferData" => vucm.sent < Len(Archive[vucm.package])
    /\ vucm.pc # "TransferData" => vucm.sent = Len(Archive[vucm.package])
    /\ \/ Asked \/ Answered
       \/ /\ vucm.pc = "TransferData" /\ vucm.sent = 0
          /\ AheadOfStart \/ AheadOfAnswer \/ AheadOfBoth
       \/ /\ vucm.pc \in {"TransferData", "TransferExit"} /\ vucm.sent = 1
          /\ Gone

DriverOK ==
    Running =>
      /\ vucm.package \in Packages
      /\ vucm.pc = "TransferStart" => vucm.sent = 0
      /\ vucm.pc = "TransferStart" /\ backlog = None => Starting
      /\ vucm.pc # "TransferStart" => Driving

CampaignInv == ManagerOK /\ WireOK /\ QueueOK /\ ConnectionOK /\ DriverOK

\* The replies are those that are on their way and then those that wait.
LEMMA RepliesAre ==
    ASSUME WireOK
    PROVE  /\ Replies \in Seq(ReplyType)
           /\ Len(toVucm) \in Nat /\ Len(mSendingQueue) \in Nat
           /\ Len(Replies) = Len(toVucm) + Len(mSendingQueue)
           /\ \A n \in 1 .. Len(toVucm) : Replies[n] = toVucm[n]
           /\ \A n \in 1 .. Len(mSendingQueue) : Replies[Len(toVucm) + n] = mSendingQueue[n]
  BY Concat DEF WireOK, Replies

\* A VUCM that runs is at one of the calls.
LEMMA RunningPcs == WireOK => (Running <=> vucm.pc \in Methods)
  BY DEF WireOK, Running, Pcs, Methods

\* No connection is made of units.
LEMMA UnitsAreSomething == \A s : UnitsOK(s) => s # None
  <1>1. Seq(ClientUnits) = Seq([of : ClientRequests, unit : Nat])
    BY DEF ClientUnits
  <1> QED
    BY <1>1, NoneAssumption DEF UnitsOK

\* Everything holds at the beginning.
LEMMA CampaignInvInit == CampaignInit => CampaignInv
  <1> SUFFICES ASSUME CampaignInit PROVE CampaignInv
    OBVIOUS
  <1>1. ManagerOK
    <2>1. /\ DOMAIN mPendingTransfers = {}
          /\ mPendingTransfers \in [DOMAIN mPendingTransfers -> Info]
          /\ mAccumulatedData \in [DOMAIN mPendingTransfers -> Seq(Data)]
      BY DEF CampaignInit, Init
    <2>2. mStorage \in BOOLEAN /\ mNextId \in Nat /\ mStagedPackagePath = None /\ mStagedBinaryName = None
      BY BoundAssumption DEF CampaignInit, Init
    <2>3. files \in [Packages -> Seq(Data)]
      <3>1. << >> \in Seq(Data)
        OBVIOUS
      <3> QED
        BY <3>1 DEF CampaignInit, Init
    <2>4. /\ staging \in [Paths -> Packages \cup {None, Torn}]
          /\ installed \in [Binaries -> Packages \cup {None, Torn}]
      BY DEF CampaignInit, Init, NothingStaged
    <2>5. manifest \in [readable : BOOLEAN, processes : Seq(Processes)]
      BY DEF CampaignInit, Init
    <2> QED
      BY <2>1, <2>2, <2>3, <2>4, <2>5 DEF ManagerOK
  <1>2. ~Running
    BY DEF CampaignInit, Idle, Running
  <1>3. WireOK
    BY EmptyBuffers DEF CampaignInit, WireOK, Idle, Pcs
  <1>4. QueueOK
    BY DEF CampaignInit, QueueOK
  <1>5. ConnectionOK /\ DriverOK
    BY <1>2 DEF CampaignInit, ConnectionOK, DriverOK
  <1> QED
    BY <1>1, <1>3, <1>4, <1>5 DEF CampaignInv

\* The parts that only look at the package manager and the queue.
LEMMA ManagerKept == ManagerOK /\ UNCHANGED vars => ManagerOK'
  BY DEF ManagerOK, vars, handles, session, staged, target

\* The replies that wait stay right while the manager and the buffer do not change.
LEMMA QueueKept == QueueOK /\ UNCHANGED <<vars, mSendingQueue, mReceiveBuffer>> => QueueOK'
  BY DEF QueueOK, GivesFresh, Fresh, Known, vars, session

\* A new client connects.
LEMMA StartKeeps ==
    ASSUME CampaignInv, NEW p \in Packages, Start(p)
    PROVE  CampaignInv'
  <1>0. ManagerOK /\ WireOK /\ QueueOK /\ ConnectionOK
    BY DEF CampaignInv
  <1>1. /\ vucm' = [pc |-> "TransferStart", package |-> p, id |-> None, sent |-> 0]
        /\ vucm.pc = "off" /\ backlog' = Frame(StartRequest(p)) /\ backlogEof' = FALSE /\ toVucm' = << >>
        /\ UNCHANGED <<vars, accepted, acceptedEof, server>>
    BY DEF Start, StartRequest
  <1>2. UnitsOK(backlog')
    BY <1>1, VucmRequest, FrameUnits DEF StartRequest
  <1>3. backlog' # None
    BY <1>2, UnitsAreSomething
  <1>4. WireOK'
    BY <1>0, <1>1, <1>2 DEF WireOK, server, Pcs, Methods
  <1>5. ManagerOK' /\ QueueOK'
    BY <1>0, <1>1, ManagerKept, QueueKept DEF server
  <1>6. ConnectionOK'
    BY <1>0, <1>1, <1>3 DEF ConnectionOK, Running
  <1>7. DriverOK'
    BY <1>1, <1>3 DEF DriverOK
  <1> QED
    BY <1>4, <1>5, <1>6, <1>7 DEF CampaignInv

\* A client leaves, with whatever part of its request sent.
LEMMA LeaveKeeps ==
    ASSUME CampaignInv, Running, vucm'.pc \in {"failed", "succeeded"},
           vucm' = [vucm EXCEPT !.pc = vucm'.pc], toVucm' = << >>,
           NEW n \in 0 .. Len(Unread), HangUp(n), UNCHANGED <<vars, server>>
    PROVE  CampaignInv'
  <1>0. ManagerOK /\ WireOK /\ QueueOK /\ ConnectionOK
    BY DEF CampaignInv
  <1>1. ManagerOK' /\ QueueOK'
    BY <1>0, ManagerKept, QueueKept DEF server
  <1>2. ~Running'
    BY DEF Running
  <1>3. vucm' \in [pc : Pcs, package : Packages \cup {None}, id : Nat \cup {None}, sent : Nat]
    BY <1>0 DEF WireOK, Pcs
  <1>4. CASE backlog # None
    <2>1. /\ backlog' = SubSeq(backlog, 1, n) /\ backlogEof' = TRUE /\ UNCHANGED <<accepted, acceptedEof>>
          /\ n \in 0 .. Len(backlog)
      BY <1>4 DEF HangUp, Unread
    <2>2. UnitsOK(backlog')
      BY <1>0, <1>4, <2>1, LessUnits DEF WireOK
    <2>3. WireOK'
      BY <1>0, <1>3, <2>1, <2>2 DEF WireOK, server
    <2>4. ConnectionOK'
      BY <1>0, <1>2, <1>4, <2>1 DEF ConnectionOK
    <2> QED
      BY <1>1, <1>2, <2>3, <2>4 DEF CampaignInv, DriverOK
  <1>5. CASE backlog = None
    <2>1. /\ accepted' = SubSeq(accepted, 1, n) /\ acceptedEof' = TRUE /\ UNCHANGED <<backlog, backlogEof>>
          /\ n \in 0 .. Len(accepted) /\ accepted # None
      BY <1>0, <1>5 DEF HangUp, Unread, ConnectionOK
    <2>2. UnitsOK(accepted')
      BY <1>0, <2>1, LessUnits DEF WireOK
    <2>3. WireOK'
      BY <1>0, <1>3, <1>5, <2>1, <2>2 DEF WireOK, server
    <2>4. ConnectionOK'
      BY <1>0, <1>2, <1>5, <2>1 DEF ConnectionOK
    <2> QED
      BY <1>1, <1>2, <2>3, <2>4 DEF CampaignInv, DriverOK
  <1> QED
    BY <1>4, <1>5

\* The timeout, and the end of the process.
LEMMA GiveUpKeeps == CampaignInv /\ GiveUp => CampaignInv'
  <1> SUFFICES ASSUME CampaignInv, GiveUp PROVE CampaignInv'
    OBVIOUS
  <1>1. /\ Running /\ vucm' = [vucm EXCEPT !.pc = "failed"] /\ toVucm' = << >>
        /\ UNCHANGED <<vars, server>>
    BY DEF GiveUp
  <1>2. vucm'.pc = "failed"
    BY <1>1 DEF CampaignInv, WireOK
  <1>3. PICK n \in 0 .. Len(Unread) : HangUp(n)
    BY DEF GiveUp
  <1> QED
    BY <1>1, <1>2, <1>3, LeaveKeeps

\* The VUCM process exits.
LEMMA ExitKeeps == CampaignInv /\ Exit => CampaignInv'
  <1> SUFFICES ASSUME CampaignInv, Exit PROVE CampaignInv'
    OBVIOUS
  <1>0. ManagerOK /\ WireOK /\ QueueOK /\ ConnectionOK
    BY DEF CampaignInv
  <1>1. vucm' = Idle /\ ~Running /\ UNCHANGED <<vars, network, server>>
    BY DEF Exit, Running
  <1>2. ~Running'
    BY <1>1 DEF Running, Idle
  <1>3. ManagerOK' /\ QueueOK'
    BY <1>0, <1>1, ManagerKept, QueueKept DEF server
  <1>4. WireOK'
    BY <1>0, <1>1 DEF WireOK, network, server, Idle, Pcs
  <1>5. ConnectionOK'
    BY <1>0, <1>1, <1>2 DEF ConnectionOK, network
  <1> QED
    BY <1>2, <1>3, <1>4, <1>5 DEF CampaignInv, DriverOK

\* UCM accepts: the replies of the client before reach the new one.
LEMMA AcceptKeeps == CampaignInv /\ onAccept => CampaignInv'
  <1> SUFFICES ASSUME CampaignInv, onAccept PROVE CampaignInv'
    OBVIOUS
  <1>0. ManagerOK /\ WireOK /\ QueueOK /\ ConnectionOK /\ DriverOK
    BY DEF CampaignInv
  <1>1. /\ backlog # None /\ accepted' = backlog /\ acceptedEof' = backlogEof
        /\ backlog' = None /\ backlogEof' = FALSE
        /\ UNCHANGED <<vars, vucm, toVucm, mReceiveBuffer, mSendingQueue>>
    BY DEF onAccept
  <1>2. ManagerOK' /\ QueueOK'
    BY <1>0, <1>1, ManagerKept, QueueKept
  <1>3. WireOK'
    BY <1>0, <1>1 DEF WireOK
  <1>4. Running' <=> Running
    BY <1>1 DEF Running
  <1>5. ConnectionOK'
    BY <1>0, <1>1, <1>4 DEF ConnectionOK
  <1>6. ASSUME Running PROVE DriverOK'
    <2>1. vucm.pc = "TransferStart" /\ toVucm = << >> /\ backlog = Frame(StartRequest(vucm.package))
      BY <1>0, <1>1, <1>6 DEF ConnectionOK
    <2>2. /\ Len(Replies') = Len(mSendingQueue) /\ Len(mSendingQueue) \in Nat
          /\ \A n \in 1 .. Len(mSendingQueue) : Replies'[n] = mSendingQueue[n]
      BY <1>0, <1>1, <2>1 DEF Replies, WireOK
    <2>3. \A x : GivesFresh(x) => GivesFresh(x)'
      BY <1>1 DEF GivesFresh, Fresh, Known, vars, session
    <2>4. (\A n \in 1 .. Len(Replies) : GivesFresh(Replies[n]))'
      BY <1>0, <1>1, <2>2, <2>3 DEF QueueOK
    <2>5. Starting'
      BY <1>0, <1>1, <2>1, <2>2, <2>4 DEF Starting, WireOK
    <2> QED
      BY <1>0, <1>1, <1>6, <2>1, <2>5 DEF DriverOK
  <1> QED
    BY <1>2, <1>3, <1>4, <1>5, <1>6 DEF CampaignInv, DriverOK

\* What a campaign relies on is in the package manager alone.
LEMMA SameManager ==
    ASSUME UNCHANGED vars
    PROVE  /\ \A id : (Known(id)' <=> Known(id)) /\ (Fresh(id)' <=> Fresh(id))
           /\ \A id, p, n : Uploaded(id, p, n)' <=> Uploaded(id, p, n)
           /\ \A pc, p, id, n : /\ Before(pc, p, id, n)' <=> Before(pc, p, id, n)
                                /\ After(pc, p, id, n)' <=> After(pc, p, id, n)
  <1>1. /\ \A id : (Known(id)' <=> Known(id)) /\ (Fresh(id)' <=> Fresh(id))
        /\ \A id, p, n : Uploaded(id, p, n)' <=> Uploaded(id, p, n)
    BY DEF Known, Fresh, Uploaded, vars, session
  <1>2. \A p : (StagedRight(p)' <=> StagedRight(p)) /\ (UnpackedRight(p)' <=> UnpackedRight(p))
    BY DEF StagedRight, UnpackedRight, vars, handles, staged, WellFormed, Chunks
  <1>3. \A p : (mStorage /\ WellFormed(p) => Installed(p))' <=> (mStorage /\ WellFormed(p) => Installed(p))
    BY DEF Installed, WellFormed, vars, handles, target
  <1>4. \A pc, p, id, n : /\ Before(pc, p, id, n)' <=> Before(pc, p, id, n)
                          /\ After(pc, p, id, n)' <=> After(pc, p, id, n)
    BY <1>1, <1>2, <1>3 DEF Before, After
  <1> QED
    BY <1>1, <1>4

\* What the driver is at depends on the replies, not on where they are.
LEMMA DriverKept ==
    ASSUME DriverOK, UNCHANGED <<vars, vucm, backlog, accepted, mReceiveBuffer>>, Replies' = Replies
    PROVE  DriverOK'
  <1>1. Running' <=> Running
    BY DEF Running
  <1>2. /\ \A id : (Known(id)' <=> Known(id)) /\ (Fresh(id)' <=> Fresh(id))
        /\ \A id, p, n : Uploaded(id, p, n)' <=> Uploaded(id, p, n)
        /\ \A x : GivesFresh(x)' <=> GivesFresh(x)
    BY SameManager DEF GivesFresh
  <1>5. \A pc, p, id, n : /\ Before(pc, p, id, n)' <=> Before(pc, p, id, n)
                          /\ After(pc, p, id, n)' <=> After(pc, p, id, n)
    BY SameManager
  <1>6. \A q, g : Flow(q, g)' <=> Flow(q, g)
    BY DEF Flow, Frame, Units
  <1>7. Starting' <=> Starting
    BY <1>2 DEF Starting, Frame, Units, StartRequest, RequestOf, Request
  <1>8. /\ CurrentRequest' = CurrentRequest /\ FirstRequest' = FirstRequest
        /\ \A q : Frame(q)' = Frame(q)
        /\ StartRequest(vucm.package)' = StartRequest(vucm.package)
    BY DEF CurrentRequest, FirstRequest, Frame, Units, StartRequest, RequestOf, Request
  <1>9. /\ Asked' <=> Asked
        /\ Answered' <=> Answered
        /\ AheadOfStart' <=> AheadOfStart
        /\ AheadOfAnswer' <=> AheadOfAnswer
        /\ AheadOfBoth' <=> AheadOfBoth
        /\ Gone' <=> Gone
    <2>1. Asked' <=> Asked
      BY <1>5, <1>6, <1>8 DEF Asked
    <2>2. Answered' <=> Answered
      BY <1>5 DEF Answered, NothingFlows
    <2>3. AheadOfStart' <=> AheadOfStart
      BY <1>2, <1>6, <1>8 DEF AheadOfStart
    <2>4. AheadOfAnswer' <=> AheadOfAnswer
      BY <1>2, <1>6, <1>8 DEF AheadOfAnswer
    <2>5. AheadOfBoth' <=> AheadOfBoth
      BY <1>2 DEF AheadOfBoth, NothingFlows
    <2>6. Gone' <=> Gone
      BY <1>2, <1>6, <1>8 DEF Gone, NothingFlows
    <2> QED
      BY <2>1, <2>2, <2>3, <2>4, <2>5, <2>6
  <1>10. Driving' <=> Driving
    BY <1>9 DEF Driving, vars, session
  <1> QED
    BY <1>1, <1>7, <1>10 DEF DriverOK

\* UCM sends: no reply is lost to the running VUCM.
LEMMA SendKeeps == CampaignInv /\ onSend => CampaignInv'
  <1> SUFFICES ASSUME CampaignInv, onSend PROVE CampaignInv'
    OBVIOUS
  <1>0. ManagerOK /\ WireOK /\ QueueOK /\ ConnectionOK /\ DriverOK
    BY DEF CampaignInv
  <1>1. /\ accepted # None /\ mSendingQueue' = << >>
        /\ toVucm' = IF acceptedEof THEN toVucm ELSE toVucm \o mSendingQueue
        /\ UNCHANGED <<vars, vucm, backlog, backlogEof, accepted, acceptedEof, mReceiveBuffer>>
    BY DEF onSend
  <1>2. ManagerOK'
    BY <1>0, <1>1, ManagerKept
  <1>3. toVucm' \in Seq(ReplyType)
    BY <1>0, <1>1, Concat DEF WireOK
  <1>4. WireOK'
    BY <1>0, <1>1, <1>3 DEF WireOK
  <1>5. QueueOK'
    BY <1>1 DEF QueueOK
  <1>6. Running' <=> Running
    BY <1>1 DEF Running
  <1>7. Running /\ backlog # None => toVucm' = toVucm
    BY <1>0, <1>1 DEF ConnectionOK
  <1>8. ConnectionOK'
    BY <1>0, <1>1, <1>6, <1>7 DEF ConnectionOK
  <1>9. CASE Running /\ backlog = None
    <2>1. toVucm' = Replies
      BY <1>0, <1>1, <1>9 DEF ConnectionOK, Replies
    <2>2. Replies \in Seq(ReplyType)
      BY <1>0, RepliesAre
    <2>3. Replies' = Replies
      BY <1>1, <2>1, <2>2 DEF Replies
    <2> QED
      BY <1>0, <1>1, <1>2, <1>4, <1>5, <1>8, <2>3, DriverKept DEF CampaignInv
  <1>10. CASE Running /\ backlog # None
    <2>1. vucm.pc = "TransferStart"
      BY <1>0, <1>10 DEF ConnectionOK
    <2>2. DriverOK'
      BY <1>0, <1>1, <1>10, <2>1 DEF DriverOK
    <2> QED
      BY <1>2, <1>4, <1>5, <1>8, <2>2 DEF CampaignInv
  <1>11. CASE ~Running
    BY <1>2, <1>4, <1>5, <1>6, <1>8, <1>11 DEF CampaignInv, DriverOK
  <1> QED
    BY <1>9, <1>10, <1>11

\* What flows was not read.
LEMMA FlowUnread ==
    ASSUME WireOK, accepted # None, NEW q \in ClientRequests, NEW g \in Seq(ClientUnits), Flow(q, g)
    PROVE  accepted # << >>
  <1> DEFINE S == ClientUnits \cup {Junk}
  <1>0. Seq(ClientUnits) \subseteq Seq(S)
    OBVIOUS
  <1>1. mReceiveBuffer \in Seq(S) /\ accepted \in Seq(S) /\ g \in Seq(S) /\ Frame(q) \in Seq(S)
    BY <1>0, FrameUnits DEF WireOK, BufferOK, UnitsOK
  <1>2. Pipe(mReceiveBuffer, accepted, Frame(q), g)
    BY FrameUnits DEF Flow, Pipe
  <1>3. PipeMoved(mReceiveBuffer, accepted, Frame(q), g)
    <2> HIDE DEF S
    <2> QED
      BY <1>1, <1>2, PipeStep
  <1> QED
    BY <1>3 DEF PipeMoved

\* The requests of a VUCM that drives a session.
LEMMA DrivingRequests ==
    ASSUME WireOK, Running, DriverOK, vucm.pc # "TransferStart"
    PROVE  /\ vucm.package \in Packages /\ vucm.id \in Nat /\ vucm.sent \in Nat
           /\ vucm.pc \in Methods \ {"TransferStart"}
           /\ CurrentRequest \in ClientRequests /\ FirstRequest \in ClientRequests
           /\ StartRequest(vucm.package) \in ClientRequests
           /\ Frame(CurrentRequest) \in Seq(ClientUnits) /\ Frame(FirstRequest) \in Seq(ClientUnits)
           /\ << >> \in Seq(ClientUnits)
  <1>1. /\ vucm.package \in Packages /\ vucm.id \in Nat /\ vucm.sent \in Nat
        /\ vucm.pc \in Methods \ {"TransferStart"}
    BY RunningPcs DEF WireOK, DriverOK, Driving
  <1>2. "TransferData" \in Methods \ {"TransferStart"} /\ 0 \in Nat
    BY DEF Methods
  <1>3. CurrentRequest \in ClientRequests
    BY <1>1, VucmRequest DEF CurrentRequest
  <1>4. FirstRequest \in ClientRequests
    BY <1>1, <1>2, VucmRequest DEF FirstRequest
  <1>5. StartRequest(vucm.package) \in ClientRequests
    BY <1>1, <1>2, VucmRequest DEF StartRequest
  <1> QED
    BY <1>1, <1>3, <1>4, <1>5, FrameUnits, SmallSequences

\* The end of a connection is noticed: what VUCM still hopes for becomes less.
LEMMA NothingKeeps == CampaignInv /\ onReceiveNothing => CampaignInv'
  <1> SUFFICES ASSUME CampaignInv, onReceiveNothing PROVE CampaignInv'
    OBVIOUS
  <1>0. ManagerOK /\ WireOK /\ QueueOK /\ ConnectionOK /\ DriverOK
    BY DEF CampaignInv
  <1>1. /\ accepted = << >> /\ mSendingQueue = << >> /\ onClientDisconnected
        /\ UNCHANGED <<vucm, toVucm, backlog, backlogEof, accepted, acceptedEof, mReceiveBuffer, mSendingQueue>>
    BY DEF onReceiveNothing, network, server
  <1>2. /\ ManagerOK'
        /\ UNCHANGED <<mStorage, mNextId, files, staging, installed, manifest>>
        /\ \/ UNCHANGED <<mState, session, staged>>
           \/ /\ DOMAIN mPendingTransfers' = {}
              /\ mStagedPackagePath' = None /\ mStagedBinaryName' = None
    BY <1>0, <1>1, ManagerDisconnected
  <1>3. WireOK' /\ QueueOK'
    BY <1>0, <1>1 DEF WireOK, QueueOK
  <1>4. Running' <=> Running
    BY <1>1 DEF Running
  <1>5. ConnectionOK'
    BY <1>0, <1>1, <1>4 DEF ConnectionOK
  <1>6. /\ \A id : Known(id)' => Known(id)
        /\ \A id : Fresh(id) => Fresh(id)'
        /\ \A id, p, n : Uploaded(id, p, n) => Uploaded(id, p, n)'
        /\ \A x : GivesFresh(x) => GivesFresh(x)'
    BY <1>1, <1>2 DEF Known, Fresh, Uploaded, GivesFresh, session
  <1>7. \A p : (StagedRight(p) => StagedRight(p)') /\ (UnpackedRight(p) => UnpackedRight(p)')
    BY <1>2 DEF StagedRight, UnpackedRight, staged, WellFormed, Chunks
  <1>8. \A p : (mStorage /\ WellFormed(p) => Installed(p)) => (mStorage /\ WellFormed(p) => Installed(p))'
    BY <1>2 DEF Installed, WellFormed
  <1>9. \A pc, p, id, n : After(pc, p, id, n) => After(pc, p, id, n)'
    BY <1>6, <1>7, <1>8 DEF After
  <1>10. Replies' = Replies /\ (NothingFlows' <=> NothingFlows)
    BY <1>1 DEF Replies, NothingFlows
  <1>11. accepted # None
    BY <1>1, EmptyBuffers, UnitsAreSomething
  <1>12. ASSUME Running, backlog = None, vucm.pc = "TransferStart" PROVE Starting'
    <2>1. Starting
      BY <1>0, <1>12 DEF DriverOK
    <2> QED
      BY <1>1, <1>6, <1>10, <2>1 DEF Starting, Frame, Units, StartRequest, RequestOf, Request
  <1>13. ASSUME Running, vucm.pc # "TransferStart" PROVE Driving'
    <2>1. Driving
      BY <1>0, <1>13 DEF DriverOK
    <2>2. ASSUME NEW q \in ClientRequests, NEW g \in Seq(ClientUnits) PROVE ~Flow(q, g)
      BY <1>0, <1>1, <1>11, FlowUnread
    <2>3. /\ CurrentRequest \in ClientRequests /\ FirstRequest \in ClientRequests
          /\ StartRequest(vucm.package) \in ClientRequests
          /\ Frame(CurrentRequest) \in Seq(ClientUnits) /\ Frame(FirstRequest) \in Seq(ClientUnits)
          /\ << >> \in Seq(ClientUnits)
      BY <1>0, <1>13, DrivingRequests
    <2>4. ~Asked /\ ~AheadOfStart /\ ~AheadOfAnswer
      BY <2>2, <2>3 DEF Asked, AheadOfStart, AheadOfAnswer
    <2>5. Answered => Answered'
      BY <1>1, <1>9, <1>10 DEF Answered
    <2>6. AheadOfBoth => AheadOfBoth'
      BY <1>1, <1>6, <1>10 DEF AheadOfBoth
    <2>7. Gone => Gone'
      BY <1>1, <1>6, <1>10, <2>2, <2>3 DEF Gone
    <2> QED
      BY <1>1, <1>2, <2>1, <2>4, <2>5, <2>6, <2>7 DEF Driving
  <1>14. DriverOK'
    BY <1>0, <1>1, <1>4, <1>12, <1>13 DEF DriverOK
  <1> QED
    BY <1>2, <1>3, <1>5, <1>14 DEF CampaignInv

\* A restart of UCM ends the campaign.
LEMMA RestartKeeps == CampaignInv /\ RestartUcm => CampaignInv'
  <1> SUFFICES ASSUME CampaignInv, RestartUcm PROVE CampaignInv'
    OBVIOUS
  <1>0. ManagerOK /\ WireOK /\ QueueOK /\ ConnectionOK /\ DriverOK
    BY DEF CampaignInv
  <1>1. /\ Restart /\ vucm' = IF Running THEN [vucm EXCEPT !.pc = "failed"] ELSE vucm
        /\ toVucm' = << >> /\ backlog' = None /\ accepted' = None
        /\ mReceiveBuffer' = << >> /\ mSendingQueue' = << >>
    BY DEF RestartUcm
  <1>2. ~Running' /\ vucm' \in [pc : Pcs, package : Packages \cup {None}, id : Nat \cup {None}, sent : Nat]
    BY <1>0, <1>1 DEF Running, WireOK, Pcs
  <1>3. ManagerOK'
    BY <1>0, <1>1, ManagerRestart
  <1>4. WireOK' /\ QueueOK'
    BY <1>1, <1>2, EmptyBuffers DEF WireOK, QueueOK
  <1>5. ConnectionOK' /\ DriverOK'
    BY <1>1, <1>2 DEF ConnectionOK, DriverOK
  <1> QED
    BY <1>3, <1>4, <1>5 DEF CampaignInv

\* Nothing added at either end changes nothing.
LEMMA ConcatEmpty ==
    ASSUME NEW S, NEW s \in Seq(S)
    PROVE  s \o << >> = s /\ << >> \o s = s
  OBVIOUS

\* Concatenation is associative.
LEMMA ConcatAssociates ==
    ASSUME NEW S, NEW s \in Seq(S), NEW t \in Seq(S), NEW u \in Seq(S)
    PROVE  s \o (t \o u) = (s \o t) \o u
  <1>1. /\ s \o t \in Seq(S) /\ t \o u \in Seq(S) /\ Len(s) \in Nat /\ Len(t) \in Nat /\ Len(u) \in Nat
        /\ Len(s \o t) = Len(s) + Len(t) /\ Len(t \o u) = Len(t) + Len(u)
    BY Concat
  <1>2. /\ \A i \in 1 .. Len(s) : (s \o t)[i] = s[i]
        /\ \A i \in 1 .. Len(t) : (s \o t)[Len(s) + i] = t[i]
        /\ \A i \in 1 .. Len(t) : (t \o u)[i] = t[i]
        /\ \A i \in 1 .. Len(u) : (t \o u)[Len(t) + i] = u[i]
    BY Concat
  <1> DEFINE l == s \o (t \o u)
             r == (s \o t) \o u
  <1>3. /\ l \in Seq(S) /\ Len(l) = Len(s) + Len(t \o u)
        /\ \A i \in 1 .. Len(s) : l[i] = s[i]
        /\ \A i \in 1 .. Len(t \o u) : l[Len(s) + i] = (t \o u)[i]
    BY <1>1, Concat
  <1>4. /\ r \in Seq(S) /\ Len(r) = Len(s \o t) + Len(u)
        /\ \A i \in 1 .. Len(s \o t) : r[i] = (s \o t)[i]
        /\ \A i \in 1 .. Len(u) : r[Len(s \o t) + i] = u[i]
    BY <1>1, Concat
  <1> HIDE DEF l, r
  <1>5. Len(l) = Len(r)
    BY <1>1, <1>3, <1>4
  <1>6. ASSUME NEW i \in 1 .. Len(l) PROVE l[i] = r[i]
    <2>1. CASE i <= Len(s)
      <3>1. i \in 1 .. Len(s) /\ i \in 1 .. Len(s \o t)
        BY <1>1, <1>3, <2>1
      <3> QED
        BY <1>2, <1>3, <1>4, <3>1
    <2>2. CASE i > Len(s) /\ i <= Len(s) + Len(t)
      <3>1. PICK j \in 1 .. Len(t) : i = Len(s) + j
        <4>1. i - Len(s) \in 1 .. Len(t) /\ i = Len(s) + (i - Len(s))
          BY <1>1, <2>2
        <4> QED
          BY <4>1
      <3>2. l[i] = (t \o u)[j] /\ (t \o u)[j] = t[j]
        <4>1. j \in 1 .. Len(t \o u)
          BY <1>1, <3>1
        <4>2. l[Len(s) + j] = (t \o u)[j]
          BY <1>3, <4>1
        <4>3. (t \o u)[j] = t[j]
          BY <1>2, <3>1
        <4> QED
          BY <3>1, <4>2, <4>3
      <3>3. r[i] = (s \o t)[i] /\ (s \o t)[i] = t[j]
        BY <1>1, <1>2, <1>4, <3>1
      <3> QED
        BY <3>2, <3>3
    <2>3. CASE i > Len(s) + Len(t)
      <3>1. PICK j \in 1 .. Len(u) : i = Len(s) + Len(t) + j
        <4>1. i - (Len(s) + Len(t)) \in 1 .. Len(u) /\ i = Len(s) + Len(t) + (i - (Len(s) + Len(t)))
          BY <1>1, <1>3, <2>3
        <4> QED
          BY <4>1
      <3>2. r[i] = u[j]
        BY <1>1, <1>4, <3>1
      <3>3. Len(t) + j \in 1 .. Len(t \o u) /\ i = Len(s) + (Len(t) + j)
        BY <1>1, <3>1
      <3>4. l[i] = (t \o u)[Len(t) + j]
        BY <1>3, <3>3
      <3> QED
        BY <1>2, <3>1, <3>2, <3>4
    <2> QED
      BY <1>1, <2>1, <2>2, <2>3
  <1>7. l = r
    BY <1>3, <1>4, <1>5, <1>6, SameSequence
  <1> QED
    BY <1>7 DEF l, r

\* VUCM takes reply n; what came before it is dropped.
LEMMA TakeReply ==
    ASSUME WireOK, NEW n \in 1 .. Len(toVucm),
           toVucm' = SubSeq(toVucm, n + 1, Len(toVucm)), mSendingQueue' = mSendingQueue
    PROVE  /\ toVucm' \in Seq(ReplyType)
           /\ Len(Replies) \in Nat /\ Len(Replies') = Len(Replies) - n
           /\ n <= Len(Replies) /\ Replies[n] = toVucm[n]
           /\ \A i \in 1 .. Len(Replies') : Replies'[i] = Replies[n + i]
  <1>1. /\ Len(toVucm) \in Nat /\ Len(mSendingQueue) \in Nat
        /\ Len(Replies) = Len(toVucm) + Len(mSendingQueue)
        /\ \A i \in 1 .. Len(toVucm) : Replies[i] = toVucm[i]
        /\ \A i \in 1 .. Len(mSendingQueue) : Replies[Len(toVucm) + i] = mSendingQueue[i]
    BY RepliesAre
  <1>2. /\ toVucm' \in Seq(ReplyType) /\ Len(toVucm') = Len(toVucm) - n
        /\ \A i \in 1 .. Len(toVucm') : toVucm'[i] = toVucm[n + i]
    BY <1>1 DEF WireOK
  <1>3. /\ Len(Replies') = Len(toVucm') + Len(mSendingQueue)
        /\ \A i \in 1 .. Len(toVucm') : Replies'[i] = toVucm'[i]
        /\ \A i \in 1 .. Len(mSendingQueue) : Replies'[Len(toVucm') + i] = mSendingQueue[i]
    <2> DEFINE t == toVucm'
    <2>1. t \in Seq(ReplyType) /\ mSendingQueue \in Seq(ReplyType) /\ Replies' = t \o mSendingQueue
      BY <1>2 DEF WireOK, Replies
    <2> HIDE DEF t
    <2>2. /\ Len(t \o mSendingQueue) = Len(t) + Len(mSendingQueue)
          /\ \A i \in 1 .. Len(t) : (t \o mSendingQueue)[i] = t[i]
          /\ \A i \in 1 .. Len(mSendingQueue) : (t \o mSendingQueue)[Len(t) + i] = mSendingQueue[i]
      BY <2>1, Concat
    <2> QED
      BY <2>1, <2>2 DEF t
  <1>4. ASSUME NEW i \in 1 .. Len(Replies') PROVE Replies'[i] = Replies[n + i]
    <2>1. CASE i <= Len(toVucm')
      BY <1>1, <1>2, <1>3, <2>1
    <2>2. CASE i > Len(toVucm')
      <3>1. PICK j \in 1 .. Len(mSendingQueue) : i = Len(toVucm') + j
        <4>1. i - Len(toVucm') \in 1 .. Len(mSendingQueue) /\ i = Len(toVucm') + (i - Len(toVucm'))
          BY <1>1, <1>2, <1>3, <2>2
        <4> QED
          BY <4>1
      <3>2. n + i = Len(toVucm) + j
        BY <1>1, <1>2, <3>1
      <3> QED
        BY <1>1, <1>3, <3>1, <3>2
    <2> QED
      BY <1>1, <1>2, <1>3, <2>1, <2>2
  <1> QED
    BY <1>1, <1>2, <1>3, <1>4

\* VUCM sends one more request.
LEMMA FlowSend ==
    ASSUME WireOK, accepted # None, NEW q \in ClientRequests,
           accepted' = accepted \o Frame(q), mReceiveBuffer' = mReceiveBuffer
    PROVE  /\ NothingFlows => Flow(q, << >>)'
           /\ \A f \in ClientRequests : Flow(f, << >>) => Flow(f, Frame(q))'
           /\ \A f \in ClientRequests :
                 (mReceiveBuffer = << >> /\ accepted = Frame(f)) => Flow(f, Frame(q))'
           /\ UnitsOK(accepted')
  <1> DEFINE S == ClientUnits \cup {Junk}
  <1>0. Seq(ClientUnits) \subseteq Seq(S)
    OBVIOUS
  <1>1. UnitsOK(accepted) /\ mReceiveBuffer \in Seq(S) /\ accepted \in Seq(S)
    BY <1>0 DEF WireOK, BufferOK, UnitsOK
  <1>2. \A f \in ClientRequests : /\ Frame(f) \in Seq(S) /\ Units(f) \in Nat /\ Units(f) > 0
                                    /\ UnitsOK(Frame(f))
    BY <1>0, FrameUnits
  <1>3. UnitsOK(accepted')
    BY <1>1, <1>2, LessUnits
  <1> HIDE DEF S
  <1>4. ASSUME NothingFlows PROVE Flow(q, << >>)'
    <2>1. accepted' = Frame(q)
      BY <1>2, <1>4, ConcatEmpty DEF NothingFlows
    <2>2. << >> \o Frame(q) = Frame(q) \o << >>
      BY <1>2, ConcatEmpty
    <2> QED
      BY <1>2, <1>4, <2>1, <2>2 DEF Flow, NothingFlows
  <1>5. ASSUME NEW f \in ClientRequests, Flow(f, << >>) PROVE Flow(f, Frame(q))'
    <2>1. mReceiveBuffer \o accepted = Frame(f) /\ Len(mReceiveBuffer) < Units(f)
      BY <1>2, <1>5, ConcatEmpty DEF Flow
    <2>2. mReceiveBuffer \o accepted' = (mReceiveBuffer \o accepted) \o Frame(q)
      <3>1. mReceiveBuffer \o (accepted \o Frame(q)) = (mReceiveBuffer \o accepted) \o Frame(q)
        <4>1. \A x, y, z \in Seq(S) : x \o (y \o z) = (x \o y) \o z
          BY ConcatAssociates
        <4>2. mReceiveBuffer \in Seq(S) /\ accepted \in Seq(S) /\ Frame(q) \in Seq(S)
          BY <1>1, <1>2
        <4> QED
          BY <4>1, <4>2, Zenon
      <3> QED
        BY <3>1
    <2> QED
      BY <2>1, <2>2 DEF Flow
  <1>6. ASSUME NEW f \in ClientRequests, mReceiveBuffer = << >>, accepted = Frame(f)
        PROVE  Flow(f, Frame(q))'
    <2>1. Frame(f) \o Frame(q) \in Seq(S)
      BY <1>2, Concat
    <2>2. << >> \o (Frame(f) \o Frame(q)) = Frame(f) \o Frame(q)
      BY <2>1, ConcatEmpty
    <2> QED
      BY <1>2, <1>6, <2>2 DEF Flow
  <1> QED
    BY <1>3, <1>4, <1>5, <1>6

\* The call after the current one.
LEMMA NextCallIs ==
    ASSUME NEW p \in Packages, NEW sent \in Nat
    PROVE  /\ \A pc \in {"TransferStart", "TransferData"} :
                 NextCall(pc, p, sent) = IF sent < Len(Archive[p]) THEN "TransferData" ELSE "TransferExit"
           /\ NextCall("TransferExit", p, sent) = "ProcessSwPackage"
           /\ NextCall("ProcessSwPackage", p, sent) = "Activate"
           /\ NextCall("Activate", p, sent) = "succeeded"
  BY DEF NextCall

\* The next call relies on what the current one left behind.
LEMMA NextRelies ==
    ASSUME NEW p \in Packages, NEW id, NEW n \in Nat, NEW pc \in Methods \ {"TransferStart"},
           After(pc, p, id, n), pc = "TransferData" => n < Len(Archive[p]),
           pc # "TransferData" => n = Len(Archive[p])
    PROVE  LET sent == IF pc = "TransferData" THEN n + 1 ELSE n
               next == NextCall(pc, p, sent)
           IN  /\ sent \in Nat
               /\ next # "succeeded" =>
                     /\ next \in Methods \ {"TransferStart"}
                     /\ next = "TransferData" => sent < Len(Archive[p])
                     /\ next # "TransferData" => sent = Len(Archive[p])
                     /\ Before(next, p, id, sent)
               /\ next = "succeeded" => pc = "Activate" /\ (mStorage /\ WellFormed(p) => Installed(p))
  <1>0. Len(Archive[p]) \in Nat
    BY ChunksTell
  <1>1. CASE pc = "TransferData"
    <2>1. n + 1 \in Nat /\ Uploaded(id, p, n + 1)
      BY <1>1 DEF After
    <2>2. NextCall(pc, p, n + 1) = IF n + 1 < Len(Archive[p]) THEN "TransferData" ELSE "TransferExit"
      BY <1>1, <2>1, NextCallIs
    <2>3. CASE n + 1 < Len(Archive[p])
      BY <1>1, <2>1, <2>2, <2>3 DEF Before, Methods
    <2>4. CASE ~(n + 1 < Len(Archive[p]))
      <3>1. n + 1 = Len(Archive[p])
        BY <1>0, <1>1, <2>4
      <3> QED
        BY <1>1, <2>1, <2>2, <2>4, <3>1 DEF Before, Methods
    <2> QED
      BY <2>3, <2>4
  <1>2. CASE pc = "TransferExit"
    BY <1>2, NextCallIs DEF After, Before, Methods
  <1>3. CASE pc = "ProcessSwPackage"
    BY <1>3, NextCallIs DEF After, Before, Methods
  <1>4. CASE pc = "Activate"
    BY <1>4, NextCallIs DEF After, Methods
  <1> QED
    BY <1>1, <1>2, <1>3, <1>4 DEF Methods

\* No chunk is the empty sequence.
LEMMA NoChunks == \A id, p : Fresh(id) => Uploaded(id, p, 0)
  <1>1. \A p : [k \in 1 .. 0 |-> <<p, k>>] = << >>
    OBVIOUS
  <1> QED
    BY <1>1 DEF Fresh, Uploaded

\* VUCM goes on with its next call.
LEMMA GoesOn ==
    ASSUME CampaignInv, Running, backlog = None, NEW n \in 1 .. Len(toVucm),
           NEW next \in Methods \ {"TransferStart"}, NEW id \in Nat, NEW sent \in Nat,
           vucm' = [vucm EXCEPT !.pc = next, !.id = id, !.sent = sent],
           toVucm' = SubSeq(toVucm, n + 1, Len(toVucm)),
           accepted' = accepted \o Frame(RequestOf(next, vucm.package, id, sent)),
           UNCHANGED <<vars, server, backlog, backlogEof, acceptedEof>>,
           Driving'
    PROVE  CampaignInv'
  <1>0. ManagerOK /\ WireOK /\ QueueOK /\ ConnectionOK /\ DriverOK
    BY DEF CampaignInv
  <1>1. ManagerOK' /\ QueueOK'
    BY <1>0, ManagerKept, QueueKept DEF server
  <1>2. vucm.package \in Packages /\ accepted # None
    BY <1>0 DEF DriverOK, ConnectionOK
  <1>3. RequestOf(next, vucm.package, id, sent) \in ClientRequests
    BY <1>2, VucmRequest
  <1>4. UnitsOK(accepted')
    BY <1>0, <1>2, <1>3, FlowSend DEF server
  <1>5. /\ vucm'.pc = next /\ vucm'.package = vucm.package
        /\ vucm' \in [pc : Pcs, package : Packages \cup {None}, id : Nat \cup {None}, sent : Nat]
    BY <1>0 DEF WireOK, Pcs
  <1>6. toVucm' \in Seq(ReplyType)
    BY <1>0, TakeReply DEF server
  <1>7. WireOK'
    BY <1>0, <1>4, <1>5, <1>6 DEF WireOK, server
  <1>8. Running' /\ accepted' # None
    BY <1>4, <1>5, <1>7, RunningPcs, UnitsAreSomething DEF Running, Methods
  <1>9. ConnectionOK'
    BY <1>0, <1>8 DEF ConnectionOK
  <1>10. DriverOK'
    BY <1>2, <1>5 DEF DriverOK
  <1> QED
    BY <1>1, <1>7, <1>9, <1>10 DEF CampaignInv

\* What VUCM does with a reply to TransferStart that gives it an id.
LEMMA StartingGoesOn ==
    ASSUME CampaignInv, Running, backlog = None, vucm.pc = "TransferStart",
           NEW n \in 1 .. Len(toVucm), toVucm[n].r = "ok", toVucm[n].id # None,
           NEW id, id = toVucm[n].id, NEW p, p = vucm.package,
           NEW q, q = RequestOf("TransferData", p, id, 0),
           vucm' = [vucm EXCEPT !.pc = "TransferData", !.id = id, !.sent = 0],
           toVucm' = SubSeq(toVucm, n + 1, Len(toVucm)), accepted' = accepted \o Frame(q),
           UNCHANGED <<vars, server, backlog, backlogEof, acceptedEof>>
    PROVE  CampaignInv'
  <1>0. ManagerOK /\ WireOK /\ QueueOK /\ ConnectionOK /\ DriverOK
    BY DEF CampaignInv
  <1>1. p \in Packages /\ Starting /\ accepted # None
    BY <1>0 DEF DriverOK, ConnectionOK
  <1>2. /\ Len(Replies) \in Nat /\ Len(Replies') = Len(Replies) - n
        /\ n <= Len(Replies) /\ Replies[n] = toVucm[n]
        /\ \A i \in 1 .. Len(Replies') : Replies'[i] = Replies[n + i]
    BY <1>0, TakeReply DEF server
  <1>3. Fresh(id) /\ mReceiveBuffer = << >>
    BY <1>1, <1>2 DEF Starting, GivesFresh
  <1>4. id \in Nat /\ id < mNextId /\ Uploaded(id, p, 0)
    BY <1>3, NoChunks DEF Fresh
  <1>5. q \in ClientRequests /\ StartRequest(p) \in ClientRequests /\ Len(Archive[p]) \in Nat \ {0}
    <2>1. "TransferData" \in Methods \ {"TransferStart"} /\ 0 \in Nat
      BY DEF Methods
    <2> QED
      BY <1>1, <1>4, <2>1, VucmRequest, ChunksTell DEF StartRequest
  <1>6. /\ vucm'.pc = "TransferData" /\ vucm'.package = p /\ vucm'.id = id /\ vucm'.sent = 0
    BY <1>0 DEF WireOK
  <1>7. CurrentRequest' = q /\ FirstRequest' = q /\ StartRequest(vucm.package)' = StartRequest(p)
    BY <1>6 DEF CurrentRequest, FirstRequest, StartRequest, RequestOf, Request
  <1>8. mReceiveBuffer' = mReceiveBuffer /\ mNextId' = mNextId
    BY DEF server, vars, session
  <1>9. /\ Fresh(id)' /\ Uploaded(id, p, 0)' /\ (Known(id)' <=> Known(id))
        /\ Before("TransferData", p, id, 0)'
    BY <1>3, <1>4, SameManager DEF Before
  <1>10. CASE accepted = Frame(StartRequest(p)) /\ Len(Replies) <= 1
    <2>1. Len(Replies') = 0
      BY <1>2, <1>10
    <2>2. Flow(StartRequest(p), Frame(q))'
      BY <1>0, <1>1, <1>3, <1>5, <1>8, <1>10, FlowSend
    <2>3. AheadOfStart'
      BY <1>6, <1>7, <1>9, <2>1, <2>2 DEF AheadOfStart
    <2>4. Driving'
      BY <1>4, <1>5, <1>6, <1>8, <2>3 DEF Driving
    <2> QED
      BY <1>4, <2>4, GoesOn DEF Methods
  <1>11. CASE /\ accepted = << >> /\ Len(Replies) <= 2
              /\ (Len(Replies) = 2 /\ Replies[1].id # None /\ Known(Replies[1].id)) => Replies[2].r # "ok"
    <2>1. Flow(q, << >>)'
      BY <1>0, <1>1, <1>3, <1>5, <1>8, <1>11, FlowSend DEF NothingFlows
    <2>2. ASSUME Len(Replies') = 0 PROVE Driving'
      <3>1. Asked'
        BY <1>6, <1>7, <1>9, <2>1, <2>2 DEF Asked
      <3> QED
        BY <1>4, <1>5, <1>6, <1>8, <3>1 DEF Driving
    <2>3. ASSUME Len(Replies') = 1 PROVE Driving'
      <3>1. n = 1 /\ Len(Replies) = 2 /\ Replies'[1] = Replies[2]
        <4>0. /\ Len(Replies) \in Nat /\ Len(Replies') = Len(Replies) - n /\ Len(Replies) <= 2
              /\ n >= 1 /\ n \in Nat
          BY <1>2, <1>11
        <4>1. n = 1 /\ Len(Replies) = 2
          <5>1. \A l, k \in Nat : (k >= 1 /\ l <= 2 /\ 1 = l - k) => (k = 1 /\ l = 2)
            OBVIOUS
          <5> QED
            BY <2>3, <4>0, <5>1
        <4>2. 1 \in 1 .. Len(Replies')
          BY <2>3
        <4>3. Replies'[1] = Replies[n + 1]
          BY <1>2, <4>2
        <4> QED
          BY <4>1, <4>3
      <3>2. Replies'[1].r = "ok" => ~Known(id)
        BY <1>2, <1>11, <3>1
      <3>3. AheadOfAnswer'
        BY <1>6, <1>7, <1>9, <2>1, <2>3, <3>2 DEF AheadOfAnswer
      <3> QED
        BY <1>4, <1>5, <1>6, <1>8, <3>3 DEF Driving
    <2>4. Len(Replies') = 0 \/ Len(Replies') = 1
      BY <1>2, <1>11
    <2> QED
      BY <1>4, <2>2, <2>3, <2>4, GoesOn DEF Methods
  <1> QED
    BY <1>1, <1>10, <1>11 DEF Starting

\* What VUCM does with a reply of ok while it drives a session.
LEMMA DrivingGoesOn ==
    ASSUME CampaignInv, Running, backlog = None, vucm.pc # "TransferStart",
           NEW n \in 1 .. Len(toVucm), toVucm[n].r = "ok",
           NEW sent, sent = IF vucm.pc = "TransferData" THEN vucm.sent + 1 ELSE vucm.sent,
           NEW next, next = NextCall(vucm.pc, vucm.package, sent), next # "succeeded",
           NEW id, id = vucm.id, NEW p, p = vucm.package,
           NEW q, q = RequestOf(next, p, id, sent),
           vucm' = [vucm EXCEPT !.pc = next, !.id = id, !.sent = sent],
           toVucm' = SubSeq(toVucm, n + 1, Len(toVucm)), accepted' = accepted \o Frame(q),
           UNCHANGED <<vars, server, backlog, backlogEof, acceptedEof>>
    PROVE  CampaignInv'
  <1>0. ManagerOK /\ WireOK /\ QueueOK /\ ConnectionOK /\ DriverOK
    BY DEF CampaignInv
  <1>1. /\ p \in Packages /\ id \in Nat /\ vucm.sent \in Nat /\ vucm.pc \in Methods \ {"TransferStart"}
        /\ CurrentRequest \in ClientRequests /\ FirstRequest \in ClientRequests
        /\ Driving /\ accepted # None /\ Len(Archive[p]) \in Nat
    BY <1>0, DrivingRequests, ChunksTell DEF DriverOK, ConnectionOK
  <1>2. /\ Len(Replies) \in Nat /\ Len(Replies') = Len(Replies) - n
        /\ n <= Len(Replies) /\ Replies[n] = toVucm[n]
        /\ \A i \in 1 .. Len(Replies') : Replies'[i] = Replies[n + i]
    BY <1>0, TakeReply DEF server
  <1>3. /\ vucm'.pc = next /\ vucm'.package = p /\ vucm'.id = id /\ vucm'.sent = sent
    BY <1>0 DEF WireOK
  <1>4. mReceiveBuffer' = mReceiveBuffer /\ mNextId' = mNextId /\ id < mNextId
    BY <1>1 DEF server, vars, session, Driving
  <1>5. CurrentRequest' = q /\ FirstRequest' = FirstRequest
    BY <1>3 DEF CurrentRequest, FirstRequest, RequestOf, Request
  <1>6. /\ vucm.pc = "TransferData" => vucm.sent < Len(Archive[p])
        /\ vucm.pc # "TransferData" => vucm.sent = Len(Archive[p])
    BY <1>1 DEF Driving
  <1>7. /\ sent \in Nat /\ next \in Methods \ {"TransferStart"}
        /\ next = "TransferData" => sent < Len(Archive[p])
        /\ next # "TransferData" => sent = Len(Archive[p])
    <2>1. CASE vucm.pc = "TransferData"
      <3>1. sent = vucm.sent + 1 /\ sent \in Nat /\ (sent < Len(Archive[p]) \/ sent = Len(Archive[p]))
        BY <1>1, <1>6, <2>1
      <3>2. next = IF sent < Len(Archive[p]) THEN "TransferData" ELSE "TransferExit"
        BY <1>1, <2>1, <3>1, NextCallIs
      <3> QED
        BY <1>1, <3>1, <3>2 DEF Methods
    <2>2. CASE vucm.pc # "TransferData"
      BY <1>1, <1>6, <2>2, NextCallIs DEF Methods
    <2> QED
      BY <2>1, <2>2
  <1>8. q \in ClientRequests
    BY <1>1, <1>7, VucmRequest
  <1>9. /\ NothingFlows => Flow(q, << >>)'
        /\ \A f \in ClientRequests : Flow(f, << >>) => Flow(f, Frame(q))'
    BY <1>0, <1>1, <1>4, <1>8, FlowSend
  <1>10. SUFFICES \/ Asked'
                  \/ (next \in {"TransferData", "TransferExit"} /\ sent = 1 /\ Gone')
    <2>1. Driving'
      BY <1>1, <1>3, <1>4, <1>7, <1>10 DEF Driving
    <2> QED
      BY <1>1, <1>7, <2>1, GoesOn
  <1>11. CASE Answered
    <2>1. Len(Replies') = 0 /\ n = 1 /\ NothingFlows
      BY <1>2, <1>11 DEF Answered
    <2>2. After(vucm.pc, p, id, vucm.sent)
      BY <1>2, <1>11, <2>1 DEF Answered
    <2>3. Before(next, p, id, sent)
      BY <1>1, <1>6, <2>2, NextRelies
    <2>4. Before(next, p, id, sent)'
      BY <2>3, SameManager
    <2> QED
      BY <1>3, <1>5, <1>9, <2>1, <2>4 DEF Asked
  <1>12. ASSUME vucm.pc = "TransferData", vucm.sent = 0
         PROVE  sent = 1 /\ next \in {"TransferData", "TransferExit"}
    <2>1. sent = 1 /\ sent \in Nat
      BY <1>12
    <2>2. next = IF sent < Len(Archive[p]) THEN "TransferData" ELSE "TransferExit"
      <3>1. "TransferData" \in {"TransferStart", "TransferData"}
        OBVIOUS
      <3>2. p \in Packages /\ next = NextCall("TransferData", p, sent)
        BY <1>1, <1>12
      <3> QED
        BY <2>1, <3>1, <3>2, NextCallIs
    <2> QED
      BY <2>1, <2>2
  <1>13. CASE vucm.pc = "TransferData" /\ vucm.sent = 0 /\ AheadOfAnswer
    <2>1. Len(Replies') = 0 /\ n = 1 /\ Flow(FirstRequest, << >>) /\ ~Known(id)
      BY <1>2, <1>13 DEF AheadOfAnswer
    <2>2. Flow(FirstRequest, Frame(q))'
      BY <1>1, <1>5, <1>9, <2>1
    <2>3. ~Known(id)'
      BY <2>1, SameManager
    <2>4. Gone'
      BY <1>3, <1>5, <2>1, <2>2, <2>3 DEF Gone
    <2> QED
      BY <1>12, <1>13, <2>4
  <1>14. CASE vucm.pc = "TransferData" /\ vucm.sent = 0 /\ AheadOfBoth
    <2>1. n = 1 \/ n = 2
      BY <1>2, <1>14 DEF AheadOfBoth
    <2>2. CASE n = 1
      <3>1. Len(Replies') = 1 /\ Replies'[1] = Replies[2] /\ Replies[2].r # "ok" /\ ~Known(id)
        BY <1>2, <1>14, <2>2 DEF AheadOfBoth
      <3>2. ~Known(id)'
        BY <3>1, SameManager
      <3>3. Flow(q, << >>)'
        BY <1>9, <1>14 DEF AheadOfBoth
      <3>4. Gone'
        BY <1>3, <1>5, <3>1, <3>2, <3>3 DEF Gone
      <3> QED
        BY <1>12, <1>14, <3>4
    <2>3. CASE n = 2
      <3>1. Len(Replies') = 0 /\ Uploaded(id, p, 1)
        BY <1>2, <1>14, <2>3 DEF AheadOfBoth
      <3>2. Before(next, p, id, sent)
        BY <1>7, <1>12, <1>14, <3>1 DEF Before
      <3>3. Before(next, p, id, sent)'
        BY <3>2, SameManager
      <3>4. Flow(q, << >>)'
        BY <1>9, <1>14 DEF AheadOfBoth
      <3> QED
        BY <1>3, <1>5, <3>1, <3>3, <3>4 DEF Asked
    <2> QED
      BY <2>1, <2>2, <2>3
  <1>15. ~Asked /\ ~AheadOfStart
    BY <1>2 DEF Asked, AheadOfStart
  <1>16. ~Gone
    <2>1. CASE Len(Replies) = 1
      BY <1>2, <2>1 DEF Gone
    <2>2. CASE Len(Replies) = 2
      BY <1>2, <2>2 DEF Gone
    <2> QED
      BY <1>2, <2>1, <2>2 DEF Gone
  <1> QED
    BY <1>1, <1>11, <1>13, <1>14, <1>15, <1>16 DEF Driving

\* What a reply does, with the values OnReply computes from it named.
Takes(n, id, sent, next) ==
    /\ id = IF vucm.pc = "TransferStart" THEN toVucm[n].id ELSE vucm.id
    /\ sent = IF vucm.pc = "TransferData" THEN vucm.sent + 1 ELSE vucm.sent
    /\ next = NextCall(vucm.pc, vucm.package, sent)

\* A reply that arrives, whatever it is the answer to, keeps the invariant.
LEMMA ReplyKeeps == CampaignInv /\ OnReply => CampaignInv'
  <1> SUFFICES ASSUME CampaignInv, OnReply PROVE CampaignInv'
    OBVIOUS
  <1>0. ManagerOK /\ WireOK /\ QueueOK /\ ConnectionOK /\ DriverOK
    BY DEF CampaignInv
  <1>1. PICK n \in 1 .. Len(toVucm) : \E id, sent, next :
            /\ Takes(n, id, sent, next)
            /\ Running
            /\ \/ /\ CallSucceeds(toVucm[n]) /\ next # "succeeded"
                  /\ vucm' = [vucm EXCEPT !.pc = next, !.id = id, !.sent = sent]
                  /\ toVucm' = SubSeq(toVucm, n + 1, Len(toVucm))
                  /\ Transmit(Frame(RequestOf(next, vucm.package, id, sent)))
                  /\ UNCHANGED <<backlogEof, acceptedEof>>
               \/ /\ vucm' = [vucm EXCEPT !.pc = "succeeded"]
                  /\ toVucm' = << >> /\ HangUp(Len(Unread))
               \/ /\ vucm' = [vucm EXCEPT !.pc = "failed"]
                  /\ toVucm' = << >> /\ HangUp(Len(Unread))
            /\ UNCHANGED <<vars, server>>
    BY DEF OnReply, Takes
  <1>2. PICK id, sent, next :
            /\ Takes(n, id, sent, next)
            /\ Running
            /\ \/ /\ CallSucceeds(toVucm[n]) /\ next # "succeeded"
                  /\ vucm' = [vucm EXCEPT !.pc = next, !.id = id, !.sent = sent]
                  /\ toVucm' = SubSeq(toVucm, n + 1, Len(toVucm))
                  /\ Transmit(Frame(RequestOf(next, vucm.package, id, sent)))
                  /\ UNCHANGED <<backlogEof, acceptedEof>>
               \/ /\ vucm' = [vucm EXCEPT !.pc = "succeeded"]
                  /\ toVucm' = << >> /\ HangUp(Len(Unread))
               \/ /\ vucm' = [vucm EXCEPT !.pc = "failed"]
                  /\ toVucm' = << >> /\ HangUp(Len(Unread))
            /\ UNCHANGED <<vars, server>>
    BY <1>1
  <1>3. backlog = None /\ accepted # None /\ UnitsOK(accepted)
    <2>1. toVucm # << >>
      BY <1>0 DEF WireOK
    <2> QED
      BY <1>0, <1>2, <2>1 DEF ConnectionOK, WireOK
  <1>4. Len(Unread) \in 0 .. Len(Unread)
    BY <1>3 DEF Unread, UnitsOK
  <1>5. CASE /\ vucm' = [vucm EXCEPT !.pc = "succeeded"]
             /\ toVucm' = << >> /\ HangUp(Len(Unread))
    <2>1. vucm'.pc = "succeeded"
      BY <1>0, <1>5 DEF WireOK
    <2> QED
      BY <1>2, <1>4, <1>5, <2>1, LeaveKeeps
  <1>6. CASE /\ vucm' = [vucm EXCEPT !.pc = "failed"]
             /\ toVucm' = << >> /\ HangUp(Len(Unread))
    <2>1. vucm'.pc = "failed"
      BY <1>0, <1>6 DEF WireOK
    <2> QED
      BY <1>2, <1>4, <1>6, <2>1, LeaveKeeps
  <1>7. CASE /\ CallSucceeds(toVucm[n]) /\ next # "succeeded"
             /\ vucm' = [vucm EXCEPT !.pc = next, !.id = id, !.sent = sent]
             /\ toVucm' = SubSeq(toVucm, n + 1, Len(toVucm))
             /\ Transmit(Frame(RequestOf(next, vucm.package, id, sent)))
             /\ UNCHANGED <<backlogEof, acceptedEof>>
    <2>1. /\ accepted' = accepted \o Frame(RequestOf(next, vucm.package, id, sent))
          /\ UNCHANGED <<vars, server, backlog, backlogEof, acceptedEof>>
      BY <1>2, <1>3, <1>7 DEF Transmit
    <2>2. CASE vucm.pc = "TransferStart"
      <3>1. toVucm[n].r = "ok" /\ toVucm[n].id # None /\ id = toVucm[n].id
        BY <1>2, <1>7, <2>2 DEF CallSucceeds, Takes
      <3>2. sent = 0 /\ vucm.package \in Packages
        BY <1>0, <1>2, <2>2 DEF DriverOK, Takes
      <3>3. next = "TransferData"
        <4>1. 0 < Len(Archive[vucm.package])
          BY <3>2, ChunksTell
        <4>2. next = NextCall("TransferStart", vucm.package, 0)
          BY <1>2, <2>2, <3>2 DEF Takes
        <4>3. "TransferStart" \in {"TransferStart", "TransferData"} /\ 0 \in Nat
          OBVIOUS
        <4> QED
          BY <3>2, <4>1, <4>2, <4>3, NextCallIs
      <3> QED
        BY <1>2, <1>3, <1>7, <2>1, <2>2, <3>1, <3>2, <3>3, StartingGoesOn
    <2>3. CASE vucm.pc # "TransferStart"
      <3>1. toVucm[n].r = "ok" /\ id = vucm.id
        BY <1>2, <1>7, <2>3 DEF CallSucceeds, Takes
      <3>2. /\ sent = IF vucm.pc = "TransferData" THEN vucm.sent + 1 ELSE vucm.sent
            /\ next = NextCall(vucm.pc, vucm.package, sent)
        BY <1>2 DEF Takes
      <3> QED
        BY <1>2, <1>3, <1>7, <2>1, <2>3, <3>1, <3>2, DrivingGoesOn
    <2> QED
      BY <2>2, <2>3
  <1> QED
    BY <1>2, <1>5, <1>6, <1>7

-----------------------------------------------------------------------------
(* UCM receives.  *)

\* No handler takes a session id back.
LEMMA NextIdGrows ==
    ASSUME ManagerOK, NEW q \in HandledRequests, NEW r, Handle(q, r)
    PROVE  mNextId \in Nat /\ mNextId' \in Nat /\ mNextId <= mNextId'
  <1>0. mNextId \in Nat
    BY DEF ManagerOK
  <1>1. CASE handleTransferStart(q, r)
    <2>1. q.data \in Info
      BY <1>1 DEF handleTransferStart, HandledRequests
    <2>2. mNextId' = mNextId + 1 \/ mNextId' = mNextId
      BY <1>1, <2>1, ManagerStart DEF handleTransferStart, session
    <2> QED
      BY <1>0, <2>2
  <1>2. CASE ~handleTransferStart(q, r)
    <2>1. mNextId' = mNextId
      BY <1>2 DEF Handle, handleTransferData, handleTransferExit, handleProcessSwPackage, handleActivate,
                  TransferData, TransferExit, ProcessSwPackage, Activate, session
    <2> QED
      BY <1>0, <2>1
  <1> QED
    BY <1>1, <1>2

\* A request that is answered adds one reply.
LEMMA OneMoreReply ==
    ASSUME WireOK, mSendingQueue = << >>, toVucm' = toVucm, NEW x, mSendingQueue' = <<x>>, WireOK'
    PROVE  /\ Len(Replies) \in Nat /\ Len(Replies') = Len(Replies) + 1
           /\ \A n \in 1 .. Len(Replies) : Replies'[n] = Replies[n]
           /\ Replies'[Len(Replies) + 1] = x
           /\ mSendingQueue'[1] = x
  <1>1. /\ Len(toVucm) \in Nat /\ Len(Replies) = Len(toVucm)
        /\ \A n \in 1 .. Len(toVucm) : Replies[n] = toVucm[n]
    BY RepliesAre
  <1>2. /\ Len(Replies') = Len(toVucm) + 1
        /\ \A n \in 1 .. Len(toVucm) : Replies'[n] = toVucm[n]
        /\ Replies'[Len(toVucm) + 1] = x
    <2>1. toVucm \in Seq(ReplyType) /\ <<x>> \in Seq(ReplyType) /\ Len(<<x>>) = 1 /\ <<x>>[1] = x
      BY DEF WireOK
    <2>2. Replies' = toVucm \o <<x>>
      BY DEF Replies
    <2> QED
      BY <2>1, <2>2, Concat
  <1> QED
    BY <1>1, <1>2

\* The id a reply to TransferStart gives is that of the session just opened.
LEMMA NewIdIsFresh ==
    ASSUME ManagerOK, NEW q \in HandledRequests, NEW r \in Results, Handle(q, r), q.method = "TransferStart"
    PROVE  \A id : (r = "ok" /\ id = mNextId) => Fresh(id)'
  <1>1. PICK p \in Packages : q.data = [name |-> p, size |-> Len(Archive[p])]
    BY DEF HandledRequests, Info
  <1>2. Handle(StartRequest(p), r)
    BY <1>1 DEF StartRequest, RequestOf, Request, Handle, handleTransferStart, handleTransferData,
               handleTransferExit, handleProcessSwPackage, handleActivate
  <1> QED
    BY <1>2, StartLeaves

\* An empty buffer and the frame of TransferStart: the request is answered.
LEMMA StartIsAnswered ==
    ASSUME WireOK, ManagerOK, onReceive, NEW p \in Packages,
           mReceiveBuffer = << >>, accepted = Frame(StartRequest(p))
    PROVE  /\ mReceiveBuffer' = << >> /\ accepted' = << >>
           /\ \E r \in Results : Answers(StartRequest(p), r)
  <1> DEFINE q == StartRequest(p)
  <1>1. q \in ClientRequests /\ << >> \in Seq(ClientUnits)
    BY VucmRequest DEF StartRequest
  <1>2. Units(q) = 1 /\ Frame(q) \in Seq(ClientUnits)
    BY <1>1, FrameUnits DEF StartRequest, RequestOf, Request
  <1>3. Flow(q, << >>)
    <2>1. << >> \o Frame(q) = Frame(q) \o << >>
      BY <1>2, ConcatEmpty
    <2> QED
      BY <1>2, <2>1 DEF Flow
  <1>4. ~(Waits /\ Flow(q, << >>)')
    <2>1. ASSUME Waits, Flow(q, << >>)' PROVE FALSE
      <3>1. mReceiveBuffer' = <<Head(accepted)>>
        BY <2>1 DEF Waits
      <3>2. Len(mReceiveBuffer') < 1
        BY <1>2, <2>1 DEF Flow
      <3> QED
        BY <3>1, <3>2
    <2> QED
      BY <2>1
  <1> HIDE DEF q
  <1>5. \/ Waits /\ Flow(q, << >>)'
        \/ /\ mReceiveBuffer' = << >> /\ accepted' = << >>
           /\ \E r \in Results : Answers(q, r)
    BY <1>1, <1>3, FlowReceive
  <1> QED
    BY <1>4, <1>5 DEF q

\* What a VUCM that waits for an id may be given.
LEMMA StartingReceives ==
    ASSUME WireOK, ManagerOK, onReceive, Starting, vucm.package \in Packages
    PROVE  Starting'
  <1>0. PICK p \in Packages : p = vucm.package
    OBVIOUS
  <1>1. /\ WireOK' /\ accepted # << >> /\ accepted' = Tail(accepted) /\ mSendingQueue = << >>
        /\ UNCHANGED <<vucm, toVucm>>
    BY AnyReceive DEF onReceive
  <1>2. /\ accepted = Frame(StartRequest(p)) /\ Len(Replies) <= 1 /\ Len(Replies) \in Nat
        /\ \A n \in 1 .. Len(Replies) : GivesFresh(Replies[n])
    BY <1>0, <1>1, RepliesAre DEF Starting
  <1>3. CASE mReceiveBuffer = << >>
    <2>1. mReceiveBuffer' = << >> /\ accepted' = << >>
      BY <1>2, <1>3, StartIsAnswered
    <2>2. PICK r \in Results : Answers(StartRequest(p), r)
      BY <1>2, <1>3, StartIsAnswered
    <2>3. Handle(StartRequest(p), r)
      BY <2>2 DEF Answers
    <2>4. PICK x : /\ mSendingQueue' = <<x>>
                   /\ x.r = r /\ x.id = IF r = "ok" THEN mNextId ELSE None
      <3>1. StartRequest(p).method = "TransferStart"
        BY DEF StartRequest, RequestOf, Request
      <3> QED
        BY <2>2, <3>1 DEF Answers, Reply
    <2>5. /\ Len(Replies') = Len(Replies) + 1
          /\ \A n \in 1 .. Len(Replies) : Replies'[n] = Replies[n]
          /\ Replies'[Len(Replies) + 1] = x
      BY <1>1, <2>4, OneMoreReply
    <2>6. /\ \A id : Fresh(id) => (Fresh(id)' /\ (r = "ok" => ~Known(id)'))
          /\ \A id : (r = "ok" /\ id = mNextId) => Fresh(id)'
      BY <2>3, StartLeaves
    <2>7. \A y : GivesFresh(y) => GivesFresh(y)' /\ (y.id # None => (r = "ok" => ~Known(y.id)'))
      BY <2>1, <2>6 DEF GivesFresh
    <2>8. GivesFresh(x)'
      BY <2>1, <2>4, <2>6 DEF GivesFresh
    <2>9. (\A n \in 1 .. Len(Replies) : GivesFresh(Replies[n]))'
      <3>1. ASSUME NEW n \in 1 .. Len(Replies'), NEW y, y = Replies'[n] PROVE GivesFresh(y)'
        <4>1. CASE n <= Len(Replies)
          <5>1. GivesFresh(y)
            BY <1>2, <2>5, <3>1, <4>1
          <5> QED
            BY <2>7, <5>1
        <4>2. CASE n > Len(Replies)
          <5>1. y = x
            BY <1>2, <2>5, <3>1, <4>2
          <5> QED
            BY <2>8, <5>1
        <4> QED
          BY <1>2, <2>5, <4>1, <4>2
      <3> QED
        BY <3>1
    <2>10. ASSUME Len(Replies') = 2, NEW y, y = Replies'[1], y.id # None, Known(y.id)'
           PROVE  Replies'[2].r # "ok"
      <3>1. y = Replies[1] /\ 1 \in 1 .. Len(Replies) /\ Replies'[2] = x
        <4>0. Len(Replies) \in Nat /\ 2 = Len(Replies) + 1
          BY <1>2, <2>5, <2>10
        <4>1. Len(Replies) = 1
          <5>1. \A l \in Nat : 2 = l + 1 => l = 1
            OBVIOUS
          <5> QED
            BY <4>0, <5>1
        <4>2. 1 \in 1 .. Len(Replies) /\ Len(Replies) + 1 = 2
          BY <4>1
        <4> QED
          BY <2>5, <2>10, <4>2
      <3>2. GivesFresh(y)
        BY <1>2, <3>1
      <3> QED
        BY <2>4, <2>7, <2>10, <3>1, <3>2
    <2>11. Len(Replies') <= 2
      BY <1>2, <2>5
    <2> QED
      BY <2>1, <2>9, <2>10, <2>11 DEF Starting
  <1>4. CASE mReceiveBuffer # << >>
    <2>1. \A n \in 1 .. Len(Replies) : Replies[n].id = None
      BY <1>2, <1>4 DEF GivesFresh
    <2>2. accepted' = << >>
      <3>1. StartRequest(p) \in ClientRequests /\ StartRequest(p).method = "TransferStart"
        BY VucmRequest DEF StartRequest, RequestOf, Request
      <3>2. Frame(StartRequest(p)) \in Seq(ClientUnits) /\ Len(Frame(StartRequest(p))) = 1
        BY <3>1, FrameUnits
      <3> QED
        BY <1>1, <1>2, <3>2
    <2>3. Len(Replies') <= 2 /\ \A n \in 1 .. Len(Replies') : Replies'[n].id = None
      <3>1. CASE Waits
        <4>1. Replies' = Replies
          BY <1>1, <3>1 DEF Waits, Replies
        <4> QED
          BY <1>2, <2>1, <4>1
      <3>2. CASE ~Waits
        <4>1. PICK q \in HandledRequests, r \in Results : Answers(q, r) /\ q.method = "TransferData"
          BY <1>4, <3>2, AnyReceive
        <4>2. PICK x : mSendingQueue' = <<x>> /\ x.id = None
          BY <4>1 DEF Answers, Reply
        <4>3. /\ Len(Replies') = Len(Replies) + 1
              /\ \A n \in 1 .. Len(Replies) : Replies'[n] = Replies[n]
              /\ Replies'[Len(Replies) + 1] = x
          BY <1>1, <4>2, OneMoreReply
        <4> QED
          BY <1>2, <2>1, <4>2, <4>3
      <3> QED
        BY <3>1, <3>2
    <2>4. (\A n \in 1 .. Len(Replies) : GivesFresh(Replies[n]))'
      BY <2>3 DEF GivesFresh
    <2>5. Len(Replies') = 2 => Replies'[1].id = None
      BY <2>3
    <2> QED
      BY <2>2, <2>3, <2>4, <2>5 DEF Starting
  <1> QED
    BY <1>3, <1>4

\* What a VUCM that drives a session is at, with the values of its variables
\* named: a request of its own is answered, or not yet complete.
LEMMA DrivingReceives ==
    ASSUME WireOK, ManagerOK, onReceive, Running, DriverOK, vucm.pc # "TransferStart",
           NEW p, p = vucm.package, NEW id, id = vucm.id, NEW sent, sent = vucm.sent,
           NEW pc, pc = vucm.pc,
           NEW q, q = CurrentRequest, NEW f, f = FirstRequest, NEW s, s = StartRequest(p)
    PROVE  Driving'
  <1>1. /\ p \in Packages /\ id \in Nat /\ sent \in Nat /\ pc \in Methods \ {"TransferStart"}
        /\ q \in ClientRequests /\ f \in ClientRequests /\ s \in ClientRequests
        /\ Frame(q) \in Seq(ClientUnits) /\ Frame(f) \in Seq(ClientUnits) /\ << >> \in Seq(ClientUnits)
        /\ Driving
    BY DrivingRequests DEF DriverOK
  <1>2. /\ WireOK' /\ UnitsOK(accepted) /\ accepted # << >> /\ mSendingQueue = << >>
        /\ UNCHANGED <<vucm, toVucm>>
    BY AnyReceive DEF onReceive
  <1>3. /\ q' = q /\ CurrentRequest' = q /\ FirstRequest' = f /\ StartRequest(vucm.package)' = s
        /\ q = RequestOf(pc, p, id, sent) /\ f = RequestOf("TransferData", p, id, 0)
    BY <1>2 DEF CurrentRequest, FirstRequest, StartRequest, RequestOf, Request
  <1>4. /\ q \in HandledRequests /\ f \in HandledRequests /\ s \in HandledRequests
    BY <1>1, RequestFields
  <1>5. /\ vucm'.pc = pc /\ vucm'.package = p /\ vucm'.id = id /\ vucm'.sent = sent
    BY <1>2
  <1>6. Len(Replies) \in Nat
    BY RepliesAre
  <1>7. ASSUME Waits PROVE /\ Replies' = Replies
                           /\ id < mNextId'
                           /\ Known(id)' <=> Known(id)
                           /\ Fresh(id)' <=> Fresh(id)
                           /\ Uploaded(id, p, 0)' <=> Uploaded(id, p, 0)
                           /\ Before(pc, p, id, sent)' <=> Before(pc, p, id, sent)
    <2>1. UNCHANGED vars /\ Replies' = Replies
      BY <1>2, <1>7 DEF Waits, Replies
    <2>2. id < mNextId'
      BY <1>1, <2>1 DEF Driving, vars, session
    <2> QED
      BY <2>1, <2>2, SameManager
  <1>8. ASSUME NEW y \in HandledRequests, NEW r \in Results, Answers(y, r)
        PROVE  /\ Handle(y, r) /\ id < mNextId'
               /\ Len(Replies') = Len(Replies) + 1
               /\ \A n \in 1 .. Len(Replies) : Replies'[n] = Replies[n]
               /\ Replies'[Len(Replies) + 1].r = r
    <2>1. Handle(y, r)
      BY <1>8 DEF Answers
    <2>2. id < mNextId'
      <3>1. mNextId \in Nat /\ mNextId' \in Nat /\ mNextId <= mNextId' /\ id < mNextId
        BY <1>1, <2>1, NextIdGrows DEF Driving
      <3> QED
        BY <1>1, <3>1
    <2>3. PICK x : mSendingQueue' = <<x>> /\ x.r = r
      BY <1>8 DEF Answers, Reply
    <2> QED
      BY <1>2, <2>1, <2>2, <2>3, OneMoreReply
  <1>9. SUFFICES /\ id < mNextId'
                 /\ \/ Asked' \/ Answered'
                    \/ /\ pc = "TransferData" /\ sent = 0
                       /\ AheadOfStart' \/ AheadOfAnswer' \/ AheadOfBoth'
                    \/ /\ pc \in {"TransferData", "TransferExit"} /\ sent = 1
                       /\ Gone'
    BY <1>1, <1>5 DEF Driving
  <1>10. CASE Asked
    <2>1. Flow(q, << >>) /\ Len(Replies) = 0 /\ Before(pc, p, id, sent)
      BY <1>10 DEF Asked
    <2>2. CASE Waits /\ Flow(q, << >>)'
      BY <1>3, <1>5, <1>7, <2>1, <2>2 DEF Asked
    <2>3. CASE /\ mReceiveBuffer' = << >> /\ accepted' = << >>
               /\ \E r \in Results : Answers(q, r)
      <3>1. PICK r \in Results : Answers(q, r)
        BY <2>3
      <3>2. /\ Handle(q, r) /\ id < mNextId' /\ Len(Replies') = 1 /\ Replies'[1].r = r
        BY <1>4, <1>8, <2>1, <3>1
      <3>3. r = "ok" => After(pc, p, id, sent)'
        BY <1>1, <1>3, <2>1, <3>2, CallLeaves
      <3>4. Answered'
        BY <1>5, <2>3, <3>2, <3>3 DEF Answered, NothingFlows
      <3> QED
        BY <3>2, <3>4
    <2> QED
      BY <1>1, <2>1, <2>2, <2>3, FlowReceive
  <1>11. CASE pc = "TransferData" /\ sent = 0 /\ AheadOfStart
    <2>1. Flow(s, Frame(f)) /\ Len(Replies) = 0 /\ Fresh(id)
      BY <1>11 DEF AheadOfStart
    <2>2. CASE Waits /\ Flow(s, Frame(f))'
      <3>1. Frame(f)' = Frame(f)
        BY DEF Frame, Units
      <3>2. AheadOfStart'
        BY <1>3, <1>5, <1>7, <2>1, <2>2, <3>1 DEF AheadOfStart
      <3> QED
        BY <1>7, <1>11, <2>2, <3>2
    <2>3. CASE /\ mReceiveBuffer' = << >> /\ accepted' = Frame(f)
               /\ \E r \in Results : Answers(s, r)
      <3>1. PICK r \in Results : Answers(s, r)
        BY <2>3
      <3>2. /\ Handle(s, r) /\ id < mNextId' /\ Len(Replies') = 1 /\ Replies'[1].r = r
        BY <1>4, <1>8, <2>1, <3>1
      <3>3. Fresh(id)' /\ (r = "ok" => ~Known(id)')
        BY <1>1, <2>1, <3>2, StartLeaves
      <3>4. Uploaded(id, p, 0)'
        <4>1. [k \in 1 .. 0 |-> <<p, k>>] = << >>
          OBVIOUS
        <4> QED
          BY <3>3, <4>1 DEF Fresh, Uploaded
      <3>5. Flow(f, << >>)'
        <4>1. << >> \o Frame(f) = Frame(f) \o << >> /\ Units(f) \in Nat /\ Units(f) > 0
          BY <1>1, ConcatEmpty, FrameUnits
        <4> QED
          BY <2>3, <4>1 DEF Flow
      <3>6. AheadOfAnswer'
        BY <1>3, <1>5, <3>2, <3>3, <3>4, <3>5 DEF AheadOfAnswer
      <3> QED
        BY <1>11, <3>2, <3>6
    <2> QED
      BY <1>1, <2>1, <2>2, <2>3, FlowReceive
  <1>12. CASE pc = "TransferData" /\ sent = 0 /\ AheadOfAnswer
    <2>1. /\ Flow(f, << >>) /\ Len(Replies) = 1 /\ Uploaded(id, p, 0)
          /\ Replies[1].r = "ok" => ~Known(id)
      BY <1>12 DEF AheadOfAnswer
    <2>2. CASE Waits /\ Flow(f, << >>)'
      <3>1. AheadOfAnswer'
        BY <1>3, <1>5, <1>7, <2>1, <2>2 DEF AheadOfAnswer
      <3> QED
        BY <1>7, <1>12, <2>2, <3>1
    <2>3. CASE /\ mReceiveBuffer' = << >> /\ accepted' = << >>
               /\ \E r \in Results : Answers(f, r)
      <3>1. PICK r \in Results : Answers(f, r)
        BY <2>3
      <3>2. /\ Handle(f, r) /\ id < mNextId' /\ Len(Replies') = 2
            /\ Replies'[1] = Replies[1] /\ Replies'[2].r = r
        BY <1>4, <1>8, <2>1, <3>1
      <3>3. (Known(id)' <=> Known(id)) /\ (~Known(id) => r # "ok")
        <4>1. "TransferData" \in {"TransferData", "TransferExit"} /\ 0 \in Nat
          OBVIOUS
        <4> QED
          BY <1>1, <1>3, <3>2, <4>1, UnknownIdFails
      <3>4. r = "ok" => Uploaded(id, p, 1)'
        <4>1. "TransferData" \in Methods \ {"TransferStart"} /\ 0 \in Nat /\ 0 + 1 = 1
          BY DEF Methods
        <4>2. Before("TransferData", p, id, 0)
          BY <2>1 DEF Before
        <4>3. r = "ok" => After("TransferData", p, id, 0)'
          BY <1>1, <1>3, <3>2, <4>1, <4>2, CallLeaves
        <4> QED
          BY <4>1, <4>3 DEF After
      <3>5. AheadOfBoth'
        BY <1>5, <2>1, <2>3, <3>2, <3>3, <3>4 DEF AheadOfBoth, NothingFlows
      <3> QED
        BY <1>12, <3>2, <3>5
    <2> QED
      BY <1>1, <2>1, <2>2, <2>3, FlowReceive
  <1>13. CASE pc \in {"TransferData", "TransferExit"} /\ sent = 1 /\ Gone
    <2>0. ~Known(id)
      BY <1>13 DEF Gone
    <2>1. CASE Len(Replies) = 0 /\ Flow(f, Frame(q))
      <3>1. CASE Waits /\ Flow(f, Frame(q))'
        <4>1. Frame(q)' = Frame(q)
          BY DEF Frame, Units
        <4>2. Gone'
          BY <1>3, <1>5, <1>7, <2>0, <2>1, <3>1, <4>1 DEF Gone
        <4> QED
          BY <1>7, <1>13, <3>1, <4>2
      <3>2. CASE /\ mReceiveBuffer' = << >> /\ accepted' = Frame(q)
                 /\ \E r \in Results : Answers(f, r)
        <4>1. PICK r \in Results : Answers(f, r)
          BY <3>2
        <4>2. /\ Handle(f, r) /\ id < mNextId' /\ Len(Replies') = 1 /\ Replies'[1].r = r
          BY <1>4, <1>8, <2>1, <4>1
        <4>3. ~Known(id)' /\ r # "ok"
          <5>1. "TransferData" \in {"TransferData", "TransferExit"} /\ 0 \in Nat
            OBVIOUS
          <5> QED
            BY <1>1, <1>3, <2>0, <4>2, <5>1, UnknownIdFails
        <4>4. Flow(q, << >>)'
          <5>1. << >> \o Frame(q) = Frame(q) \o << >> /\ Units(q) \in Nat /\ Units(q) > 0
            BY <1>1, ConcatEmpty, FrameUnits
          <5> QED
            BY <3>2, <5>1 DEF Flow
        <4>5. Gone'
          BY <1>3, <1>5, <4>2, <4>3, <4>4 DEF Gone
        <4> QED
          BY <1>13, <4>2, <4>5
      <3> QED
        BY <1>1, <2>1, <3>1, <3>2, FlowReceive
    <2>2. CASE Len(Replies) = 1 /\ Replies[1].r # "ok" /\ Flow(q, << >>)
      <3>1. CASE Waits /\ Flow(q, << >>)'
        <4>1. Gone'
          BY <1>3, <1>5, <1>7, <2>0, <2>2, <3>1 DEF Gone
        <4> QED
          BY <1>7, <1>13, <3>1, <4>1
      <3>2. CASE /\ mReceiveBuffer' = << >> /\ accepted' = << >>
                 /\ \E r \in Results : Answers(q, r)
        <4>1. PICK r \in Results : Answers(q, r)
          BY <3>2
        <4>2. /\ Handle(q, r) /\ id < mNextId' /\ Len(Replies') = 2
              /\ Replies'[1] = Replies[1] /\ Replies'[2].r = r
          BY <1>4, <1>8, <2>2, <4>1
        <4>3. ~Known(id)' /\ r # "ok"
          BY <1>1, <1>3, <1>13, <2>0, <4>2, UnknownIdFails
        <4>4. Gone'
          BY <1>5, <2>2, <3>2, <4>2, <4>3 DEF Gone, NothingFlows
        <4> QED
          BY <1>13, <4>2, <4>4
      <3> QED
        BY <1>1, <2>2, <3>1, <3>2, FlowReceive
    <2> QED
      BY <1>2, <1>3, <1>13, <2>1, <2>2 DEF Gone, NothingFlows
  <1>14. ~Answered /\ ~AheadOfBoth
    BY <1>2 DEF Answered, AheadOfBoth, NothingFlows
  <1> QED
    BY <1>1, <1>10, <1>11, <1>12, <1>13, <1>14 DEF Driving

\* UCM receives: a campaign and what it still waits for go on together.
LEMMA ReceiveKeeps == CampaignInv /\ onReceive => CampaignInv'
  <1> SUFFICES ASSUME CampaignInv, onReceive PROVE CampaignInv'
    OBVIOUS
  <1>0. ManagerOK /\ WireOK /\ QueueOK /\ ConnectionOK /\ DriverOK
    BY DEF CampaignInv
  <1>1. /\ WireOK' /\ ManagerOK' /\ mSendingQueue = << >>
        /\ UnitsOK(accepted) /\ accepted # << >> /\ accepted' = Tail(accepted)
        /\ UNCHANGED <<vucm, toVucm, backlog, backlogEof, acceptedEof>>
    BY <1>0, AnyReceive DEF onReceive
  <1>2. Running' <=> Running
    BY <1>1 DEF Running
  <1>3. accepted # None /\ accepted' # None
    BY <1>1, LessUnits, UnitsAreSomething
  <1>4. ConnectionOK'
    <2>1. Frame(StartRequest(vucm.package))' = Frame(StartRequest(vucm.package))
      BY <1>1 DEF Frame, Units, StartRequest, RequestOf, Request
    <2> QED
      BY <1>0, <1>1, <1>2, <1>3, <2>1 DEF ConnectionOK
  <1>5. QueueOK'
    <2>1. CASE Waits
      BY <1>1, <2>1 DEF Waits, QueueOK
    <2>2. CASE ~Waits
      <3>1. PICK q \in HandledRequests, r \in Results :
                Answers(q, r) /\ (q.method # "TransferData" => mReceiveBuffer' = << >>)
        BY <1>0, <2>2, AnyReceive
      <3>2. PICK x : /\ mSendingQueue' = <<x>> /\ x.r = r
                     /\ x.id = IF q.method = "TransferStart" /\ r = "ok" THEN mNextId ELSE None
        BY <3>1 DEF Answers, Reply
      <3>3. GivesFresh(x)'
        <4>1. CASE x.id = None
          BY <4>1 DEF GivesFresh
        <4>2. CASE x.id # None
          <5>1. q.method = "TransferStart" /\ r = "ok" /\ x.id = mNextId
            BY <3>2, <4>2
          <5>2. Handle(q, r)
            BY <3>1 DEF Answers
          <5>3. Fresh(x.id)'
            BY <1>0, <5>1, <5>2, NewIdIsFresh
          <5> QED
            BY <3>1, <3>2, <5>1, <5>3 DEF GivesFresh
        <4> QED
          BY <4>1, <4>2
      <3> QED
        BY <3>2, <3>3 DEF QueueOK
    <2> QED
      BY <2>1, <2>2
  <1>6. ASSUME Running, vucm.pc = "TransferStart", backlog = None PROVE Starting'
    BY <1>0, <1>6, StartingReceives DEF DriverOK
  <1>7. ASSUME Running, vucm.pc # "TransferStart" PROVE Driving'
    BY <1>0, <1>7, DrivingReceives
  <1>8. DriverOK'
    BY <1>0, <1>1, <1>2, <1>6, <1>7 DEF DriverOK
  <1> QED
    BY <1>1, <1>4, <1>5, <1>8 DEF CampaignInv

\* Every step of the campaign keeps the invariant.
LEMMA CampaignInvStep == CampaignInv /\ [CampaignNext]_campaignVars => CampaignInv'
  <1>1. CampaignInv /\ CampaignNext => CampaignInv'
    BY StartKeeps, ReplyKeeps, GiveUpKeeps, ExitKeeps, AcceptKeeps, ReceiveKeeps, NothingKeeps,
       SendKeeps, RestartKeeps DEF CampaignNext, UcmStep
  <1>2. ASSUME CampaignInv, UNCHANGED campaignVars PROVE CampaignInv'
    <2>1. UNCHANGED <<vars, vucm, toVucm, backlog, backlogEof, accepted, acceptedEof,
                      mReceiveBuffer, mSendingQueue>>
      BY <1>2 DEF campaignVars, network, server
    <2>2. ManagerOK /\ WireOK /\ QueueOK /\ ConnectionOK /\ DriverOK
      BY <1>2 DEF CampaignInv
    <2>3. ManagerOK' /\ QueueOK'
      BY <2>1, <2>2, ManagerKept, QueueKept
    <2>4. WireOK'
      BY <2>1, <2>2 DEF WireOK
    <2>5. ConnectionOK'
      <3>1. Running' <=> Running
        BY <2>1 DEF Running
      <3>2. Frame(StartRequest(vucm.package))' = Frame(StartRequest(vucm.package))
        BY <2>1 DEF Frame, Units, StartRequest, RequestOf, Request
      <3> QED
        BY <2>1, <2>2, <3>1, <3>2 DEF ConnectionOK
    <2>6. DriverOK'
      <3>1. Replies' = Replies
        BY <2>1 DEF Replies
      <3> QED
        BY <2>1, <2>2, <3>1, DriverKept
    <2> QED
      BY <2>3, <2>4, <2>5, <2>6 DEF CampaignInv
  <1> QED
    BY <1>1, <1>2

\* The step the property is about: VUCM succeeds only with the reply to its
\* last call, and what that call left behind is the package.
LEMMA SuccessIsRight ==
    ASSUME CampaignInv, CampaignNext, vucm.pc # "succeeded", vucm'.pc = "succeeded"
    PROVE  mStorage /\ WellFormed(vucm.package) => Installed(vucm.package)
  <1>0. ManagerOK /\ WireOK /\ QueueOK /\ ConnectionOK /\ DriverOK
    BY DEF CampaignInv
  <1>1. OnReply
    BY <1>0 DEF CampaignNext, Start, GiveUp, Exit, Idle, UcmStep, onAccept, onReceive, onReceiveNothing,
           onSend, RestartUcm, WireOK
  <1>2. PICK n \in 1 .. Len(toVucm) : \E id, sent, next :
            /\ Takes(n, id, sent, next)
            /\ Running
            /\ \/ /\ CallSucceeds(toVucm[n]) /\ next # "succeeded"
                  /\ vucm' = [vucm EXCEPT !.pc = next, !.id = id, !.sent = sent]
                  /\ toVucm' = SubSeq(toVucm, n + 1, Len(toVucm))
                  /\ Transmit(Frame(RequestOf(next, vucm.package, id, sent)))
                  /\ UNCHANGED <<backlogEof, acceptedEof>>
               \/ /\ CallSucceeds(toVucm[n]) /\ next = "succeeded"
                  /\ vucm' = [vucm EXCEPT !.pc = "succeeded"]
                  /\ toVucm' = << >> /\ HangUp(Len(Unread))
               \/ /\ vucm' = [vucm EXCEPT !.pc = "failed"]
                  /\ toVucm' = << >> /\ HangUp(Len(Unread))
            /\ UNCHANGED <<vars, server>>
    BY <1>1 DEF OnReply, Takes
  <1>21. PICK id, sent, next :
            /\ Takes(n, id, sent, next)
            /\ Running
            /\ \/ /\ CallSucceeds(toVucm[n]) /\ next # "succeeded"
                  /\ vucm' = [vucm EXCEPT !.pc = next, !.id = id, !.sent = sent]
                  /\ toVucm' = SubSeq(toVucm, n + 1, Len(toVucm))
                  /\ Transmit(Frame(RequestOf(next, vucm.package, id, sent)))
                  /\ UNCHANGED <<backlogEof, acceptedEof>>
               \/ /\ CallSucceeds(toVucm[n]) /\ next = "succeeded"
                  /\ vucm' = [vucm EXCEPT !.pc = "succeeded"]
                  /\ toVucm' = << >> /\ HangUp(Len(Unread))
               \/ /\ vucm' = [vucm EXCEPT !.pc = "failed"]
                  /\ toVucm' = << >> /\ HangUp(Len(Unread))
            /\ UNCHANGED <<vars, server>>
    BY <1>2
  <1>3. /\ Takes(n, id, sent, next) /\ Running
        /\ CallSucceeds(toVucm[n]) /\ next = "succeeded"
    BY <1>0, <1>21 DEF WireOK
  <1>4. /\ vucm.package \in Packages /\ vucm.sent \in Nat /\ vucm.pc \in Methods
    BY <1>0, <1>3, RunningPcs DEF WireOK, DriverOK
  <1>5. vucm.pc = "Activate"
    <2>1. sent \in Nat /\ next = NextCall(vucm.pc, vucm.package, sent)
      BY <1>3, <1>4 DEF Takes
    <2>2. CASE vucm.pc \in {"TransferStart", "TransferData"}
      <3>1. next = IF sent < Len(Archive[vucm.package]) THEN "TransferData" ELSE "TransferExit"
        BY <1>4, <2>1, <2>2, NextCallIs
      <3> QED
        BY <1>3, <3>1
    <2>3. CASE vucm.pc \in {"TransferExit", "ProcessSwPackage"}
      BY <1>3, <1>4, <2>1, <2>3, NextCallIs
    <2> QED
      BY <1>4, <2>2, <2>3 DEF Methods
  <1>6. Driving /\ toVucm[n].r = "ok"
    BY <1>0, <1>3, <1>5 DEF DriverOK, CallSucceeds
  <1>7. Replies[n] = toVucm[n] /\ n <= Len(Replies) /\ Len(Replies) \in Nat
    BY <1>0, RepliesAre
  <1>8. Answered
    BY <1>5, <1>6, <1>7 DEF Driving, Asked
  <1>9. After("Activate", vucm.package, vucm.id, vucm.sent)
    BY <1>5, <1>6, <1>7, <1>8 DEF Answered
  <1> QED
    BY <1>9 DEF After

\* SuccessMeansInstalled holds for every set of packages, every length of
\* their archives and of a frame, and every number of campaigns: VUCM reports
\* success only when the target machine has the package, however many clients
\* gave up before and wherever their late requests and replies went.
THEOREM SuccessIsInstalled == CampaignSpec => SuccessMeansInstalled
  <1>1. CampaignInit => CampaignInv
    BY CampaignInvInit
  <1>2. CampaignInv /\ [CampaignNext]_campaignVars => CampaignInv'
    BY CampaignInvStep
  <1>3. CampaignInv /\ [CampaignNext]_campaignVars =>
            [vucm.pc # "succeeded" /\ vucm'.pc = "succeeded" /\ mStorage /\ WellFormed(vucm.package) =>
                Installed(vucm.package)]_campaignVars
    BY SuccessIsRight DEF campaignVars
  <1> QED
    BY <1>1, <1>2, <1>3, PTL DEF CampaignSpec, SuccessMeansInstalled

=============================================================================
