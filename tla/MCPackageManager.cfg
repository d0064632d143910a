CONSTANTS
    None = None
    Torn = Torn
    Packages <- MCPackages
    Binaries <- MCBinaries
    Processes <- MCProcesses
    Archive <- MCArchive
    BinaryName <- MCBinaryName
    ProcessName <- MCProcessName
    Shared = {"bad"}
    Sizes <- MCSizes
    Openings <- MCOpenings
    MaxTransfers = 2
    MaxBlocks = 2
SPECIFICATION Spec
INVARIANTS
    ActiveSessionKnown
    StagedFileComplete
    ActivatedIsInstalled
PROPERTIES
    RegistryFileGrows
