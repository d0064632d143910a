CONSTANTS
    None = None
    Torn = Torn
    Packages <- MCPackages
    Binaries <- MCBinaries
    Processes <- MCProcesses
    Archive <- MCArchive
    BinaryName <- MCBinaryName
    ProcessName <- MCProcessName
    Shared = {}
    Sizes <- MCSizes
    Openings <- MCOpenings
    MaxTransfers = 3
    MaxBlocks = 2
    Bulk = 2
    MaxCampaigns = 3
SPECIFICATION FairCampaignSpec
PROPERTIES
    SuccessMeansInstalled
    FailedCampaignIsCleared
