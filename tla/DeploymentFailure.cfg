SPECIFICATION DSpec
CONSTANTS
    d1 = d1
    d2 = d2
    v1 = v1
    v2 = v2
    None = None
    Deployers <- OneDeployer
    Commits <- TwoCommits
    Manifests <- WholeReleases
    MaxDeployments = 2
    BackupNames <- OneBackup
    Environment = "dev"
    ApiRollback = "compatible"
    Faults <- NoFaults
PROPERTY FailedDeploymentIsUndone
