CONSTANTS
    NaN = NaN
    Entries <- MCEntries
    Requests <- MCRequests
    Configs <- MCConfigs
    MaxDown = 2
    Reruns <- MCReruns
    MaxRuns = 2
    MaxLeft = 1
    Settings <- MCSettings
SPECIFICATION DeploySpec
CHECK_DEADLOCK FALSE
INVARIANTS PathRoutable PathAvoidsDead ExchangeConnected RolesAsPlanned FormAgrees OneKeySet 
