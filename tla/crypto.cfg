SPECIFICATION MCSpec
CONSTANTS
    Q = 5
    QMta = 3
    Salts <- MCSalts
    VssJobs <- MCVssJobs
    PaillierJobs <- MCPaillierJobs
    MtaJobs <- MCMtaJobs
    DLogJobs <- MCDLogJobs
    DDHJobs <- MCDDHJobs
    STJobs <- MCSTJobs
    PDLJobs <- MCPDLJobs
    DlnJobs <- MCDlnJobs
    PaiProofJobs <- MCPaiProofJobs
    ForgeJobs <- MCForgeJobs
    ForgeDDHJobs <- MCForgeDDHJobs
    ModulusJobs <- MCModulusJobs
INVARIANTS
    EnoughSharesRecover WeightsAddUp PaillierRoundTrip MtaSharesAddUp
    ProofsComplete PointProofsSound ModulusProofSound
    EncodingsInvert
CHECK_DEADLOCK FALSE
